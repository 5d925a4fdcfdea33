---------------------------- MODULE MCDiscordBot ----------------------------
(* The instances of DiscordBot that TLC checks.  "discord_bot": one member, two
   channels of which a restart may drop one, and a role of an older version.
   "discord_live": one channel, and a row of a version before contexts. *)
EXTENDS DiscordBot

CONSTANTS alice, a1, a2, role, A, B, x1

Homes == [t \in {a1, a2, role} |-> A]

HomesOne == [t \in {a1} |-> A]

Served == {[place |-> A, targets |-> {a1, a2}, ctx |-> x1],
           [place |-> A, targets |-> {a2}, ctx |-> x1]}

Discord == {[covers |-> TRUE, repairs |-> TRUE, scoped |-> TRUE, applies |-> TRUE,
             shared |-> FALSE, configs |-> Served]}

(* Rows of older versions: one without a context, one of a role. *)
OldRow(ts) == [rows |-> [u \in {alice} |->
                 [exp |-> 1, targets |-> ts, ctx |-> "none", rev |-> 1]], mark |-> 0]
OneChannel == {[place |-> A, targets |-> {a1}, ctx |-> x1]}

DiscordOne == {[covers |-> TRUE, repairs |-> TRUE, scoped |-> TRUE, applies |-> TRUE,
                shared |-> FALSE, configs |-> OneChannel]}

OldFile == {OldRow({a1})}
RoleFile == {OldRow({role})}
=============================================================================
