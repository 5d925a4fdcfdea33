---------------------------- MODULE MCGrantLedger ----------------------------
(* The instance of GrantLedger that TLC checks: one member, two channels of a
   guild and one of another, on each platform in turn. *)
EXTENDS GrantLedger

CONSTANTS alice, a1, a2, b1, A, B, x1

OneUser == {alice}
AllTargets == {a1, a2, b1}
Homes == [t \in {a1, a2, b1} |-> IF t = b1 THEN B ELSE A]

(* Two channels of one guild, one of them dropped later, and another guild. *)
AllConfigs == {[place |-> A, targets |-> {a1}, ctx |-> x1],
               [place |-> A, targets |-> {a2}, ctx |-> x1],
               [place |-> B, targets |-> {b1}, ctx |-> x1]}

OneGuild == {c \in AllConfigs : c.place = A}

Shape(c, r, s, a, w, cs) ==
  [covers |-> c, repairs |-> r, scoped |-> s, applies |-> a, shared |-> w,
   configs |-> cs]

(* Discord, Matrix, Telegram, and Discord on a shared file. *)
AllAdapters == {Shape(TRUE, TRUE, TRUE, TRUE, FALSE, AllConfigs),
                Shape(FALSE, FALSE, FALSE, TRUE, FALSE, OneGuild),
                Shape(FALSE, FALSE, FALSE, FALSE, FALSE, OneGuild),
                Shape(TRUE, FALSE, TRUE, TRUE, TRUE, OneGuild)}

OldRow == [exp |-> 1, targets |-> {a1}, ctx |-> x1, rev |-> 1]

(* A ledger of a version before revisions, contexts and scopes. *)
OldFiles == {[rows |-> [u \in {alice} |-> OldRow], mark |-> 1]}
=============================================================================
