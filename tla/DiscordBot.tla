------------------------------ MODULE DiscordBot ------------------------------
(***************************************************************************)
(* The Discord adapter on its ledger: bot.js, access.js, permissions.js,   *)
(* reconcile_channel.js and the decommission command.  The ledger's        *)
(* operations are those of GrantLedger; here a platform call is the loop   *)
(* over the channels of a record that access.js makes of it, each channel  *)
(* a fresh read and then an edit, and access also changes through the      *)
(* startup reconciliation, which does not wait for a member's chain, an    *)
(* operator's denials, deleted channels and the decommission command.      *)
(*                                                                         *)
(* t \in live[u] says that the member's overwrite on channel t allows some *)
(* managed bit, t \in denied[u] that it denies one.  An attempt that is    *)
(* retried is a step that leaves the channel to be tried again, so the     *)
(* number of attempts is not counted.  A refresh that fails is taken to    *)
(* leave a cache that is current: refreshed() goes on with what it has.    *)
(***************************************************************************)
EXTENDS GrantLedger

CONSTANTS
  Passes,       \* reconciliation passes that may overlap
  None,         \* no channel, no member
  DenialsRace   \* an operator may deny a bit while a call is in flight

ASSUME BotAssumption ==
  /\ None \notin Targets \cup Users /\ DenialsRace \in BOOLEAN
  /\ \A c \in Configs : c.targets \cap RoleTargets = {}   \* it grants channels only

VARIABLES
  denied,      \* the channels where a member's overwrite denies a bit
  gone,        \* deleted channels
  call,        \* access.js: the channel at hand and the ones given up on
  reconciled,  \* interactions are open
  pass,        \* reconcileGuild() runs
  retiring     \* the decommission command

botVars == <<denied, gone, call, reconciled, pass, retiring>>
allVars == <<vars, botVars>>

NoCall == [at |-> None, bad |-> {}, refused |-> {}]
NoPass == [on |-> FALSE, ready |-> FALSE, failed |-> FALSE, chans |-> {},
           chan |-> None, snap |-> {}, who |-> None, edit |-> FALSE]
NoRetiring == [on |-> FALSE, place |-> None, sure |-> FALSE, ids |-> {},
               todo |-> {}, chan |-> None, holders |-> {}, kept |-> {}]

Fresh(u) == call' = [call EXCEPT ![u] = NoCall]

------------------------------------------------------------------------------
(* The ledger's operations, as the bot starts and resumes them. *)
beside == <<denied, gone, reconciled, pass, retiring>>

SubmitAnytime(u) ==   \* slip: interactions are not held back
  GrantStarts(u) /\ Fresh(u) /\ UNCHANGED beside

Submit(u) == reconciled /\ GrantStarts(u) /\ Fresh(u) /\ UNCHANGED beside

RepairWhenOpen(u) ==   \* slip: a closed bot does not repair
  reconciled /\ HasRow(u) /\ Admit(u) /\ Fresh(u) /\ UNCHANGED beside

Repair(u) == HasRow(u) /\ Admit(u) /\ Fresh(u) /\ UNCHANGED beside

Visit(u) == SweepVisits(u) /\ Fresh(u) /\ UNCHANGED beside

SweepWhenOpen == reconciled /\ Sweep /\ UNCHANGED botVars   \* slip: nor sweeps

SweepDue == Sweep /\ UNCHANGED botVars

CallOver(u) == call[u].at = None /\ op[u].todo \subseteq call[u].bad

(* err.mutated of applyAccess: something was applied, or some channel failed
   for another reason than a denial. *)
mutated(u) ==
  op[u].todo # op[u].rec.targets \/ call[u].bad # call[u].refused

Return(u) ==
  /\ CallOver(u)
  /\ \/ op[u].todo = {} /\ (Migrated(u) \/ Applied(u) \/ TakenBack(u))
     \/ op[u].todo # {} /\ (MigrateFails(u) \/ TakeBackFails(u))
     \/ ~mutated(u) /\ RefusalTaken(u)
     \/ (mutated(u) \/ op[u].prev # NoRow) /\ ApplyFailsKept(u)
     \/ AdmitSettles(u)
  /\ Fresh(u)
  /\ UNCHANGED beside

------------------------------------------------------------------------------
(* applyAccess and repairAccess: one channel of the record. *)
GivesUp(u, t) == call' = [call EXCEPT ![u].at = None, ![u].bad = @ \cup {t}]

AtChannel(u, t) == call[u].at = None /\ t \in op[u].todo \ call[u].bad

(* Fetch, refresh and assertNoMemberDenial. *)
GrantReads(u, t) ==
  /\ Giving(u) /\ AtChannel(u, t)
  /\ t \notin gone /\ t \notin denied[u]
  /\ op[u].phase = "apply" \/ t \notin live[u]
  /\ call' = [call EXCEPT ![u].at = t]
  /\ UNCHANGED <<vars, beside>>

GrantRefuses(u, t) ==
  /\ Giving(u) /\ AtChannel(u, t)
  /\ t \notin gone /\ t \in denied[u]
  /\ call' = [call EXCEPT ![u].bad = @ \cup {t}, ![u].refused = @ \cup {t}]
  /\ UNCHANGED <<vars, beside>>

GrantCannotRead(u, t) ==
  /\ Giving(u) /\ AtChannel(u, t)
  /\ GivesUp(u, t)
  /\ UNCHANGED <<vars, beside>>

(* A repair leaves a channel alone where nothing is missing. *)
RepairSkips(u, t) ==
  /\ op[u].phase = "admit" /\ AtChannel(u, t) /\ t \in live[u]
  /\ Gives(u, t, TRUE)
  /\ UNCHANGED botVars

(* The edit sets every managed bit, whatever a denial set meanwhile. *)
GrantEdits(u, t) ==
  /\ Giving(u) /\ call[u].at = t /\ t \notin gone
  /\ Gives(u, t, TRUE)
  /\ denied' = [denied EXCEPT ![u] = @ \ {t}]
  /\ call' = [call EXCEPT ![u].at = None]
  /\ UNCHANGED <<gone, reconciled, pass, retiring>>

GrantEditFails(u, t) ==
  /\ Giving(u) /\ call[u].at = t
  /\ \/ UNCHANGED <<vars, denied>>
     \/ /\ t \notin gone /\ Gives(u, t, FALSE)
        /\ denied' = [denied EXCEPT ![u] = @ \ {t}]
  /\ GivesUp(u, t) \/ (op[u].phase = "apply" /\ call' = [call EXCEPT ![u].at = None])
  /\ UNCHANGED <<gone, reconciled, pass, retiring>>

------------------------------------------------------------------------------
(* revokeAccess: one channel of the record. *)
NothingToTake(t) == t \in gone \/ ~Reachable(t)

RevokeReads(u, t) ==
  /\ Taking(u) /\ AtChannel(u, t) /\ t \notin RoleTargets
  /\ ~NothingToTake(t) /\ t \in live[u]
  /\ call' = [call EXCEPT ![u].at = t]
  /\ UNCHANGED <<vars, beside>>

(* Gone, or nothing of ours is allowed there: no request. *)
RevokeSkips(u, t) ==
  /\ Taking(u) /\ AtChannel(u, t) /\ t \notin RoleTargets
  /\ NothingToTake(t) \/ t \notin live[u]
  /\ Takes(u, t, TRUE)
  /\ UNCHANGED botVars

(* A failed fetch, a channel of another guild, a role. *)
RevokeCannotRead(u, t) ==
  /\ Taking(u) /\ AtChannel(u, t) /\ t \notin gone
  /\ GivesUp(u, t)
  /\ UNCHANGED <<vars, beside>>

RevokeEdits(u, t) ==
  /\ Taking(u) /\ call[u].at = t
  /\ Takes(u, t, TRUE)
  /\ call' = [call EXCEPT ![u].at = None]
  /\ UNCHANGED beside

RevokeEditFails(u, t) ==
  /\ Taking(u) /\ call[u].at = t /\ t \notin gone
  /\ UNCHANGED vars \/ Takes(u, t, FALSE)
  /\ GivesUp(u, t)
  /\ UNCHANGED beside

------------------------------------------------------------------------------
(* Operators and Discord. *)
Denies(u, t) ==
  /\ t \notin RoleTargets
  /\ gone = {} /\ denied[u] = {}   \* bound: one at a time
  /\ DenialsRace \/ op[u] = Idle
  /\ denied' = [denied EXCEPT ![u] = @ \cup {t}]
  /\ UNCHANGED vars \/ TakenOutside({u}, t)
  /\ UNCHANGED <<gone, call, reconciled, pass, retiring>>

RemovesDenial(u, t) ==
  /\ t \in denied[u]
  /\ denied' = [denied EXCEPT ![u] = @ \ {t}]
  /\ UNCHANGED <<vars, gone, call, reconciled, pass, retiring>>

Deletes(t) ==
  /\ gone = {} /\ \A u \in Users : denied[u] = {}   \* bound: one at a time
  /\ gone' = {t}
  /\ denied' = [u \in Users |-> denied[u] \ {t}]
  /\ TakenOutside(Users, t)
  /\ UNCHANGED <<call, reconciled, pass, retiring>>

(* A request of a process that died lands, or someone gives access by hand;
   bound: while no process is running. *)
Strays(u, t) == up = "down" /\ t \notin gone /\ GivenOutside(u, t) /\ UNCHANGED botVars

------------------------------------------------------------------------------
(* reconcileGuild(): refused while a row names a role or another guild.
   usableTargets() first, then every channel it can reach. *)
Conflicted == \E u \in Users : denied[u] \cap conf.targets # {}

ForeignRows == \E u \in Users : \E t \in grants[u].targets : ~Reachable(t)

PassStarts(p) ==
  /\ up = "up" /\ ~reconciled /\ ~pass[p].on
  /\ NoRoleRows /\ ~ForeignRows
  /\ pass' = [pass EXCEPT ![p] = [NoPass EXCEPT
       !.on = TRUE, !.chans = conf.targets \ gone,
       !.ready = conf.targets \cap gone = {} /\ ~Conflicted]]
  /\ UNCHANGED <<vars, denied, gone, call, reconciled, retiring>>

FirstOf(chans) == CHOOSE t \in chans : TRUE   \* in the order of the configuration

ChannelDone(p) == pass[p].on /\ pass[p].snap = {} /\ pass[p].who = None

(* reconcileChannel: a snapshot of the members with an overwrite. *)
PassEntersChannel(p) ==
  /\ ChannelDone(p) /\ pass[p].chans # {}
  /\ LET t == FirstOf(pass[p].chans)
     IN pass' = [pass EXCEPT ![p].chans = @ \ {t}, ![p].chan = t,
          ![p].snap = {u \in Users : t \in live[u] \cup denied[u]}]
  /\ UNCHANGED <<vars, denied, gone, call, reconciled, retiring>>

(* authorizesTarget on the record and ledger.live(). *)
authorizedByRecord(u, t) ==   \* slip: the context is not compared
  t \in grants[u].targets /\ floor < grants[u].exp

authorizedNow(u, t) ==
  /\ t \in grants[u].targets /\ floor < grants[u].exp
  /\ grants[u].ctx = conf.ctx

PassJudges(p, u) ==
  /\ u \in pass[p].snap /\ pass[p].who = None
  /\ Asked(u)
  /\ pass' = [pass EXCEPT ![p].snap = @ \ {u},
       ![p].who = IF authorizedNow(u, pass[p].chan) THEN None ELSE u]
  /\ UNCHANGED <<denied, gone, call, reconciled, retiring>>

(* clearManagedAllows: a fresh read, then an edit of what is allowed. *)
PassReads(p) ==
  /\ pass[p].who # None /\ ~pass[p].edit
  /\ pass' = IF pass[p].chan \in live[pass[p].who]
               THEN [pass EXCEPT ![p].edit = TRUE]
               ELSE [pass EXCEPT ![p].who = None]
  /\ UNCHANGED <<vars, denied, gone, call, reconciled, retiring>>

PassEdits(p) ==
  /\ pass[p].edit
  /\ TakenOutside({pass[p].who}, pass[p].chan)
  /\ pass' = [pass EXCEPT ![p].who = None, ![p].edit = FALSE]
  /\ UNCHANGED <<denied, gone, call, reconciled, retiring>>

PassEditFails(p) ==
  /\ pass[p].edit /\ pass[p].chan \notin gone
  /\ UNCHANGED vars \/ TakenOutside({pass[p].who}, pass[p].chan)
  /\ pass' = [pass EXCEPT ![p].who = None, ![p].edit = FALSE, ![p].failed = TRUE]
  /\ UNCHANGED <<denied, gone, call, reconciled, retiring>>

(* A channel that cannot be fetched ends the pass. *)
PassThrows(p) ==
  /\ ChannelDone(p) /\ pass[p].chans # {}
  /\ pass' = [pass EXCEPT ![p] = NoPass]
  /\ UNCHANGED <<vars, denied, gone, call, reconciled, retiring>>

PassEnds(p) ==
  /\ ChannelDone(p) /\ pass[p].chans = {}
  /\ reconciled' = (reconciled \/ (pass[p].ready /\ ~pass[p].failed))
  /\ pass' = [pass EXCEPT ![p] = NoPass]
  /\ UNCHANGED <<vars, denied, gone, call, retiring>>

------------------------------------------------------------------------------
(* runDecommission() on a ledger the bot has opened before, which the command
   holds locked: one channel after the other, or one role, and the ledger
   last.  With --confirm-target-gone ("sure") a target that is not found is
   retired, if a row of this guild names it. *)
Ours(place) == place = scope   \* recordHomeGuild, of a row without a guild

offline == <<denied, gone, call, reconciled, pass>>

DcStarts(place, ids, sure) ==
  /\ up = "down" /\ ~retiring.on
  /\ scope # NoScope /\ NoPending /\ HighestRev <= revSeq
  /\ ids # {} /\ (ids \cap RoleTargets = {} \/ \E r \in RoleTargets : ids = {r})
  /\ sure => \A t \in ids : \E u \in Users : Ours(place) /\ t \in grants[u].targets
  /\ retiring' = [NoRetiring EXCEPT !.on = TRUE, !.place = place, !.sure = sure,
                                    !.ids = ids, !.todo = ids]
  /\ UNCHANGED <<vars, offline>>

DcAt(t) == retiring.holders = {} /\ retiring.todo # {} /\ t = FirstOf(retiring.todo)

NotFound(t) == t \in gone \/ PlaceOf[t] # retiring.place

DcReads(t) ==
  /\ DcAt(t) /\ ~NotFound(t)
  /\ retiring' = [retiring EXCEPT !.todo = @ \ {t}, !.chan = t,
                     !.holders = {u \in Users : t \in live[u]}]
  /\ UNCHANGED <<vars, offline>>

(* A channel that cannot be read is skipped, a role ends the command. *)
DcSkips(t) ==
  /\ DcAt(t) /\ t \notin RoleTargets
  /\ retiring' = [retiring EXCEPT !.todo = @ \ {t}, !.kept = @ \cup (Users \X {t})]
  /\ UNCHANGED <<vars, offline>>

DcAsserted(t) ==
  /\ DcAt(t) /\ NotFound(t) /\ retiring.sure
  /\ retiring' = [retiring EXCEPT !.todo = @ \ {t}]
  /\ UNCHANGED <<vars, offline>>

DcClears(u) ==
  /\ u \in retiring.holders
  /\ TakenOutside({u}, retiring.chan)
  /\ retiring' = [retiring EXCEPT !.holders = @ \ {u}]
  /\ UNCHANGED offline

DcClearFailureForgotten(u) ==   \* slip: no failedPairs
  /\ u \in retiring.holders
  /\ retiring' = [retiring EXCEPT !.holders = @ \ {u}]
  /\ UNCHANGED <<vars, offline>>

DcClearFails(u) ==
  /\ u \in retiring.holders
  /\ UNCHANGED vars \/ TakenOutside({u}, retiring.chan)
  /\ retiring' = [retiring EXCEPT !.holders = @ \ {u},
                                  !.kept = @ \cup {<<u, retiring.chan>>}]
  /\ UNCHANGED offline

(* retireTargetTransform: per member, what was not skipped and did not fail. *)
retireTarget(u) ==
  IF Ours(retiring.place) THEN {t \in retiring.ids : <<u, t>> \notin retiring.kept} ELSE {}

DcRetires ==
  /\ retiring.on /\ retiring.holders = {} /\ retiring.todo = {}
  /\ LET went == [u \in Users |-> retireTarget(u)]
     IN IF \E u \in Users : went[u] \cap grants[u].targets # {}
          THEN RetireRows(went)
          ELSE UNCHANGED vars
  /\ retiring' = NoRetiring
  /\ UNCHANGED offline

(* An error before the ledger, of the ledger, or the end of the process. *)
DcEnds == retiring.on /\ retiring' = NoRetiring /\ UNCHANGED <<vars, offline>>

------------------------------------------------------------------------------
(* The process, and the clock. *)
BotOpens(c) == ~retiring.on /\ Open(c) /\ UNCHANGED botVars

BotBoots == Boot /\ UNCHANGED botVars

BotCrashes ==
  /\ Crash
  /\ call' = [u \in Users |-> NoCall]
  /\ pass' = [p \in Passes |-> NoPass]
  /\ reconciled' = FALSE
  /\ UNCHANGED <<denied, gone, retiring>>

BotInit ==
  /\ Init
  /\ denied = [u \in Users |-> {}] /\ gone = {}
  /\ call = [u \in Users |-> NoCall]
  /\ pass = [p \in Passes |-> NoPass]
  /\ reconciled = FALSE /\ retiring = NoRetiring

CallStep(u) ==
  \E t \in Targets :
    \/ GrantReads(u, t) \/ GrantRefuses(u, t) \/ GrantCannotRead(u, t)
    \/ RepairSkips(u, t) \/ GrantEdits(u, t) \/ GrantEditFails(u, t)
    \/ RevokeReads(u, t) \/ RevokeSkips(u, t) \/ RevokeCannotRead(u, t)
    \/ RevokeEdits(u, t) \/ RevokeEditFails(u, t)

PassStep(p) ==
  \/ PassStarts(p) \/ PassReads(p) \/ PassEdits(p) \/ PassEditFails(p)
  \/ PassEntersChannel(p) \/ PassThrows(p) \/ PassEnds(p)
  \/ \E u \in Users : PassJudges(p, u)

Operators ==
  \E t \in Targets :
    \/ Deletes(t)
    \/ \E u \in Users : Denies(u, t) \/ RemovesDenial(u, t) \/ Strays(u, t)

Decommission ==
  \/ \E place \in Places, ids \in SUBSET Targets, sure \in BOOLEAN :
       DcStarts(place, ids, sure)
  \/ \E t \in Targets : DcReads(t) \/ DcSkips(t) \/ DcAsserted(t)
  \/ \E u \in Users : DcClears(u) \/ DcClearFails(u)
  \/ DcRetires \/ DcEnds

BotNext ==
  \/ \E u \in Users : Submit(u) \/ Repair(u) \/ Visit(u) \/ Return(u) \/ CallStep(u)
  \/ SweepDue
  \/ \E p \in Passes : PassStep(p)
  \/ Operators
  \/ Decommission
  \/ \E c \in adapter.configs : BotOpens(c)
  \/ BotBoots
  \/ BotCrashes
  \/ \E t \in Time : SetClock(t) /\ UNCHANGED botVars

(* The timer sweeps and repairs, every call returns, and an attempt made again
   and again succeeds for each channel in the end. *)
BotFairness ==
  /\ WF_allVars(SweepDue)
  /\ \A u \in Users :
       /\ SF_allVars(Visit(u)) /\ SF_allVars(Repair(u)) /\ SF_allVars(Return(u))
       /\ \A t \in Targets :
            /\ SF_allVars(RevokeReads(u, t) \/ RevokeSkips(u, t))
            /\ SF_allVars(RevokeEdits(u, t))
            /\ SF_allVars(GrantReads(u, t) \/ GrantRefuses(u, t) \/ RepairSkips(u, t))
            /\ SF_allVars(GrantEdits(u, t))

BotSpec == BotInit /\ [][BotNext]_allVars
FairBotSpec == BotSpec /\ BotFairness

------------------------------------------------------------------------------
(* The bot, its channel-by-channel calls, its reconciliation passes and the
   decommission command never do to ledger and access what GrantLedger does
   not allow; so access stays covered (grant_ledger.js:652) although three
   parties change it without taking turns. *)
ImplementsLedger == Spec

(* When interactions open, nobody reaches a channel the bot manages without a
   row that names it for the context the bot serves: what an earlier process,
   an older version or an operator left behind is gone (bot.js, "reconciled"). *)
OpensClean ==
  [][~reconciled /\ reconciled' =>
       \A u \in Users : \A t \in live'[u] \cap conf'.targets :
         t \in grants'[u].targets /\ grants'[u].ctx = conf'.ctx]_allVars

(* A pass never takes back what a live record gives: nobody is admitted between
   its look at the records and its edit (bot.js, the gate on interactions). *)
PassesSpareGrants ==
  [][\A p \in Passes :
       (pass[p].edit /\ pass[p].chan \in live[pass[p].who] \ live'[pass[p].who])
         => ~authorizedNow(pass[p].who, pass[p].chan)]_allVars

(* A member whose record is live gets every managed channel it names, unless
   the bot stops, the channel goes or an operator denies it: a failed apply is
   repaired, the proof being spent (bot.js, repairLiveGrants). *)
LiveIsGivenBack ==
  \A u \in Users : \A t \in Targets :
    LET owed == /\ up = "up" /\ t \notin live[u] \cup denied[u] \cup gone
                /\ t \in conf.targets /\ authorizedNow(u, t)
    IN owed ~> ~owed
=============================================================================
