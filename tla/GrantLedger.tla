----------------------------- MODULE GrantLedger -----------------------------
(***************************************************************************)
(* adapters/common/grant_ledger.js: the record of who holds access on a    *)
(* chat platform, kept so that access is never live without a row that     *)
(* names it, with the calls that grant, sweep and admit through it.        *)
(*                                                                         *)
(* One process works on the ledger at a time (the exclusive lock), and     *)
(* each member's operations run one after another (#run), so a member has  *)
(* at most one operation under way: op[u].  A platform call is the set     *)
(* op[u].todo of the targets it has not settled; while it is in flight     *)
(* each of them may change, with or without the caller learning of it, and *)
(* the call answers success only when none is left.                        *)
(*                                                                         *)
(* A row is [exp, targets, ctx, rev]; a missing row names no target, which *)
(* validate() rules out for a row that exists.  The contents of records    *)
(* (user names, guild and room ids) are reduced to the targets they name,  *)
(* so JSON and SQL are left out.                                           *)
(***************************************************************************)
EXTENDS Integers

CONSTANTS
  Users,        \* members, by platform account
  Targets,      \* channels, rooms, chats, and roles of earlier versions
  RoleTargets,  \* the targets that are roles: revoke() refuses them
  Places,       \* guilds or rooms a ledger can be bound to
  PlaceOf,      \* the place each target belongs to
  Contexts,     \* contextHash values
  Configs,      \* [place, targets, ctx] a process may be started with
  Adapters,     \* what the platforms differ in, see AdapterShape
  LegacyFiles,  \* what the JSON ledger may hold: [rows, mark]
  NoScope,      \* an unbound database, an adapter that binds none
  MaxTime,      \* bound: the last second of the clock
  MaxRev        \* bound: the revisions a behaviour may spend

Time == 0 .. MaxTime
Revs == 0 .. MaxRev

NoRow == [exp |-> 0, targets |-> {}, ctx |-> "none", rev |-> 0]

Records ==
  [exp : Time, targets : SUBSET Targets, ctx : Contexts \cup {"none"}, rev : Revs]

NoLegacy == [rows |-> [u \in Users |-> NoRow], mark |-> 0]

(* covers: covering() can name two targets in one record (Discord); repairs:
   a pass reapplies access from live records (Discord); scoped: the database
   is bound to a place (Discord); applies: the grant itself gives access, not
   a later join request (all but Telegram); shared: the file lies where the
   exclusive lock does not hold and a second process writes to it; configs:
   what its operator starts it with. *)
AdapterShape == [covers : BOOLEAN, repairs : BOOLEAN, scoped : BOOLEAN,
                 applies : BOOLEAN, shared : BOOLEAN, configs : SUBSET Configs]

ASSUME LedgerAssumption ==
  /\ MaxTime \in Nat /\ MaxRev \in Nat
  /\ RoleTargets \subseteq Targets
  /\ PlaceOf \in [Targets -> Places]
  /\ NoScope \notin Places
  /\ Configs \subseteq [place : Places, targets : SUBSET Targets, ctx : Contexts]
  /\ Adapters \subseteq AdapterShape
  /\ LegacyFiles \subseteq [rows : [Users -> Records], mark : Time]
  /\ \A f \in LegacyFiles, u \in Users :
       f.rows[u].targets = {} => f.rows[u] = NoRow   \* validate()

VARIABLES
  adapter,      \* which platform's callbacks the ledger was built with
  now,          \* the wall clock
  grants,       \* table grants: [Users -> Records]
  revSeq,       \* meta.revSeq
  clockMark,    \* meta.clockMark, 0 while it is absent
  scope,        \* meta.scope
  importedFrom, \* meta.importedFrom is set
  legacy,       \* the JSON ledger still to be adopted, or NoLegacy
  up,           \* "down", the step of #open under way, or "up"
  conf,         \* the configuration the process was started with
  op,           \* the operation at the head of each member's chain
  due,          \* members a sweep has still to visit
  live,         \* the targets each member can reach on the platform
  stray,        \* of those, the ones given from outside the ledger
  lapsed,       \* history: the latest deadline a decision called lapsed
  promised      \* history: the latest deadline each access was granted for

db == <<grants, revSeq, clockMark, scope, importedFrom>>
history == <<lapsed, promised>>
vars == <<adapter, now, grants, revSeq, clockMark, scope, importedFrom, legacy,
          up, conf, op, due, live, stray, lapsed, promised>>

Phases == {"idle", "migrate", "apply", "undo", "sweep", "admit"}

Idle == [phase |-> "idle", rec |-> NoRow, prev |-> NoRow, todo |-> {}, sent |-> FALSE]

Larger(a, b) == IF a >= b THEN a ELSE b

HasRow(u)  == grants[u].targets # {}
(* The rows that count: those of the database, and those of the JSON file
   until it has been adopted. *)
Named(u) ==
  grants[u].targets \cup (IF importedFrom THEN {} ELSE legacy.rows[u].targets)

NoRows     == \A u \in Users : ~HasRow(u)
NoPending  == importedFrom \/ legacy = NoLegacy \/ ~NoRows
ScopeOf(c) == IF adapter.scoped THEN c.place ELSE NoScope

(* What a call of this process can reach.  A Discord record names no guild
   in its oldest form, so a target of another guild answers "not found". *)
Reachable(t) == ~adapter.scoped \/ PlaceOf[t] = conf.place

------------------------------------------------------------------------------
(* #observeClock: one sample, persisted, and the sample decided on. *)
floor == Larger(now, clockMark)

ObserveVolatile == UNCHANGED clockMark   \* slip: the sample is not persisted

Observe == clockMark' = floor

(* #put: a revision of its own for every write. *)
Put(u, r) ==
  /\ revSeq < MaxRev
  /\ revSeq' = revSeq + 1
  /\ grants' = [grants EXCEPT ![u] = [r EXCEPT !.rev = revSeq + 1]]

PutFails == UNCHANGED <<grants, revSeq>>

NoPromise == [t \in Targets |-> 0]

(* DELETE ... WHERE user_id=? AND rev=? *)
DelAny(u, rev) ==   \* slip: delAny
  /\ grants' = [grants EXCEPT ![u] = NoRow]
  /\ promised' = [promised EXCEPT ![u] = NoPromise]

Del(u, rev) ==
  IF grants[u].rev = rev
    THEN /\ grants' = [grants EXCEPT ![u] = NoRow]
         /\ promised' = [promised EXCEPT ![u] = NoPromise]
    ELSE UNCHANGED <<grants, promised>>

Call(u, phase, rec, prev, todo) ==
  op' = [op EXCEPT ![u] = [phase |-> phase, rec |-> rec, prev |-> prev,
                           todo |-> todo, sent |-> FALSE]]

Settle(u) == op' = [op EXCEPT ![u] = Idle]

Promise(u, ts, t) ==
  promised' = [promised EXCEPT ![u] = [x \in Targets |->
                 IF x \in ts THEN Larger(t, promised[u][x]) ELSE promised[u][x]]]

(* A row that over-claims is left standing: see NotExtended. *)
Stretch(u) == Promise(u, grants[u].targets, grants[u].exp)

------------------------------------------------------------------------------
(* grant(userId, record), up to its first platform call.  The record names
   the targets and the context of the running configuration. *)
Offer(t) == [exp |-> t, targets |-> conf.targets, ctx |-> conf.ctx, rev |-> 0]

(* The adapters open for members only when no row names a role. *)
NoRoleRows == \A u \in Users : grants[u].targets \cap RoleTargets = {}

MayStart(u) == up = "up" /\ op[u] = Idle

orphaned(prev, r) == prev.targets \ r.targets

(* coveringTargets: the union, or the new record when the modes differ. *)
covering(r, orphan) ==
  IF orphan \cap RoleTargets # {} THEN r.targets ELSE r.targets \cup orphan

GrantTooLate(u, r) ==
  /\ floor >= r.exp
  /\ lapsed' = Larger(lapsed, r.exp)
  /\ UNCHANGED <<grants, revSeq, op, promised>>

(* The covering row, then the revocation of what the renewal drops. *)
GrantMigrates(u, r) ==
  LET prev == grants[u]
      orphan == orphaned(prev, r)
  IN /\ floor < r.exp /\ orphan # {}
     /\ \/ /\ IF adapter.covers
                THEN Put(u, [r EXCEPT !.targets = covering(r, orphan)])
                ELSE UNCHANGED <<grants, revSeq>>
           /\ Promise(u, r.targets, r.exp)
           /\ Call(u, "migrate", r, prev, orphan)
        \/ adapter.covers /\ PutFails /\ UNCHANGED <<op, promised>>
     /\ UNCHANGED lapsed

(* With nothing to migrate the record itself is written and applied. *)
WriteAndApply(u, r, prev) ==
  \/ /\ Put(u, r)
     /\ Promise(u, r.targets, r.exp)
     /\ Call(u, "apply", [r EXCEPT !.rev = revSeq + 1], prev,
             IF adapter.applies THEN r.targets ELSE {})
  \/ PutFails /\ Settle(u) /\ Stretch(u)

GrantWrites(u, r) ==
  /\ floor < r.exp /\ orphaned(grants[u], r) = {}
  /\ WriteAndApply(u, r, grants[u])
  /\ UNCHANGED lapsed

GrantStarts(u) ==
  /\ MayStart(u)
  /\ \E t \in Time : \/ GrantTooLate(u, Offer(t))
                     \/ GrantMigrates(u, Offer(t))
                     \/ GrantWrites(u, Offer(t))
  /\ Observe
  /\ UNCHANGED <<adapter, now, scope, importedFrom, legacy, up, conf, due, live, stray>>

Grant(u) == NoRoleRows /\ GrantStarts(u)

------------------------------------------------------------------------------
(* What follows each platform call.  Every one is the code between two
   awaits; "rest" is what none of them touches. *)
rest == <<adapter, now, clockMark, scope, importedFrom, legacy, up, conf, due,
          live, stray, lapsed>>

Migrated(u) ==
  /\ op[u].phase = "migrate" /\ op[u].todo = {}
  /\ WriteAndApply(u, op[u].rec, op[u].prev)
  /\ UNCHANGED rest

(* The prior record goes back over the covering one, or cannot. *)
MigrateFailsKeepingCover(u) ==   \* slip: the covering row is left in place
  /\ op[u].phase = "migrate"
  /\ Settle(u)
  /\ UNCHANGED <<grants, revSeq, promised>>
  /\ UNCHANGED rest

MigrateFails(u) ==
  /\ op[u].phase = "migrate"
  /\ \/ adapter.covers /\ Put(u, op[u].prev) /\ UNCHANGED promised
     \/ adapter.covers /\ PutFails /\ Stretch(u)
     \/ ~adapter.covers /\ UNCHANGED <<grants, revSeq, promised>>
  /\ Settle(u)
  /\ UNCHANGED rest

Applied(u) ==
  /\ op[u].phase = "apply" /\ op[u].todo = {}
  /\ Settle(u)
  /\ UNCHANGED <<grants, revSeq, promised>>
  /\ UNCHANGED rest

(* mutated === false on a first grant: nothing was sent, the row goes. *)
RefusalTaken(u) ==
  /\ op[u].phase = "apply" /\ op[u].todo # {}
  /\ op[u].prev = NoRow
  /\ Del(u, op[u].rec.rev)
  /\ Settle(u)
  /\ UNCHANGED revSeq
  /\ UNCHANGED rest

ApplyRefused(u) == ~op[u].sent /\ RefusalTaken(u)

(* A renewal, or an adapter that repairs, keeps the row for the sweep. *)
ApplyFailsKept(u) ==
  /\ op[u].phase = "apply" /\ op[u].todo # {}
  /\ op[u].prev # NoRow \/ adapter.repairs
  /\ Settle(u)
  /\ UNCHANGED <<grants, revSeq, promised>>
  /\ UNCHANGED rest

(* Any other first grant is compensated. *)
ApplyFailsUndone(u) ==
  /\ op[u].phase = "apply" /\ op[u].todo # {}
  /\ op[u].prev = NoRow /\ ~adapter.repairs
  /\ Call(u, "undo", op[u].rec, NoRow, op[u].rec.targets)
  /\ UNCHANGED <<grants, revSeq, promised>>
  /\ UNCHANGED rest

(* The compensation, or the revocation of a sweep, completed or failed. *)
TakenBack(u) ==
  /\ op[u].phase \in {"undo", "sweep"} /\ op[u].todo = {}
  /\ Del(u, op[u].rec.rev)
  /\ Settle(u)
  /\ UNCHANGED revSeq
  /\ UNCHANGED rest

TakeBackFails(u) ==
  /\ op[u].phase \in {"undo", "sweep"}
  /\ Settle(u)
  /\ UNCHANGED <<grants, revSeq, promised>>
  /\ UNCHANGED rest

AdmitSettles(u) ==
  /\ op[u].phase = "admit"
  /\ Settle(u)
  /\ UNCHANGED <<grants, revSeq, promised>>
  /\ UNCHANGED rest

------------------------------------------------------------------------------
(* sweep(): the due list, then each of its members under the member's lock. *)
Sweep ==
  /\ up = "up"
  /\ Observe
  /\ due' = due \cup {u \in Users : HasRow(u) /\ grants[u].exp <= floor}
  /\ UNCHANGED <<adapter, now, grants, revSeq, scope, importedFrom, legacy, up,
                 conf, op, live, stray, lapsed, promised>>

SweepSkips(u) ==
  /\ \/ ~HasRow(u) /\ UNCHANGED clockMark
     \/ HasRow(u) /\ floor < grants[u].exp /\ Observe
  /\ UNCHANGED <<op, lapsed>>

SweepTakes(u) ==
  /\ HasRow(u) /\ floor >= grants[u].exp
  /\ Observe
  /\ lapsed' = Larger(lapsed, grants[u].exp)
  /\ Call(u, "sweep", grants[u], NoRow, grants[u].targets)

SweepVisits(u) ==
  /\ up = "up" /\ op[u] = Idle /\ u \in due
  /\ due' = due \ {u}
  /\ SweepSkips(u) \/ SweepTakes(u)
  /\ UNCHANGED <<adapter, now, grants, revSeq, scope, importedFrom, legacy, up,
                 conf, live, stray, promised>>

(* admitIfLive: Telegram approves a join request, Discord reapplies what the
   record names among the channels it manages. *)
Admit(u) ==
  /\ up = "up" /\ op[u] = Idle
  /\ adapter.repairs \/ ~adapter.applies
  /\ Observe
  /\ IF HasRow(u) /\ floor < grants[u].exp
       THEN /\ IF grants[u].ctx = conf.ctx /\ grants[u].targets \cap conf.targets # {}
                 THEN Call(u, "admit", grants[u], NoRow,
                           grants[u].targets \cap conf.targets)
                 ELSE UNCHANGED op
            /\ UNCHANGED lapsed
       ELSE /\ lapsed' = IF HasRow(u) THEN Larger(lapsed, grants[u].exp) ELSE lapsed
            /\ UNCHANGED op
  /\ UNCHANGED <<adapter, now, grants, revSeq, scope, importedFrom, legacy, up,
                 conf, due, live, stray, promised>>

(* live(): asked by the passes that reconcile a guild or a room. *)
Asked(u) ==
  /\ up = "up"
  /\ Observe
  /\ lapsed' = IF HasRow(u) /\ floor >= grants[u].exp
                 THEN Larger(lapsed, grants[u].exp) ELSE lapsed
  /\ UNCHANGED <<adapter, now, grants, revSeq, scope, importedFrom, legacy, up,
                 conf, op, due, live, stray, promised>>

------------------------------------------------------------------------------
(* The platform: a target of the call in flight changes, and the call counts
   it as settled or never learns of it. *)
elsewhere == <<adapter, now, grants, revSeq, clockMark, scope, importedFrom,
               legacy, up, conf, due, lapsed, promised>>

Giving(u) == op[u].phase \in {"apply", "admit"}
Taking(u) == op[u].phase \in {"migrate", "undo", "sweep"}

Gives(u, t, learned) ==
  /\ Giving(u) /\ t \in op[u].todo /\ Reachable(t)
  /\ live' = [live EXCEPT ![u] = @ \cup {t}]
  /\ op' = [op EXCEPT ![u].sent = TRUE,
                      ![u].todo = IF learned THEN @ \ {t} ELSE @]
  /\ UNCHANGED <<stray, elsewhere>>

(* A target that is not found counts as taken back; a role is refused. *)
Takes(u, t, learned) ==
  /\ Taking(u) /\ t \in op[u].todo \ RoleTargets
  /\ IF Reachable(t)
       THEN /\ live' = [live EXCEPT ![u] = @ \ {t}]
            /\ stray' = [stray EXCEPT ![u] = @ \ {t}]
       ELSE learned /\ UNCHANGED <<live, stray>>
  /\ op' = [op EXCEPT ![u].todo = IF learned THEN @ \ {t} ELSE @]
  /\ UNCHANGED elsewhere

(* Access given by hand, by a version before the ledger or by a request that
   lands after its process died, and access taken away by someone else (an
   operator, the startup reconciliation). *)
GivenOutside(u, t) ==
  /\ stray[u] = {}   \* bound: one at a time
  /\ t \notin live[u] \cup Named(u)
  /\ live' = [live EXCEPT ![u] = @ \cup {t}]
  /\ stray' = [stray EXCEPT ![u] = @ \cup {t}]
  /\ UNCHANGED <<op, elsewhere>>

Without(f, us, t) == [u \in Users |-> IF u \in us THEN f[u] \ {t} ELSE f[u]]

TakenOutside(us, t) ==
  /\ live' = Without(live, us, t)
  /\ stray' = Without(stray, us, t)
  /\ UNCHANGED <<op, elsewhere>>

(* A second process on the same file, which the lock normally refuses: it
   records a grant of its own and applies it.  A migration under way is left
   out: its writes are not conditional on the revision. *)
OtherProcessGrants(u, t) ==
  /\ adapter.shared /\ up = "up" /\ NoRoleRows
  /\ floor < t
  /\ orphaned(grants[u], Offer(t)) = {} /\ op[u].phase # "migrate"
  /\ Put(u, Offer(t))
  /\ Promise(u, conf.targets, t)
  /\ live' = [live EXCEPT ![u] = @ \cup {x \in conf.targets : Reachable(x)}]
  /\ Observe
  /\ UNCHANGED <<adapter, now, scope, importedFrom, legacy, up, conf, op, due,
                 stray, lapsed>>

------------------------------------------------------------------------------
(* #open, one action per transaction, so that the process may die between
   any two.  A refusal is a step back to "down", or no step at all. *)
HighestRev == IF NoRows THEN 0
              ELSE CHOOSE m \in Revs :
                     /\ \E u \in Users : grants[u].rev = m
                     /\ \A u \in Users : grants[u].rev <= m

MayOpen(c) ==
  scope = NoScope \/ ScopeOf(c) \in {NoScope, scope} \/ (NoRows /\ NoPending)

OpenUnseeded(c) ==   \* slip: no #seedRevSeq
  /\ up = "down"
  /\ MayOpen(c)
  /\ scope' = IF scope # NoScope /\ ScopeOf(c) # NoScope THEN ScopeOf(c) ELSE scope
  /\ conf' = c /\ up' = "import"
  /\ UNCHANGED <<adapter, now, grants, revSeq, clockMark, importedFrom, legacy, op,
                 due, live, stray, history>>

(* #seedRevSeq, then #refuseForeignScope: an empty ledger is rebound. *)
Open(c) ==
  /\ up = "down"
  /\ MayOpen(c)
  /\ revSeq' = Larger(revSeq, HighestRev)
  /\ scope' = IF scope # NoScope /\ ScopeOf(c) # NoScope THEN ScopeOf(c) ELSE scope
  /\ conf' = c /\ up' = "import"
  /\ UNCHANGED <<adapter, now, grants, clockMark, importedFrom, legacy, op, due,
                 live, stray, history>>

Adopted(rows) == [u \in Users |-> IF rows[u].targets = {} THEN NoRow
                                  ELSE [rows[u] EXCEPT !.rev = revSeq + 1]]

(* #importLegacy: every record in one transaction, once. *)
Import ==
  /\ up = "import"
  /\ IF NoPending
       THEN /\ up' = "bind"
            /\ UNCHANGED <<grants, revSeq, clockMark, importedFrom, promised>>
       ELSE /\ revSeq < MaxRev
            /\ up' = "rename"
            /\ revSeq' = revSeq + 1
            /\ grants' = Adopted(legacy.rows)
            /\ clockMark' = Larger(clockMark, legacy.mark)
            /\ importedFrom' = TRUE
            /\ promised' = [u \in Users |-> [t \in Targets |-> legacy.rows[u].exp]]
  /\ UNCHANGED <<adapter, now, scope, legacy, conf, op, due, live, stray,
                 lapsed>>

Rename ==
  /\ up = "rename"
  /\ legacy' = NoLegacy /\ up' = "bind"
  /\ UNCHANGED <<adapter, now, db, conf, op, due, live, stray, history>>

(* The operator's assertion is taken to be true: nothing verifies it. *)
AdoptIsTrue == \A u \in Users : \A t \in grants[u].targets : PlaceOf[t] = conf.place

(* #bindScope: silently when there is nothing to get wrong. *)
MayBind(adopt) ==
  ScopeOf(conf) = NoScope \/ scope # NoScope \/ NoRows \/ (adopt /\ AdoptIsTrue)

Bind(adopt, resetClock) ==
  /\ up = "bind"
  /\ IF MayBind(adopt)
       THEN /\ up' = "up"
            /\ scope' = IF scope = NoScope THEN ScopeOf(conf) ELSE scope
            /\ clockMark' = IF resetClock THEN now ELSE floor
            /\ lapsed' = IF resetClock THEN 0 ELSE lapsed
       ELSE up' = "down" /\ UNCHANGED <<scope, clockMark, lapsed>>
  /\ UNCHANGED <<adapter, now, grants, revSeq, importedFrom, legacy, conf, op, due,
                 live, stray, promised>>

(* The process dies, wherever it is; a call in flight has done what it did. *)
Crash ==
  /\ up # "down"
  /\ up' = "down" /\ due' = {}
  /\ op' = [u \in Users |-> Idle]
  /\ promised' = [u \in Users |-> [t \in Targets |->
       IF op[u].phase = "migrate" /\ t \in grants[u].targets
         THEN Larger(grants[u].exp, promised[u][t]) ELSE promised[u][t]]]
  /\ UNCHANGED <<adapter, now, db, legacy, conf, live, stray, lapsed>>

(* retireAll, offline: what a decommission has taken back is dropped from the
   rows, in one transaction, and a row left with nothing goes. *)
RetireRows(gone) ==
  /\ up = "down"
  /\ \E u \in Users : gone[u] \cap grants[u].targets # {}
  /\ revSeq < MaxRev
  /\ revSeq' = revSeq + 1
  /\ grants' = [u \in Users |->
       LET left == grants[u].targets \ gone[u]
       IN IF left = grants[u].targets THEN grants[u]
          ELSE IF left = {} THEN NoRow
          ELSE [grants[u] EXCEPT !.targets = left, !.rev = revSeq + 1]]
  /\ UNCHANGED <<adapter, now, clockMark, scope, importedFrom, legacy, up, conf, op,
                 due, live, stray, history>>

Retire(gone) ==
  /\ \A u \in Users : gone[u] \cap live[u] \subseteq stray[u]
  /\ RetireRows(gone)

SetClock(t) ==
  /\ t # now
  /\ now' = t
  /\ UNCHANGED <<adapter, db, legacy, up, conf, op, due, live, stray, history>>
------------------------------------------------------------------------------
(* A ledger of an older version or an empty one, with the access its rows
   name; unbound while a JSON file waits, bound to where its rows lie. *)
Init ==
  /\ adapter \in Adapters
  /\ now \in Time
  /\ legacy \in LegacyFiles \cup {NoLegacy}
  /\ grants \in {f.rows : f \in LegacyFiles} \cup {NoLegacy.rows}
  /\ legacy = NoLegacy \/ NoRows
  /\ revSeq = 0 /\ importedFrom = FALSE
  /\ clockMark \in {0, legacy.mark}
  /\ scope \in {NoScope} \cup (IF adapter.scoped THEN Places ELSE {})
  /\ scope # NoScope =>
       /\ legacy = NoLegacy
       /\ \A u \in Users : \A t \in grants[u].targets : PlaceOf[t] = scope
  /\ up = "down" /\ conf \in adapter.configs
  /\ op = [u \in Users |-> Idle] /\ due = {}
  /\ live = [u \in Users |-> grants[u].targets \cup legacy.rows[u].targets]
  /\ stray = [u \in Users |-> {}]
  /\ lapsed = legacy.mark
  /\ promised = [u \in Users |-> [t \in Targets |->
       Larger(grants[u].exp, legacy.rows[u].exp)]]

(* The code between two awaits of an operation. *)
Resume(u) ==
  \/ Migrated(u) \/ MigrateFails(u)
  \/ Applied(u) \/ ApplyRefused(u) \/ ApplyFailsKept(u) \/ ApplyFailsUndone(u)
  \/ TakenBack(u) \/ TakeBackFails(u) \/ AdmitSettles(u)

Boot == Import \/ Rename \/ \E adopt, reset \in BOOLEAN : Bind(adopt, reset)

Platform(u) ==
  \E t \in Targets, learned \in BOOLEAN : Gives(u, t, learned) \/ Takes(u, t, learned)

Outside ==
  \E t \in Targets : \/ \E u \in Users : GivenOutside(u, t)
                    \/ \E us \in SUBSET Users : TakenOutside(us, t)

Next ==
  \/ \E u \in Users : Grant(u) \/ SweepVisits(u) \/ Admit(u) \/ Asked(u) \/ Resume(u)
  \/ \E u \in Users : Platform(u)
  \/ Outside
  \/ \E u \in Users, t \in Time : OtherProcessGrants(u, t)
  \/ Sweep
  \/ \E c \in adapter.configs : Open(c)
  \/ Boot
  \/ Crash
  \/ \E gone \in [Users -> SUBSET Targets] : Retire(gone)
  \/ \E t \in Time : SetClock(t)

Spec == Init /\ [][Next]_vars

------------------------------------------------------------------------------
(* Every variable has its type, and no revision in the table is ahead of the
   counter while a process works on it (#seedRevSeq). *)
TypeOK ==
  /\ adapter \in Adapters /\ now \in Time
  /\ up # "down" => \A u \in Users : grants[u].rev <= revSeq
  /\ grants \in [Users -> Records] /\ revSeq \in Revs /\ clockMark \in Time
  /\ scope \in Places \cup {NoScope} /\ importedFrom \in BOOLEAN
  /\ legacy \in LegacyFiles \cup {NoLegacy}
  /\ up \in {"down", "import", "rename", "bind", "up"} /\ conf \in Configs
  /\ op \in [Users -> [phase : Phases, rec : Records, prev : Records,
                        todo : SUBSET Targets, sent : BOOLEAN]]
  /\ due \subseteq Users
  /\ live \in [Users -> SUBSET Targets] /\ stray \in [Users -> SUBSET Targets]
  /\ lapsed \in Time /\ promised \in [Users -> [Targets -> Time]]

(* THE INVARIANT IS THAT THE ROW ALWAYS COVERS EVERYTHING THAT COULD BE LIVE
   (grant_ledger.js:652), through renewals that change the targets, failed
   and half-done calls, crashes, sweeps, imports, a repointed adapter and a
   second writer.  Only access the ledger never gave is exempt. *)
AccessIsCovered == \A u \in Users : live[u] \subseteq Named(u) \cup stray[u]

(* A deadline that some decision has called lapsed, and acted on, is never
   accepted again: not after the clock went back, nor after a restart, nor
   after the move from the JSON file (#observeClock). *)
LapsedStaysLapsed ==
  [][\A u \in Users :
       op[u] = Idle /\ op'[u].phase \in {"migrate", "apply", "admit"}
         => op'[u].rec.exp > lapsed]_vars

(* An abandoned renewal leaves nobody a later deadline than their access was
   granted for (grant_ledger.js:682).  A process that dies on the covering
   row, or that cannot put the prior record back, is the accepted exception,
   and "promised" follows it. *)
NotExtended ==
  \A u \in Users :
    op[u] = Idle => \A t \in (live[u] \ stray[u]) \cap grants[u].targets :
                      grants[u].exp <= promised[u][t]

(* Access whose row has lapsed is taken back, unless the process stops or the
   member renews, although any single call may fail. *)
LapsedIsTakenBack ==
  \A u \in Users : \A t \in Targets \ RoleTargets :
    (/\ up = "up" /\ t \in (live[u] \ stray[u]) \cap grants[u].targets
     /\ grants[u].exp <= clockMark)
      ~> (t \notin live[u] \ stray[u] \/ grants[u].exp > clockMark \/ up # "up")
=============================================================================
