---------------------------- MODULE SeasonMembers ----------------------------
(***************************************************************************)
(* The two-tier flow: a key registers once per season and context, which   *)
(* puts a leaf into the members tree of that (season, context), and its    *)
(* holder then proves membership in that tree.  Modelled are SeasonMembers *)
(* (core/season.js), verifyRegistrationCore (core/verifier.js) and the     *)
(* two-tier branches of /v1/register, /v1/challenge and /v1/verify         *)
(* (core/gateway.js), with the clock guard of TimeMarks.                   *)
(*                                                                         *)
(* Handlers interleave at their awaits.  Rolls, materializations, recovery *)
(* and commits run one after the other on the queue _op: `ops` holds the   *)
(* handlers that wait for their turn, its head is the one whose operation  *)
(* runs.  The cache (`current`, `trees`) is written only from that queue.  *)
(*                                                                         *)
(* Abstractions: the registration log is the leaves it holds, in leaf      *)
(* order; a call may throw, and an append that throws may have landed,     *)
(* which is what RegistrationStore.tla shows of the file.  A leaf is the   *)
(* registering key and the commitment, named by the request that brought   *)
(* it.  One (engine, statement) is configured.  Whether the oracle's root  *)
(* a registration is anchored to is eligible is a free choice each time it *)
(* is asked.  The nonce, the gate and the duplicate branches of a verify   *)
(* are the subject of Admission.tla.  A request is sent once; a client     *)
(* that retries is two requests of one key.                                *)
(***************************************************************************)
EXTENDS TimeMarks, MembersTree, SequencesExt

CONSTANTS
  Keys,          \* voting keys
  Contexts,      \* contexts the gateway serves
  Registrations, \* /v1/register requests
  Members,       \* members who ask for a challenge and answer it
  KeyOf,         \* the key behind each registration and each member
  Timers,        \* the rollover timer, or none
  Earlier,       \* leaves registered before the boot, in its season
  RootWindow,    \* config.rootWindow
  StoreFails     \* TRUE when calls of the registration store may throw

ASSUME SeasonAssumption ==
  /\ KeyOf \in [Registrations \cup Members -> Keys]
  /\ Earlier \in Seq(Range(Earlier)) /\ Len(Earlier) <= capacity
  /\ RootWindow \in Nat \ {0}
  /\ StoreFails \in BOOLEAN
  /\ Registrations \cap Members = {}
  /\ Timers \cap (Registrations \cup Members) = {}

VARIABLES
  clock, marks, file,  \* as in TimeGuard
  leaves,    \* the registration log: leaves of each <<season, context>>
  current,   \* the season of the cache
  trees,     \* per context the cached tree and root window, or Unbuilt
  ops,       \* the queue _op
  pc, job,   \* each handler: where it is suspended, what it carries
  told,      \* history: the registrations told they are in the tree
  granted    \* history: the grants of two-tier verifies

timeVars == <<clock, marks, file>>
cache == <<current, trees>>
history == <<told, granted>>
vars == <<timeVars, leaves, cache, ops, pc, job, history>>

Handlers == Registrations \cup Members \cup Timers
NoJob == <<>>
Unbuilt == <<>>

-----------------------------------------------------------------------------
(* The tree cache.                                                         *)

KeysOf(s) == {s[i].key : i \in DOMAIN s}
Window(roots) ==
  SubSeq(roots, IF Len(roots) > RootWindow THEN Len(roots) - RootWindow + 1 ELSE 1, Len(roots))

\* RootStore.update() with one root: the root of the same height is replaced.  A
\* new root is of more leaves than the others, so that sorting puts it last.
SameHeight(roots, root) == {n \in DOMAIN roots : roots[n].height = root.height}
Updated(roots, root) ==
  LET kept == IF SameHeight(roots, root) = {} THEN roots
              ELSE RemoveAt(roots, CHOOSE n \in SameHeight(roots, root) : TRUE)
  IN Window(Append(kept, root))

\* _materializeFrom(): a new tree and a new root window.
\* The root of a tree, at the height of its size.
Rooted(t) == [height |-> size(t), root |-> t.root]

Built(t) == [tree |-> t, roots |-> <<Rooted(t)>>]

\* _rebuildTreePreservingRoots()
RebuiltTree(c, t) ==
  IF trees[c] = Unbuilt THEN Built(t)
                        ELSE [tree |-> t, roots |-> Updated(trees[c].roots, Rooted(t))]

\* What the read views show of a context.
treeOf(c) == IF trees[c] = Unbuilt THEN EmptyTree ELSE trees[c].tree
rootStore(c) == IF trees[c] = Unbuilt THEN <<Rooted(EmptyTree)>> ELSE trees[c].roots
sizeOf(c) == size(treeOf(c))

LogOf(c) == leaves[<<current, c>>]

\* _reconcileIfBehind()
Reconciled(c) ==
  IF Len(LogOf(c)) > sizeOf(c)
  THEN [trees EXCEPT ![c] = RebuiltTree(c, fromCommitments(LogOf(c)))] ELSE trees

\* commit(): _materialize() and then _reconcileIfBehind().
Materialized(c) ==
  IF trees[c] = Unbuilt THEN [trees EXCEPT ![c] = Built(fromCommitments(LogOf(c)))] ELSE Reconciled(c)

RolledKeepingTrees(s) == trees   \* slip: the trees of the last season stay

\* _roll(): refuses to go back, drops every tree when the season changes.
RollRefused(s) == s < current
RolledTrees(s) == IF s = current THEN trees ELSE [c \in Contexts |-> Unbuilt]
-----------------------------------------------------------------------------
(* The clock guard.                                                        *)

\* timeGuard.epoch(); timeGuard.season()
ObserveBoth ==
  /\ marks' = MarksAfter(marks, clock, "none")
  /\ file' = FileAfter(marks, file, clock, "none")

\* timeGuard.season() alone
ObserveSeason ==
  /\ marks' = ObservedSeason(marks, clock)
  /\ file' = Persisted(marks, ObservedSeason(marks, clock), file)

Now == seasonNow(clock)
-----------------------------------------------------------------------------
(* Moving a handler.                                                       *)

Goto(h, p) == pc' = [pc EXCEPT ![h] = p]

\* The handler answers its request, or the timer waits for its next minute.
Rest(h) == IF h \in Timers THEN "idle" ELSE "done"
Done(h) == Goto(h, Rest(h)) /\ job' = [job EXCEPT ![h] = NoJob]

\* Call an operation of SeasonMembers: join the queue _op.
Enqueue(h, p) == Goto(h, p) /\ ops' = Append(ops, h)

Running(h, p) == ops # <<>> /\ Head(ops) = h /\ pc[h] = p

\* The running operation settles, by a value or by a throw.
Settle == ops' = Tail(ops)

Bucket(r) == <<job[r].season, job[r].ctx>>
Has(r) == KeyOf[r] \in KeysOf(leaves[Bucket(r)])
Tell(r, kind, index) ==
  told' = told \cup {[kind |-> kind, request |-> r, bucket |-> Bucket(r), index |-> index]}
-----------------------------------------------------------------------------
(* /v1/register                                                            *)

\* Dispatch: both periods are observed, a regression is refused, then the body
\* is awaited.
Dispatch(h, p, j) ==
  /\ ObserveBoth
  /\ IF marks'.regressed THEN Done(h) ELSE Goto(h, p) /\ job' = [job EXCEPT ![h] = j]
  /\ UNCHANGED <<clock, leaves, cache, ops, history>>

Register(r, c) ==
  /\ pc[r] = "idle"
  /\ Dispatch(r, "registerBody", [ctx |-> c, season |-> NoMark])

\* The body is in: the season is read again and ensure() is queued.  Or the body
\* is refused.
RegisterBody(r) ==
  /\ pc[r] = "registerBody"
  /\ \/ /\ ObserveSeason
        /\ job' = [job EXCEPT ![r].season = Now]
        /\ Enqueue(r, "ensure")
     \/ /\ Done(r)
        /\ UNCHANGED <<marks, file, ops>>
  /\ UNCHANGED <<clock, leaves, cache, history>>

\* The timer rolls the cache at a season boundary no request has noticed.
TimerFires(t) ==
  /\ pc[t] = "idle"
  /\ ObserveSeason
  /\ job' = [job EXCEPT ![t] = [season |-> Now]]
  /\ Enqueue(t, "ensure")
  /\ UNCHANGED <<clock, leaves, cache, history>>

EnsureAtOnce(h) ==   \* slip: a roll does not wait for the commit under way
  /\ pc[h] = "ensure"
  /\ ops' = SelectSeq(ops, LAMBDA o : o # h)
  /\ IF RollRefused(job[h].season)
     THEN Done(h) /\ UNCHANGED cache
     ELSE /\ current' = job[h].season
          /\ trees' = RolledTrees(job[h].season)
          /\ IF h \in Timers THEN Done(h) ELSE Goto(h, "has") /\ UNCHANGED job
  /\ UNCHANGED <<timeVars, leaves, history>>

\* ensure(): a refused roll rejects and the caller fails.
Ensure(h) ==
  /\ Running(h, "ensure")
  /\ Settle
  /\ IF RollRefused(job[h].season)
     THEN Done(h) /\ UNCHANGED cache
     ELSE /\ current' = job[h].season
          /\ trees' = RolledTrees(job[h].season)
          /\ IF h \in Timers THEN Done(h) ELSE Goto(h, "has") /\ UNCHANGED job
  /\ UNCHANGED <<timeVars, leaves, history>>

\* A proof for another season or context is refused.  Then the duplicate read,
\* before the anchor rule, so that a stranded member recovers however old the
\* anchor is.
ReadHas(r) ==
  /\ pc[r] = "has"
  /\ \/ Has(r) /\ Enqueue(r, "recover") /\ UNCHANGED job
     \/ ~Has(r) /\ Goto(r, "proof") /\ UNCHANGED <<ops, job>>
     \/ Done(r) /\ UNCHANGED ops
  /\ UNCHANGED <<timeVars, leaves, cache, history>>

\* The proof check returns: invalid, valid with the anchor still eligible, or
\* valid with the anchor gone.
CheckProof(r) ==
  /\ r \in Registrations /\ pc[r] = "proof"
  /\ \/ Done(r) /\ UNCHANGED ops
     \/ Enqueue(r, "commit") /\ UNCHANGED job
     \/ Goto(r, "hasAgain") /\ UNCHANGED <<ops, job>>
  /\ UNCHANGED <<timeVars, leaves, cache, history>>

\* The anchor went stale during the proof: only a key that has become durable
\* meanwhile is not refused.
ReadHasAgain(r) ==
  /\ pc[r] = "hasAgain"
  /\ IF Has(r) THEN Enqueue(r, "recover") /\ UNCHANGED job
               ELSE Done(r) /\ UNCHANGED ops
  /\ UNCHANGED <<timeVars, leaves, cache, history>>

RecoverNothing(r) ==   \* slip: a replay is answered without a look at the cache
  /\ Running(r, "recover")
  /\ Tell(r, "already-registered", 0)
  /\ Settle /\ Done(r)
  /\ UNCHANGED <<timeVars, leaves, cache, granted>>

\* recoverMember(): never rolls, and rebuilds only a cache that is behind.
Recover(r) ==
  /\ Running(r, "recover")
  /\ trees' = IF current = job[r].season THEN Reconciled(job[r].ctx) ELSE trees
  /\ Tell(r, "already-registered", 0)
  /\ Settle /\ Done(r)
  /\ UNCHANGED <<timeVars, leaves, current, granted>>

FullByStaleCache(c) == full(treeOf(c))   \* slip: asked before the reconcile

\* MembersTree.full() of the reconciled tree.
Full(c) == full(Materialized(c)[c].tree)

\* commit() up to its capacity check: the cache is brought up to the log, and a
\* key the log holds needs no write.
CommitChecks(r) ==
  /\ Running(r, "commit")
  /\ \/ /\ current # job[r].season
        /\ Settle /\ Done(r)
        /\ UNCHANGED <<trees, told>>
     \/ /\ current = job[r].season
        /\ trees' = Materialized(job[r].ctx)
        /\ \/ /\ Has(r)
              /\ Tell(r, "already-registered", 0)
              /\ Settle /\ Done(r)
           \/ /\ ~Has(r) /\ Full(job[r].ctx)
              /\ Settle /\ Done(r)
              /\ UNCHANGED told
           \/ /\ ~Has(r) /\ ~Full(job[r].ctx)
              /\ Goto(r, "write")
              /\ UNCHANGED <<ops, job, told>>
  /\ UNCHANGED <<timeVars, leaves, current, granted>>

\* The clock and the anchor are read again right before the write starts.
CommitWrite(r) ==
  /\ Running(r, "write")
  /\ ObserveBoth
  /\ \/ /\ Now = job[r].season /\ ~marks'.regressed
        /\ Goto(r, "append")
        /\ UNCHANGED <<ops, job>>
     \/ Settle /\ Done(r)
  /\ UNCHANGED <<clock, leaves, cache, history>>

LeafOf(r) == [key |-> KeyOf[r], com |-> r]
Logged(r) == [leaves EXCEPT ![Bucket(r)] = Append(@, LeafOf(r))]

\* The index append() gives the record.
IndexOf(r) == Len(leaves[Bucket(r)])

\* The append returns its index; the tree takes the leaf at the same position
\* or the commit fails closed.  The log refuses a key it holds.
RegistrationAppended(r) ==
  LET c == job[r].ctx
      tree == append(treeOf(c), LeafOf(r))
  IN
  /\ Running(r, "append")
  /\ ~Has(r)
  /\ leaves' = Logged(r)
  /\ IF Len(leaves[Bucket(r)]) = sizeOf(c)
     THEN /\ trees' = [trees EXCEPT ![c] =
                         [tree |-> tree, roots |-> Updated(rootStore(c), Rooted(tree))]]
          /\ Tell(r, "ok", IndexOf(r))
     ELSE UNCHANGED <<trees, told>>
  /\ Settle /\ Done(r)
  /\ UNCHANGED <<timeVars, current, granted>>

AppendThrowsWedging(r) ==   \* slip: a throw breaks the chain of operations
  /\ StoreFails /\ Running(r, "append")
  /\ leaves' \in {leaves, Logged(r)}
  /\ Done(r)
  /\ UNCHANGED <<timeVars, cache, ops, history>>

\* The append throws; its record may be in the log all the same.
AppendThrows(r) ==
  /\ StoreFails /\ Running(r, "append")
  /\ leaves' \in {leaves, Logged(r)}
  /\ Settle /\ Done(r)
  /\ UNCHANGED <<timeVars, cache, history>>

\* A read of the store throws, outside the queue or inside it.
ReadThrows(r) ==
  /\ StoreFails
  /\ \/ pc[r] \in {"has", "hasAgain"} /\ UNCHANGED <<ops, trees>>
     \/ Running(r, "recover") /\ current = job[r].season /\ Settle /\ UNCHANGED trees
     \/ /\ Running(r, "commit") /\ current = job[r].season
        /\ Settle
        /\ trees' \in {trees, Materialized(job[r].ctx)}
  /\ Done(r)
  /\ UNCHANGED <<timeVars, leaves, current, history>>
-----------------------------------------------------------------------------
(* /v1/members, /v1/challenge and /v1/verify of a member.                  *)

AskChallenge(v, c) ==
  /\ pc[v] = "idle"
  /\ Dispatch(v, "challengeBody",
              [ctx |-> c, season |-> NoMark, epoch |-> NoMark, roll |-> NoMark,
               root |-> <<>>, window |-> NoMark])

ChallengeBody(v) ==
  /\ pc[v] = "challengeBody"
  /\ ObserveSeason
  /\ job' = [job EXCEPT ![v].season = Now, ![v].roll = Now]
  /\ Enqueue(v, "challengeEnsure")
  /\ UNCHANGED <<clock, leaves, cache, history>>

\* A roll that also builds the tree of a context which has leaves.
Opened(s, c) ==
  LET rolled == RolledTrees(s)
  IN IF rolled[c] = Unbuilt /\ leaves[<<s, c>>] # <<>>
     THEN [rolled EXCEPT ![c] = Built(fromCommitments(leaves[<<s, c>>]))] ELSE rolled

\* ensureContext(): the roll may be refused, the read of the log may throw.
EnsureContext(v, from, to) ==
  LET s == job[v].roll
      c == job[v].ctx
  IN
  /\ Running(v, from)
  /\ Settle
  /\ \/ /\ RollRefused(s)
        /\ UNCHANGED cache
        /\ Done(v)
     \/ /\ ~RollRefused(s)
        /\ current' = s
        /\ trees' = Opened(s, c)
        /\ Goto(v, to)
        /\ UNCHANGED job
     \/ /\ StoreFails /\ ~RollRefused(s) /\ RolledTrees(s)[c] = Unbuilt
        /\ current' = s
        /\ trees' = RolledTrees(s)
        /\ Done(v)
  /\ UNCHANGED <<timeVars, leaves, history>>

\* /v1/members rolls the cache and builds the tree like a challenge does.
AskMembers(v, c) ==
  /\ pc[v] = "idle"
  /\ ObserveBoth
  /\ IF marks'.regressed
     THEN Done(v) /\ UNCHANGED ops
     ELSE job' = [job EXCEPT ![v] = [ctx |-> c, roll |-> Now]] /\ Enqueue(v, "membersEnsure")
  /\ UNCHANGED <<clock, leaves, cache, history>>

\* The views root(), size() and commitments() are read in one turn, which may be
\* after a roll or a commit behind the one awaited.
ReadMembers(v) ==
  /\ pc[v] = "membersRead"
  /\ Done(v)
  /\ UNCHANGED <<timeVars, leaves, cache, ops, history>>

\* The challenge is minted for the epoch of now and the season read before.
Mint(v) ==
  /\ pc[v] = "mint"
  /\ marks' = ObservedEpoch(marks, clock)
  /\ file' = EpochFileAfter(marks, file, clock, "none")
  /\ job' = [job EXCEPT ![v].epoch = epochNow(clock)]
  /\ Goto(v, "challenged")
  /\ UNCHANGED <<clock, leaves, cache, ops, history>>

AskVerify(v) ==
  /\ pc[v] = "challenged"
  /\ Dispatch(v, "verifyBody", job[v])

EpochOver(v) == clock >= (job[v].epoch + 1) * EpochSeconds

VerifyBody(v) ==
  /\ pc[v] = "verifyBody"
  /\ IF EpochOver(v)
     THEN /\ Done(v)
          /\ UNCHANGED <<marks, file, ops>>
     ELSE /\ ObserveSeason
          /\ job' = [job EXCEPT ![v].roll = Now]
          /\ Enqueue(v, "verifyEnsure")
  /\ UNCHANGED <<clock, leaves, cache, history>>

\* The roots of the window of a tree that has a leaf of the member's key.
Provable(v) ==
  LET c == job[v].ctx
  IN {rootStore(c)[n].root : n \in
       {m \in DOMAIN rootStore(c) : \E k \in 1..rootStore(c)[m].height :
                                      treeOf(c).commitments[k].key = KeyOf[v]}}

\* The verify takes hold of the root window, and the proof names one of its
\* roots that has a leaf of the member's key.  A process makes one root window
\* per context and season, so the season of the cache identifies the object.
TakeWindow(v) ==
  /\ pc[v] = "window"
  /\ \/ /\ \E root \in Provable(v) :
            job' = [job EXCEPT ![v].root = root, ![v].window = current]
        /\ Goto(v, "proof")
     \/ Done(v)
  /\ UNCHANGED <<timeVars, leaves, cache, ops, history>>

PeriodHoldsByWindow(v) ==   \* slip: the window is asked, not the clock's season
  ~marks'.regressed /\ ~EpochOver(v) /\ current = job[v].window

\* stillCurrent() up to its root check.
PeriodHolds(v) ==
  /\ ~marks'.regressed
  /\ ~EpochOver(v)
  /\ Now = job[v].season
  /\ current = job[v].window

RootHolds(v) == \E n \in DOMAIN rootStore(job[v].ctx) : rootStore(job[v].ctx)[n].root = job[v].root

\* The proof is valid and stillCurrent() decides whether the nullifier is spent,
\* or it is invalid.
FinishProof(v) ==
  /\ v \in Members /\ pc[v] = "proof"
  /\ \/ /\ ObserveBoth
        /\ IF PeriodHolds(v) /\ RootHolds(v)
           THEN Goto(v, "spend") /\ UNCHANGED job ELSE Done(v)
     \/ Done(v) /\ UNCHANGED <<marks, file>>
  /\ UNCHANGED <<clock, leaves, cache, ops, history>>

\* The spend is recorded: the period is asked again, a root that has left the
\* window meanwhile no longer matters.
FinishSpend(v) ==
  /\ pc[v] = "spend"
  /\ ObserveBoth
  /\ granted' = IF PeriodHolds(v)
                THEN granted \cup {[key |-> KeyOf[v], ctx |-> job[v].ctx, season |-> Now]}
                ELSE granted
  /\ Done(v)
  /\ UNCHANGED <<clock, leaves, cache, ops, told>>
-----------------------------------------------------------------------------
(* The environment.                                                        *)

SetClock ==
  /\ clock' \in Clock \ {clock}
  /\ UNCHANGED <<marks, file, leaves, cache, ops, pc, job, history>>

\* A restart loses the cache and every handler; a write under way has landed
\* or has not.  The boot observes both periods and rolls to the season read.
Restart ==
  /\ leaves' \in {leaves} \cup {Logged(r) : r \in {q \in Registrations : pc[q] = "append"}}
  /\ marks' = MarksAfter(Loaded(file), clock, "none")
  /\ file' = FileAfter(Loaded(file), file, clock, "none")
  /\ current' = Now
  /\ trees' = [c \in Contexts |-> Unbuilt]
  /\ ops' = <<>>
  /\ pc' = [h \in Handlers |-> IF pc[h] = "idle" THEN "idle" ELSE Rest(h)]
  /\ job' = [h \in Handlers |-> NoJob]
  /\ UNCHANGED <<clock, history>>

Init ==
  /\ clock \in Clock
  /\ marks = MarksAfter(NoMarks, clock, "none")
  /\ file = FileAfter(NoMarks, NoMarks, clock, "none")
  /\ leaves = [b \in Seasons \X Contexts |-> IF b[1] = Now THEN Earlier ELSE <<>>]
  /\ current = Now
  /\ trees = [c \in Contexts |-> Unbuilt]
  /\ ops = <<>>
  /\ pc = [h \in Handlers |-> "idle"]
  /\ job = [h \in Handlers |-> NoJob]
  /\ told = {} /\ granted = {}

RegisterStep(r) ==
  \/ RegisterBody(r) \/ Ensure(r) \/ ReadHas(r) \/ CheckProof(r) \/ ReadHasAgain(r)
  \/ Recover(r) \/ CommitChecks(r) \/ CommitWrite(r) \/ RegistrationAppended(r) \/ AppendThrows(r)
  \/ ReadThrows(r)

MemberStep(v) ==
  \/ EnsureContext(v, "membersEnsure", "membersRead") \/ ReadMembers(v)
  \/ ChallengeBody(v) \/ EnsureContext(v, "challengeEnsure", "mint") \/ Mint(v)
  \/ VerifyBody(v) \/ EnsureContext(v, "verifyEnsure", "window") \/ TakeWindow(v)
  \/ FinishProof(v) \/ FinishSpend(v)

Next ==
  \/ \E r \in Registrations, c \in Contexts : Register(r, c)
  \/ \E r \in Registrations : RegisterStep(r)
  \/ \E v \in Members, c \in Contexts : AskChallenge(v, c) \/ AskMembers(v, c)
  \/ \E v \in Members : AskVerify(v) \/ MemberStep(v)
  \/ \E t \in Timers : TimerFires(t) \/ Ensure(t)
  \/ SetClock
  \/ Restart

Spec == Init /\ [][Next]_vars

\* Bodies arrive or their requests fail, store calls and proof checks return.
FairSpec ==
  /\ Spec
  /\ \A r \in Registrations : WF_vars(RegisterStep(r))
  /\ \A v \in Members : WF_vars(MemberStep(v))
  /\ \A t \in Timers : WF_vars(Ensure(t))
-----------------------------------------------------------------------------
(* Properties.                                                             *)

\* The cached tree of a context is what the log of the current season holds, up
\* to leaves it has yet to catch up with, and every root it still accepts is
\* one this log has had: a root of a past season is gone.
CacheFollowsLog ==
  \A c \in Contexts : trees[c] # Unbuilt =>
    /\ IsPrefix(trees[c].tree.commitments, LogOf(c))
    /\ \A n \in DOMAIN trees[c].roots :
         LET entry == trees[c].roots[n]
         IN /\ entry.height <= sizeOf(c)
            /\ entry.root = rootFromFullBuild(SubSeq(LogOf(c), 1, entry.height))

\* A registration answered ok keeps, through strands, rebuilds, rollovers and
\* restarts, the leaf index its member was told, in the log and in the tree
\* that is served.
OkKeepsItsLeaf(a) ==
  /\ a.index < Len(leaves[a.bucket])
  /\ leaves[a.bucket][a.index + 1] = [key |-> KeyOf[a.request], com |-> a.request]
  /\ LET c == a.bucket[2]
     IN a.bucket[1] = current /\ trees[c] # Unbuilt => a.index < sizeOf(c)

\* Whoever is told already-registered finds a leaf of their key in the tree
\* that is served, even when the first attempt was stranded between the log and
\* the tree.
AlreadyIsServed(a) ==
  LET c == a.bucket[2]
  IN a.bucket[1] = current =>
       KeyOf[a.request] \in KeysOf(IF trees[c] = Unbuilt THEN LogOf(c)
                                                         ELSE treeOf(c).commitments)

\* What a registration is told stays true of the log and of the tree served.
AnswersHold ==
  \A a \in told : IF a.kind = "ok" THEN OkKeepsItsLeaf(a) ELSE AlreadyIsServed(a)

\* Whatever mixture of rebuilds and appends made a cached tree, its root is the
\* one a prover computes from the leaves /v1/members lists, and the path of
\* every leaf, that of a full tree too, leads to it.
MembersCanProve ==
  \A c \in Contexts : trees[c] # Unbuilt => EveryPathLeadsToRoot(trees[c].tree)

\* No log outgrows the tree the circuits are compiled for, although the cached
\* tree the capacity is read from may lag behind it.
CapacityHolds == \A b \in DOMAIN leaves : Len(leaves[b]) <= capacity

\* A two-tier grant goes to a key registered in the season the guarded clock
\* was in at the grant, whatever rolled over while the proof was checked.
GrantNeedsRegistration ==
  \A g \in granted : g.key \in KeysOf(leaves[<<g.season, g.ctx>>])

\* The log only grows in the season of the cache: a rollover never runs between
\* the season check of a commit and its write.
LandsInItsSeason ==
  [][\A b \in DOMAIN leaves : leaves'[b] # leaves[b] => b[1] = current]_vars

\* Every request is answered, also behind operations that throw.
RequestsAreAnswered ==
  \A h \in Registrations \cup Members :
    pc[h] \notin {"idle", "challenged"} ~> pc[h] \in {"done", "challenged"}
=============================================================================
