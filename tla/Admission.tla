------------------------------ MODULE Admission ------------------------------
(***************************************************************************)
(* The single-tier admission path of the gateway: /v1/challenge and        *)
(* /v1/verify of core/gateway.js, verifyMembership of core/verifier.js, and *)
(* the stores they share (ChallengeStore, Semaphore, the root window and   *)
(* the claim store), under a wall clock that may be set back, store calls  *)
(* that fail, proof checks of any duration and restarts of the process.    *)
(*                                                                         *)
(* A request is a process whose pc is the await it is suspended at: one    *)
(* action runs from one await to the next, which is what the single event  *)
(* loop does.  An answered request is "idle" again.                        *)
(*                                                                         *)
(* Abstractions: signalHash is the pair it hashes; a proof is the signals  *)
(* it asserts and whether the proof system accepts it; a tag is what its   *)
(* nullifier stands for; a root is the height of its snapshot; rate limits *)
(* and authentication are a choice to refuse.  How the leaf bound picks    *)
(* the older heights it evicts is left open (RootWindows.tla models it).   *)
(***************************************************************************)
EXTENDS TimeMarks, FiniteSets, Sequences

CONSTANTS
  Requests,      \* request handlers that can be in flight together
  Accounts, Keys, Contexts,
  Nonces,        \* bound: the challenges ever minted (randomUUID never repeats)
  None,
  Heights,       \* the snapshots the oracle publishes, by height
  RootWindow,    \* config.rootWindow, in heights
  OracleMaxAge,  \* config.oracleMaxAgeSeconds, 0 when disabled
  FutureSkew,    \* config.oracleFutureSkewSeconds
  ChallengeTtl,  \* config.challengeTtlSeconds
  MaxPending,    \* config.maxPendingChallenges
  MaxVerifies, MaxQueue,   \* config.verifyConcurrency, config.verifyQueueMax
  RetainEpochs,  \* config.nullifierRetainEpochs
  Store,         \* config.store
  ReadsFail, AddsFail      \* whether store reads, and the spend, may throw

ASSUME AdmissionAssumption ==
  /\ None \notin Accounts
  /\ Heights \subseteq Nat
  /\ RootWindow \in Nat \ {0} /\ OracleMaxAge \in Nat
  /\ FutureSkew \in Nat /\ ChallengeTtl \in Nat
  /\ MaxPending \in Nat /\ MaxVerifies \in Nat \ {0} /\ MaxQueue \in Nat
  /\ RetainEpochs \in Nat \ {0}
  /\ Store \in {"memory", "sqlite", "platform"}
  /\ ReadsFail \in BOOLEAN /\ AddsFail \in BOOLEAN

(* gateway.js: the marks have a path whenever the store is durable. *)
ASSUME MarksFollowStore == DurableMarks <=> Store # "memory"

Tags == [epoch : Epochs, ctx : Contexts, key : Keys]

Challenges == [account : Accounts, epoch : Epochs, ctx : Contexts,
               root : Heights, expires : Int]

Proofs == [key : Keys, root : Heights, epoch : Epochs, ctx : Contexts,
           nonce : Nonces, account : Accounts, valid : BOOLEAN]

VARIABLES
  clock, marks, file,  \* as in TimeGuard
  window,    \* window[h]: ts of the record retained at height h, or None
  pending,   \* ChallengeStore.pending: a challenge per nonce, or None
  held,      \* ChallengeStore.held: verifies in flight per root
  active, queue,       \* Semaphore
  claims,    \* the claim store: the account that spent each tag, or None
  unsettled, \* spends that threw after they were broadcast (Platform)
  pc, job,   \* each request: where it is suspended, the verify it carries
  minted,    \* history: nonces handed out
  claimed,   \* history: nonces whose verify recorded, or may record, a claim
  granted    \* history: the grants returned to an adapter

timeVars == <<clock, marks, file>>
gateVars == <<active, queue>>
storeVars == <<claims, unsettled, claimed>>

vars == <<timeVars, window, pending, held, gateVars, storeVars, pc, job,
          minted, granted>>

(* The awaits of a verify, from the first store read to the last. *)
VerifyPCs == {"has", "owner", "gate", "queued", "proving", "proved", "spend",
              "spentNew", "spentDup", "lookup", "looked"}

PCs == {"idle", "challengeBody", "verifyBody"} \cup VerifyPCs

(* A verify: its nonce and challenge, and of its proof what is read later. *)
Jobs == [nonce : Nonces, challenge : Challenges, key : Keys, root : Heights,
         valid : BOOLEAN, regrant : BOOLEAN]

InFlight(r) == pc[r] \in VerifyPCs

Account(r) == job[r].challenge.account

Tag(r) == [epoch |-> job[r].challenge.epoch, ctx |-> job[r].challenge.ctx,
           key |-> job[r].key]

------------------------------------------------------------------------------
(* The root window (RootWindows in core/stores.js). *)

Retained(w) == {h \in Heights : w[h] # None}

isRecent(h) == window[h] # None

(* RootWindows.current: h is the newest height retained. *)
IsCurrent(h, w) == h \in Retained(w) /\ \A k \in Retained(w) : k <= h

(* enforceDmlFreshness: drop every record older than the bound. *)
Fresh(w) ==
  IF OracleMaxAge = 0 THEN w
  ELSE [h \in Heights |-> IF w[h] # None /\ w[h] < clock - OracleMaxAge
                            THEN None ELSE w[h]]

(* The windows that adopting height h may leave: at most RootWindow heights,
   the newest of those retained, less what the leaf bound evicts. *)
Adopted(w, h, ts) ==
  { [k \in Heights |-> CASE k = h -> ts
                         [] k \in kept -> w[k]
                         [] OTHER -> None] :
      kept \in {S \in SUBSET (Retained(w) \ {h}) :
                  \A k \in S : Cardinality({j \in Retained(w) \ {h} : j >= k})
                                 < RootWindow} }

NoWindow == [h \in Heights |-> None]

(* validateSnapshot: the timestamps an adopted snapshot may carry. *)
SnapshotTimes ==
  {ts \in Clock : OracleMaxAge = 0 \/ (/\ clock - ts <= OracleMaxAge
                                      /\ ts - clock <= FutureSkew)}

(* A refresh: the snapshot is refused (bad signature, root mismatch, lower
   height, or the load failed), or adopted with the oracle's timestamp. *)
Refreshed(w) ==
  {Fresh(w)} \cup
  UNION { {Fresh(v) : v \in Adopted(w, h, ts)} :
            h \in {k \in Heights : \A j \in Retained(w) : j <= k},
            ts \in SnapshotTimes }

------------------------------------------------------------------------------
(* The challenge store. *)

Live(c) == c # None /\ clock <= c.expires

(* sweep(): the pending challenges that have not expired. *)
Swept(p) == [n \in Nonces |-> IF Live(p[n]) THEN p[n] ELSE None]

Size(p) == Cardinality({n \in Nonces : p[n] # None})

(* put() and restore() sweep only when the store is full. *)
Room(p) == IF Size(p) >= MaxPending THEN Swept(p) ELSE p

Insert(p, n, c) ==
  IF Size(Room(p)) >= MaxPending THEN Room(p) ELSE [Room(p) EXCEPT ![n] = c]

(* take(): consumes the challenge, expired or not. *)
Take(p, n) == [p EXCEPT ![n] = None]

(* restore(): keeps the original expiry, refuses an expired challenge. *)
Restored(p, n, c) == IF clock > c.expires THEN p ELSE Insert(p, n, c)

------------------------------------------------------------------------------
Init ==
  /\ clock \in Clock /\ marks = NoMarks /\ file = NoMarks
  /\ window = NoWindow
  /\ pending = [n \in Nonces |-> None]
  /\ held = [h \in Heights |-> 0]
  /\ active = 0 /\ queue = <<>>
  /\ claims = [t \in Tags |-> None] /\ unsettled = {} /\ claimed = {}
  /\ pc = [r \in Requests |-> "idle"] /\ job = [r \in Requests |-> None]
  /\ minted = {} /\ granted = {}

(* The wall clock advances, or is set back. *)
SetClock ==
  /\ clock' \in Clock \ {clock}
  /\ UNCHANGED <<marks, file, window, pending, held, gateVars, storeVars, pc,
                 job, minted, granted>>

(* timeGuard.epoch(); timeGuard.season(), where write f fails. *)
Observe(f) ==
  /\ marks' = MarksAfter(marks, clock, f)
  /\ file' = FileAfter(marks, file, clock, f)
  /\ UNCHANGED clock

(* The request leaves its handler; the finally releases the root it held. *)
Answer(r) ==
  /\ pc' = [pc EXCEPT ![r] = "idle"]
  /\ job' = [job EXCEPT ![r] = None]
  /\ held' = IF InFlight(r)
               THEN [held EXCEPT ![job[r].challenge.root] = @ - 1] ELSE held

Goto(r, next) ==
  /\ pc' = [pc EXCEPT ![r] = next]
  /\ UNCHANGED <<job, held>>

------------------------------------------------------------------------------
(* A /v1/challenge or /v1/verify request arrives: drop aged roots, observe
   both periods, refuse when the clock regressed, when the caller is not
   authorized or over its limit, else await the body.  (/v1/health makes
   the same observation and goes no further.) *)
Arrive(r, body) ==
  /\ pc[r] = "idle"
  /\ body = "challengeBody" =>
       Cardinality({q \in Requests : pc[q] = body})
         < Cardinality(Nonces \ minted)
  /\ window' = Fresh(window)
  /\ \E f \in Faults, admitted \in BOOLEAN :
       /\ Observe(f)
       /\ IF Throws(marks, clock, f) \/ marks'.regressed \/ ~admitted
            THEN UNCHANGED pc
            ELSE pc' = [pc EXCEPT ![r] = body]
  /\ UNCHANGED <<pending, held, gateVars, storeVars, job, minted, granted>>

(* The body is too large, is not JSON, misses a field, or a limit refuses. *)
RefuseBody(r) ==
  /\ pc[r] \in {"challengeBody", "verifyBody"}
  /\ Answer(r)
  /\ UNCHANGED <<timeVars, window, pending, gateVars, storeVars, minted,
                 granted>>

(* /v1/challenge after its body: mint a nonce for the account against the
   current root, in the epoch the clock shows, if the store has room. *)
MintChallenge(r) ==
  /\ pc[r] = "challengeBody"
  /\ Answer(r)
  /\ IF Retained(window) = {}
       THEN UNCHANGED <<timeVars, pending, minted>>
       ELSE \E n \in Nonces \ minted, a \in Accounts, x \in Contexts,
                h \in Heights, f \in Faults :
              LET c == [account |-> a, epoch |-> epochNow(clock), ctx |-> x,
                        root |-> h, expires |-> clock + ChallengeTtl]
              IN /\ IsCurrent(h, window)
                 /\ marks' = ObservedEpoch(marks, clock)
                 /\ file' = EpochFileAfter(marks, file, clock, f)
                 /\ UNCHANGED clock
                 /\ IF EpochThrows(marks, clock, f)
                      THEN UNCHANGED <<pending, minted>>
                      ELSE /\ pending' = Insert(pending, n, c)
                           /\ minted' = minted \cup {n}
  /\ UNCHANGED <<window, gateVars, storeVars, granted>>

(* The policy checks of verifyMembership that precede its first await. *)
PolicyOk(n, c, p) ==
  /\ isRecent(p.root)
  /\ p.epoch = c.epoch
  /\ p.ctx = c.ctx
  /\ p.nonce = n /\ p.account = c.account

(* /v1/verify after its body: take the challenge, check the account, the
   epoch and the signals, and hold the challenge's root. *)
TakeChallenge(r) ==
  /\ pc[r] = "verifyBody"
  /\ \E n \in Nonces, a \in Accounts, p \in Proofs :
       LET c == pending[n] IN
       /\ Live(c)
       /\ a = c.account
       /\ clock < (c.epoch + 1) * EpochSeconds
       /\ PolicyOk(n, c, p)
       /\ pending' = Take(pending, n)
       /\ pc' = [pc EXCEPT ![r] = "has"]
       /\ job' = [job EXCEPT ![r] =
                    [nonce |-> n, challenge |-> c, key |-> p.key,
                     root |-> p.root, valid |-> p.valid, regrant |-> FALSE]]
       /\ held' = [held EXCEPT ![c.root] = @ + 1]
  /\ UNCHANGED <<timeVars, window, gateVars, storeVars, minted, granted>>

(* The same handler when one of those checks fails, as it does for any nonce
   submitted with another account: the challenge is consumed all the same. *)
RefuseChallenge(r) ==
  /\ pc[r] = "verifyBody"
  /\ \E n \in Nonces : pending' = Take(pending, n)
  /\ Answer(r)
  /\ UNCHANGED <<timeVars, window, gateVars, storeVars, minted, granted>>

------------------------------------------------------------------------------
(* verifyMembership, await by await. *)

(* Slip: the shed-load return skips the release of the root. *)
RestoreKeepingHold(r) ==
  /\ pending' = Restored(pending, job[r].nonce, job[r].challenge)
  /\ pc' = [pc EXCEPT ![r] = "idle"]
  /\ job' = [job EXCEPT ![r] = None]
  /\ UNCHANGED held

(* The gateway's answer to overloaded and beforeSpend errors. *)
RestoreChallenge(r) ==
  /\ pending' = Restored(pending, job[r].nonce, job[r].challenge)
  /\ Answer(r)

(* get() returns the claiming account, which Platform does not persist. *)
SameAccount(r) == Store # "platform" /\ claims[Tag(r)] = Account(r)

(* A read of the claim store that may throw: not in memory, and Platform's
   get() reads nothing. *)
HasThrows == ReadsFail /\ Store # "memory"
GetThrows == ReadsFail /\ Store = "sqlite"

(* await nullifiers.has() *)
ReadSpent(r) ==
  /\ pc[r] = "has"
  /\ \/ /\ Goto(r, IF claims[Tag(r)] = None THEN "gate" ELSE "owner")
        /\ UNCHANGED pending
     \/ HasThrows /\ RestoreChallenge(r)
  /\ UNCHANGED <<timeVars, window, gateVars, storeVars, minted, granted>>

(* await nullifiers.get() of a spent tag, before the proof *)
ReadOwner(r) ==
  /\ pc[r] = "owner"
  /\ \/ /\ SameAccount(r)
        /\ pc' = [pc EXCEPT ![r] = "gate"]
        /\ job' = [job EXCEPT ![r].regrant = TRUE]
        /\ UNCHANGED <<pending, held>>
     \/ ~SameAccount(r) /\ Answer(r) /\ UNCHANGED pending
     \/ GetThrows /\ RestoreChallenge(r)
  /\ UNCHANGED <<timeVars, window, gateVars, storeVars, minted, granted>>

(* Semaphore.run: a free slot, a place in the queue, or overloaded. *)
EnterGate(r) ==
  /\ pc[r] = "gate"
  /\ \/ /\ active < MaxVerifies
        /\ active' = active + 1
        /\ Goto(r, "proving") /\ UNCHANGED <<queue, pending>>
     \/ /\ active >= MaxVerifies /\ Len(queue) < MaxQueue
        /\ queue' = Append(queue, r)
        /\ Goto(r, "queued") /\ UNCHANGED <<active, pending>>
     \/ /\ active >= MaxVerifies /\ Len(queue) >= MaxQueue
        /\ RestoreChallenge(r)
        /\ UNCHANGED gateVars
  /\ UNCHANGED <<timeVars, window, storeVars, minted, granted>>

(* Slip: the slot is freed, and handed to a waiter as well. *)
FinishProofFreeingSlot(r) ==
  /\ pc[r] = "proving"
  /\ active' = active - 1
  /\ queue' = IF queue = <<>> THEN queue ELSE Tail(queue)
  /\ pc' = [q \in Requests |->
             CASE q = r -> IF job[r].valid THEN "proved" ELSE "idle"
               [] queue # <<>> /\ q = Head(queue) -> "proving"
               [] OTHER -> pc[q]]
  /\ IF job[r].valid
       THEN UNCHANGED <<job, held>>
       ELSE /\ job' = [job EXCEPT ![r] = None]
            /\ held' = [held EXCEPT ![job[r].challenge.root] = @ - 1]
  /\ UNCHANGED <<timeVars, window, pending, storeVars, minted, granted>>

(* Slip: the slot is freed and no waiter is woken. *)
FinishProofWakingNobody(r) ==
  /\ pc[r] = "proving"
  /\ active' = active - 1
  /\ pc' = [pc EXCEPT ![r] = IF job[r].valid THEN "proved" ELSE "idle"]
  /\ IF job[r].valid
       THEN UNCHANGED <<job, held>>
       ELSE /\ job' = [job EXCEPT ![r] = None]
            /\ held' = [held EXCEPT ![job[r].challenge.root] = @ - 1]
  /\ UNCHANGED <<timeVars, window, pending, queue, storeVars, minted, granted>>

(* The proof check ends, and its slot goes to the first waiter if any. *)
FinishProof(r) ==
  LET next == IF job[r].valid THEN "proved" ELSE "idle"
      woken == IF queue = <<>> THEN pc ELSE [pc EXCEPT ![Head(queue)] = "proving"]
  IN
  /\ pc[r] = "proving"
  /\ IF queue = <<>> THEN active' = active - 1 /\ UNCHANGED queue
                     ELSE queue' = Tail(queue) /\ UNCHANGED active
  /\ pc' = [woken EXCEPT ![r] = next]
  /\ IF job[r].valid
       THEN UNCHANGED <<job, held>>
       ELSE /\ job' = [job EXCEPT ![r] = None]
            /\ held' = [held EXCEPT ![job[r].challenge.root] = @ - 1]
  /\ UNCHANGED <<timeVars, window, pending, storeVars, minted, granted>>

(* Slip: the flag is not read again once the proof has run. *)
PeriodOverByClock(r) == clock >= (job[r].challenge.epoch + 1) * EpochSeconds

(* stillCurrent, asked after it observed the clock. *)
PeriodOver(r) ==
  \/ marks'.regressed
  \/ clock >= (job[r].challenge.epoch + 1) * EpochSeconds

Grant(r) ==
  /\ granted' = granted \cup {[tag |-> Tag(r), account |-> Account(r),
                               nonce |-> job[r].nonce]}
  /\ Answer(r)

(* The check after the proof: the last one of a re-grant, and the one before
   the spend of a first claim. *)
RecheckPeriod(r) ==
  /\ pc[r] = "proved"
  /\ \E f \in Faults :
       /\ Observe(f)
       /\ IF Throws(marks, clock, f) \/ PeriodOver(r) \/ ~isRecent(job[r].root)
            THEN Answer(r) /\ UNCHANGED granted
            ELSE IF job[r].regrant
                   THEN Grant(r)
                   ELSE Goto(r, "spend") /\ UNCHANGED granted
  /\ UNCHANGED <<window, pending, gateVars, storeVars, minted>>

(* Slip: a failed spend is tagged like a failed read, and restores. *)
SpendRestoring(r) ==
  /\ pc[r] = "spend"
  /\ \/ /\ claims[Tag(r)] = None
        /\ claims' = [claims EXCEPT ![Tag(r)] = Account(r)]
        /\ claimed' = claimed \cup {job[r].nonce}
        /\ Goto(r, "spentNew") /\ UNCHANGED <<unsettled, pending>>
     \/ /\ claims[Tag(r)] # None
        /\ Goto(r, "spentDup") /\ UNCHANGED <<storeVars, pending>>
     \/ /\ AddsFail
        /\ unsettled' = unsettled \cup {[tag |-> Tag(r), account |-> Account(r)]}
        /\ claimed' = claimed \cup {job[r].nonce}
        /\ RestoreChallenge(r) /\ UNCHANGED claims
  /\ UNCHANGED <<timeVars, window, gateVars, minted, granted>>

(* await nullifiers.add(): recorded once.  When it throws the challenge
   stays consumed; the write was made, was not, or is still on its way. *)
Spend(r) ==
  /\ pc[r] = "spend"
  /\ \/ /\ claims[Tag(r)] = None
        /\ claims' = [claims EXCEPT ![Tag(r)] = Account(r)]
        /\ claimed' = claimed \cup {job[r].nonce}
        /\ Goto(r, "spentNew") /\ UNCHANGED unsettled
     \/ /\ claims[Tag(r)] # None
        /\ Goto(r, "spentDup") /\ UNCHANGED storeVars
     \/ /\ AddsFail /\ Store = "sqlite"
        /\ claims' \in {claims, IF claims[Tag(r)] = None
                                 THEN [claims EXCEPT ![Tag(r)] = Account(r)]
                                 ELSE claims}
        /\ claimed' = claimed \cup {job[r].nonce}
        /\ Answer(r) /\ UNCHANGED unsettled
     \/ /\ AddsFail /\ Store = "platform"
        /\ unsettled' = unsettled \cup {[tag |-> Tag(r), account |-> Account(r)]}
        /\ claimed' = claimed \cup {job[r].nonce}
        /\ Answer(r) /\ UNCHANGED claims
  /\ UNCHANGED <<timeVars, window, pending, gateVars, minted, granted>>

(* The check after the spend: a root that left the window no longer counts. *)
AfterSpend(r) ==
  /\ pc[r] \in {"spentNew", "spentDup"}
  /\ \E f \in Faults :
       /\ Observe(f)
       /\ IF Throws(marks, clock, f) \/ PeriodOver(r)
            THEN Answer(r) /\ UNCHANGED granted
            ELSE IF pc[r] = "spentNew"
                   THEN Grant(r)
                   ELSE Goto(r, "lookup") /\ UNCHANGED granted
  /\ UNCHANGED <<window, pending, gateVars, storeVars, minted>>

(* await nullifiers.get() of a tag that another request spent first *)
LookupOwner(r) ==
  /\ pc[r] = "lookup"
  /\ \/ SameAccount(r) /\ Goto(r, "looked") /\ UNCHANGED pending
     \/ ~SameAccount(r) /\ Answer(r) /\ UNCHANGED pending
     \/ GetThrows /\ RestoreChallenge(r)
  /\ UNCHANGED <<timeVars, window, gateVars, storeVars, minted, granted>>

AfterLookup(r) ==
  /\ pc[r] = "looked"
  /\ \E f \in Faults :
       /\ Observe(f)
       /\ IF Throws(marks, clock, f) \/ PeriodOver(r)
            THEN Answer(r) /\ UNCHANGED granted
            ELSE Grant(r)
  /\ UNCHANGED <<window, pending, gateVars, storeVars, minted>>

------------------------------------------------------------------------------
(* Timers, the network and the process. *)

(* When the leaf bound must evict, it asks for the pinned roots, which sweeps
   the challenges. *)
RefreshRoots ==
  /\ window' \in Refreshed(window)
  /\ pending' \in {pending, Swept(pending)}
  /\ UNCHANGED <<timeVars, held, gateVars, storeVars, pc, job, minted,
                 granted>>

SweepChallenges ==
  /\ pending' = Swept(pending)
  /\ UNCHANGED <<timeVars, window, held, gateVars, storeVars, pc, job, minted,
                 granted>>

(* Slip: the comparison keeps what it should drop. *)
PrunedReversed(cl, cutoff) ==
  [t \in Tags |-> IF t.epoch > cutoff THEN None ELSE cl[t]]

(* prune(): forget the tags of epochs before the cutoff. *)
Pruned(cl, cutoff) ==
  [t \in Tags |-> IF t.epoch < cutoff THEN None ELSE cl[t]]

(* Slip: the cutoff comes from the wall clock and raises no mark. *)
PruneWithoutMark ==
  /\ Store # "platform"
  /\ claims' = Pruned(claims, epochNow(clock) - RetainEpochs)
  /\ UNCHANGED <<timeVars, window, pending, held, gateVars, unsettled, claimed,
                 pc, job, minted, granted>>

(* The hourly pruneClaims: nothing is pruned when the observation throws. *)
PruneClaims ==
  /\ Store # "platform"
  /\ \E f \in Faults :
       /\ marks' = ObservedEpoch(marks, clock)
       /\ file' = EpochFileAfter(marks, file, clock, f)
       /\ claims' = IF EpochThrows(marks, clock, f) THEN claims
                    ELSE Pruned(claims, epochNow(clock) - RetainEpochs)
  /\ UNCHANGED <<clock, window, pending, held, gateVars, unsettled, claimed,
                 pc, job, minted, granted>>

(* Slip: no unique index, the late spend replaces the claim. *)
LateSpendOverwriting ==
  \E w \in unsettled :
    /\ unsettled' = unsettled \ {w}
    /\ claims' = [claims EXCEPT ![w.tag] = w.account]
    /\ UNCHANGED <<timeVars, window, pending, held, gateVars, claimed, pc, job,
                   minted, granted>>

(* A broadcast whose answer was an error reaches the shared index late. *)
LateSpend ==
  \E w \in unsettled :
    /\ unsettled' = unsettled \ {w}
    /\ claims' = IF claims[w.tag] = None
                   THEN [claims EXCEPT ![w.tag] = w.account] ELSE claims
    /\ UNCHANGED <<timeVars, window, pending, held, gateVars, claimed, pc, job,
                   minted, granted>>

(* The process dies and boots: everything in memory is lost, the marks are
   loaded, the roots refreshed, and the claims pruned. *)
Restart ==
  LET kept == IF Store = "memory" THEN [t \in Tags |-> None] ELSE claims
      m == Loaded(file)
  IN
  /\ window' \in Refreshed(NoWindow)
  /\ pending' = [n \in Nonces |-> None]
  /\ held' = [h \in Heights |-> 0]
  /\ active' = 0 /\ queue' = <<>>
  /\ pc' = [r \in Requests |-> "idle"] /\ job' = [r \in Requests |-> None]
  /\ IF Store = "platform"
       THEN marks' = m /\ UNCHANGED <<file, claims>>
       ELSE \E f \in Faults :
              /\ marks' = ObservedEpoch(m, clock)
              /\ file' = EpochFileAfter(m, file, clock, f)
              /\ claims' = IF EpochThrows(m, clock, f) THEN kept
                           ELSE Pruned(kept, epochNow(clock) - RetainEpochs)
  /\ UNCHANGED <<clock, unsettled, claimed, minted, granted>>

------------------------------------------------------------------------------
VerifyStep(r) ==
  \/ ReadSpent(r) \/ ReadOwner(r) \/ EnterGate(r) \/ FinishProof(r)
  \/ RecheckPeriod(r) \/ Spend(r) \/ AfterSpend(r) \/ LookupOwner(r)
  \/ AfterLookup(r)

BodyStep(r) == RefuseBody(r) \/ MintChallenge(r) \/ TakeChallenge(r)
               \/ RefuseChallenge(r)

Environment ==
  \/ SetClock \/ RefreshRoots \/ SweepChallenges \/ PruneClaims \/ LateSpend
  \/ Restart

Next ==
  \/ \E r \in Requests : \/ \E body \in {"challengeBody", "verifyBody"} :
                                Arrive(r, body)
                          \/ BodyStep(r)
                          \/ VerifyStep(r)
  \/ Environment

Spec == Init /\ [][Next]_vars

(* The event loop runs every suspended request again: bodies arrive or are
   refused, store calls and proof checks return or throw. *)
FairSpec ==
  Spec /\ \A r \in Requests : WF_vars(BodyStep(r)) /\ WF_vars(VerifyStep(r))

------------------------------------------------------------------------------
(* Every variable has its type. *)
TypeOK ==
  /\ clock \in Clock /\ marks \in Marks /\ file \in Marks
  /\ window \in [Heights -> Clock \cup {None}]
  /\ pending \in [Nonces -> Challenges \cup {None}]
  /\ held \in [Heights -> Int]
  /\ active \in Int /\ queue \in Seq(Requests)
  /\ claims \in [Tags -> Accounts \cup {None}]
  /\ unsettled \subseteq [tag : Tags, account : Accounts]
  /\ pc \in [Requests -> PCs]
  /\ job \in [Requests -> Jobs \cup {None}]
  /\ \A r \in Requests : InFlight(r) => job[r] \in Jobs
  /\ minted \subseteq Nonces /\ claimed \subseteq Nonces
  /\ granted \subseteq [tag : Tags, account : Accounts, nonce : Nonces]

(* One voting key maps to one account per epoch and context: no tag is ever
   granted to two accounts, across concurrent verifies, lost races, pruning,
   late spends, a clock that is set back and restarts of the process. *)
OneAccountPerTag ==
  \A g, h \in granted : g.tag = h.tag => g.account = h.account

(* Account a holds tag t in the claim store, unless t's epoch is over. *)
ClaimBacked(t, a) == t.epoch >= marks.epoch => claims[t] = a

(* In an epoch the guard has not left, the claim store holds the claim of
   every grant made, of every verify that spent its tag, and of every verify
   about to re-grant: pruning never forgets a claim that still matters. *)
ClaimsAreBacked ==
  /\ \A g \in granted : ClaimBacked(g.tag, g.account)
  /\ \A r \in Requests :
       pc[r] \in {"spentNew", "looked"} \/ (InFlight(r) /\ job[r].regrant)
         => ClaimBacked(Tag(r), Account(r))

(* A nonce is one-time: it is pending or with one request, never both, and
   once its verify recorded (or may yet record) a claim, or was granted, it
   never becomes pending again, so restore() hands out no second use. *)
NonceIsOneTime ==
  /\ \A n \in Nonces :
       Cardinality({r \in Requests : InFlight(r) /\ job[r].nonce = n})
         + (IF pending[n] = None THEN 0 ELSE 1) <= 1
  /\ \A n \in claimed \cup {g.nonce : g \in granted} : pending[n] = None

(* The gate loses no slot and leaves no waiter behind: the slots in use are
   the proofs running, the queue is the requests waiting, each once, and
   nobody waits while a slot is free. *)
GateIsSound ==
  /\ active = Cardinality({r \in Requests : pc[r] = "proving"})
  /\ active <= MaxVerifies /\ Len(queue) <= MaxQueue
  /\ {queue[i] : i \in DOMAIN queue} = {r \in Requests : pc[r] = "queued"}
  /\ Len(queue) = Cardinality({r \in Requests : pc[r] = "queued"})
  /\ queue # <<>> => active = MaxVerifies

(* A root is held exactly as many times as verifies run against it: no hold
   leaks on any path out of the handler, and none is released early. *)
HoldsMatchVerifies ==
  \A h \in Heights :
    held[h] = Cardinality({r \in Requests :
                             InFlight(r) /\ job[r].challenge.root = h})

(* Every request that was admitted is answered. *)
RequestsAreAnswered ==
  \A r \in Requests : pc[r] # "idle" ~> pc[r] = "idle"

(* The gateway implements the promise: the claims of epochs the guard has
   left behind are forgotten, whatever the store still holds of them. *)
Membership == INSTANCE OneMembership WITH
  LastEpoch <- epochNow(MaxClock),
  owner <- [t \in Tags |-> IF t.epoch < marks.epoch THEN None ELSE claims[t]],
  granted <- {<<g.tag, g.account>> : g \in granted},
  open <- marks.epoch

ImplementsMembership == Membership!Spec
==============================================================================
