--------------------------- MODULE AdmissionProofs ---------------------------
(***************************************************************************)
(* Proofs about Admission, for every value of its constants: the types;    *)
(* when the marks are durable and their writes succeed, that no tag is     *)
(* granted to two accounts and that the gateway implements OneMembership;  *)
(* and, with no such condition, that the proof gate counts its slots, that *)
(* the roots held match the verifies in flight and that nonces are used    *)
(* once.                                                                   *)
(***************************************************************************)
EXTENDS Admission, TimeMarksProofs, FiniteSetTheorems

------------------------------------------------------------------------------
(* The root window and the challenge store keep their types. *)

Windows == [Heights -> Clock \cup {None}]
Pendings == [Nonces -> Challenges \cup {None}]

LEMMA FreshType ==
  ASSUME NEW w \in Windows
  PROVE  Fresh(w) \in Windows
  BY DEF Windows, Fresh

LEMMA RefreshedType ==
  ASSUME NEW w \in Windows
  PROVE  Refreshed(w) \subseteq Windows
<1>1. ASSUME NEW h \in Heights, NEW ts \in Clock
      PROVE  Adopted(w, h, ts) \subseteq Windows
  BY <1>1 DEF Adopted, Windows, Retained
<1>2. SnapshotTimes \subseteq Clock
  BY DEF SnapshotTimes
<1>3. QED
  BY <1>1, <1>2, FreshType DEF Refreshed

LEMMA StoreTypes ==
  ASSUME NEW p \in Pendings, NEW n \in Nonces, NEW c \in Challenges
  PROVE  /\ Swept(p) \in Pendings /\ Take(p, n) \in Pendings
         /\ Insert(p, n, c) \in Pendings /\ Restored(p, n, c) \in Pendings
<1>1. Swept(p) \in Pendings /\ Take(p, n) \in Pendings
  BY DEF Swept, Take, Pendings
<1>2. Room(p) \in Pendings
  BY <1>1 DEF Room
<1>3. Insert(p, n, c) \in Pendings
  BY <1>2 DEF Insert, Pendings
<1>4. QED
  BY <1>1, <1>3 DEF Restored

------------------------------------------------------------------------------
(* Every variable has its type. *)

(* The queue holds requests that wait for a slot, each of them once. *)
QueueInv ==
  /\ \A i \in DOMAIN queue : pc[queue[i]] = "queued"
  /\ \A i, j \in DOMAIN queue : queue[i] = queue[j] => i = j

LEMMA TypeInit == Init => TypeOK
<1> SUFFICES ASSUME Init PROVE TypeOK
  OBVIOUS
<1>1. marks \in Marks /\ file \in Marks
  BY NoMarksType DEF Init
<1>2. QED
  BY <1>1 DEF Init, TypeOK, NoWindow, PCs, VerifyPCs, InFlight

(* The request r leaves its handler, or moves to its next await. *)
LEMMA AnswerType ==
  ASSUME TypeOK, NEW r \in Requests, Answer(r)
  PROVE  /\ pc' \in [Requests -> PCs]
         /\ job' \in [Requests -> Jobs \cup {None}]
         /\ held' \in [Heights -> Int]
         /\ \A q \in Requests : InFlight(q)' => job'[q] \in Jobs
  BY DEF TypeOK, Answer, PCs, VerifyPCs, InFlight, Jobs, Challenges

LEMMA GotoType ==
  ASSUME TypeOK, NEW r \in Requests, NEW next \in PCs, Goto(r, next), InFlight(r)
  PROVE  /\ pc' \in [Requests -> PCs]
         /\ job' \in [Requests -> Jobs \cup {None}]
         /\ held' \in [Heights -> Int]
         /\ \A q \in Requests : InFlight(q)' => job'[q] \in Jobs
  BY DEF TypeOK, Goto, PCs, VerifyPCs, InFlight

LEMMA ObserveType ==
  ASSUME TypeOK, NEW f, Observe(f)
  PROVE  clock' \in Clock /\ marks' \in Marks /\ file' \in Marks
  BY ObserveTypes DEF TypeOK, Observe

LEMMA RestoreType ==
  ASSUME TypeOK, NEW r \in Requests, InFlight(r), RestoreChallenge(r)
  PROVE  pending' \in Pendings
<1>1. job[r].nonce \in Nonces /\ job[r].challenge \in Challenges
  BY DEF TypeOK, Jobs
<1>2. pending \in Pendings
  BY DEF TypeOK, Pendings
<1>3. QED
  BY <1>1, <1>2, StoreTypes DEF RestoreChallenge

LEMMA TagType ==
  ASSUME TypeOK, NEW r \in Requests, InFlight(r)
  PROVE  Tag(r) \in Tags /\ Account(r) \in Accounts /\ job[r].nonce \in Nonces
  BY DEF TypeOK, Jobs, Challenges, Tag, Account, Tags

LEMMA GrantType ==
  ASSUME TypeOK, NEW r \in Requests, InFlight(r), Grant(r)
  PROVE  granted' \subseteq [tag : Tags, account : Accounts, nonce : Nonces]
  BY TagType DEF TypeOK, Grant

LEMMA TypeNext == TypeOK /\ QueueInv /\ [Next]_vars => TypeOK'
<1> SUFFICES ASSUME TypeOK, QueueInv, [Next]_vars PROVE TypeOK'
  OBVIOUS
<1> USE DEF timeVars, gateVars, storeVars
<1>p. pending \in Pendings /\ window \in Windows
  BY DEF TypeOK, Pendings, Windows
<1>1. ASSUME NEW r \in Requests, NEW body \in {"challengeBody", "verifyBody"},
             Arrive(r, body)
      PROVE  TypeOK'
  <2>1. window' \in Windows
    BY <1>1, <1>p, FreshType DEF Arrive
  <2>2. clock' \in Clock /\ marks' \in Marks /\ file' \in Marks
    BY <1>1, ObserveType DEF Arrive
  <2>3. /\ pc' \in [Requests -> PCs]
        /\ \A q \in Requests : InFlight(q)' => job'[q] \in Jobs
    BY <1>1 DEF Arrive, TypeOK, InFlight, PCs, VerifyPCs
  <2>4. QED
    BY <1>1, <2>1, <2>2, <2>3 DEF Arrive, TypeOK, Windows
<1>2. ASSUME NEW r \in Requests, RefuseBody(r)
      PROVE  TypeOK'
  BY <1>2, AnswerType DEF RefuseBody, TypeOK
<1>3. ASSUME NEW r \in Requests, MintChallenge(r)
      PROVE  TypeOK'
  <2>1. /\ clock' \in Clock /\ marks' \in Marks /\ file' \in Marks
        /\ pending' \in Pendings /\ minted' \subseteq Nonces
    <3>1. CASE Retained(window) = {}
      BY <1>3, <1>p, <3>1 DEF MintChallenge, TypeOK
    <3>2. CASE Retained(window) # {}
      <4>1. PICK n \in Nonces, a \in Accounts, x \in Contexts, h \in Heights,
                 f \in Faults :
              /\ marks' = ObservedEpoch(marks, clock)
              /\ file' = EpochFileAfter(marks, file, clock, f)
              /\ clock' = clock
              /\ \/ pending' = pending /\ minted' = minted
                 \/ /\ pending' = Insert(pending, n,
                         [account |-> a, epoch |-> epochNow(clock), ctx |-> x,
                          root |-> h, expires |-> clock + ChallengeTtl])
                    /\ minted' = minted \cup {n}
        BY <1>3, <3>2 DEF MintChallenge
      <4>2. [account |-> a, epoch |-> epochNow(clock), ctx |-> x, root |-> h,
             expires |-> clock + ChallengeTtl] \in Challenges
        BY PeriodTypes, AdmissionAssumption, PeriodAssumption
           DEF TypeOK, Challenges, Clock
      <4>3. clock' \in Clock /\ marks' \in Marks /\ file' \in Marks
        BY <4>1, ObservedTypes, ObserveTypes DEF TypeOK
      <4>4. pending' \in Pendings
        BY <4>1, <4>2, <1>p, StoreTypes
      <4>5. minted' \subseteq Nonces
        BY <4>1 DEF TypeOK
      <4>6. QED
        BY <4>3, <4>4, <4>5
    <3>3. QED
      BY <3>1, <3>2
  <2>2. QED
    BY <1>3, <2>1, AnswerType DEF MintChallenge, TypeOK, Pendings
<1>4. ASSUME NEW r \in Requests, TakeChallenge(r)
      PROVE  TypeOK'
  <2>1. PICK n \in Nonces, p \in Proofs :
          /\ pending[n] # None
          /\ pending' = Take(pending, n)
          /\ pc' = [pc EXCEPT ![r] = "has"]
          /\ job' = [job EXCEPT ![r] =
                       [nonce |-> n, challenge |-> pending[n], key |-> p.key,
                        root |-> p.root, valid |-> p.valid, regrant |-> FALSE]]
          /\ held' = [held EXCEPT ![pending[n].root] = @ + 1]
    BY <1>4 DEF TakeChallenge, Live
  <2>2. pending[n] \in Challenges
    BY <2>1 DEF TypeOK
  <2>3. pending' \in Pendings
    BY <2>1, <2>2, <1>p, StoreTypes
  <2>4. [nonce |-> n, challenge |-> pending[n], key |-> p.key, root |-> p.root,
         valid |-> p.valid, regrant |-> FALSE] \in Jobs
    BY <2>2 DEF Jobs, Proofs
  <2>5. /\ pc' \in [Requests -> PCs]
        /\ job' \in [Requests -> Jobs \cup {None}]
        /\ \A q \in Requests : InFlight(q)' => job'[q] \in Jobs
    BY <2>1, <2>4 DEF TypeOK, InFlight, PCs, VerifyPCs
  <2>6. held' \in [Heights -> Int]
    BY <2>1, <2>2 DEF TypeOK, Challenges
  <2>7. QED
    BY <1>4, <2>3, <2>5, <2>6 DEF TakeChallenge, TypeOK, Pendings
<1>5. ASSUME NEW r \in Requests, RefuseChallenge(r)
      PROVE  TypeOK'
  <2>1. pending' \in Pendings
    BY <1>5, <1>p DEF RefuseChallenge, Take, Pendings
  <2>2. QED
    BY <1>5, <2>1, AnswerType DEF RefuseChallenge, TypeOK, Pendings
<1>6. ASSUME NEW r \in Requests, ReadSpent(r)
      PROVE  TypeOK'
  <2>1. InFlight(r) /\ {"gate", "owner"} \subseteq PCs
    BY <1>6 DEF ReadSpent, InFlight, VerifyPCs, PCs
  <2>2. CASE RestoreChallenge(r)
    BY <1>6, <2>1, <2>2, RestoreType, AnswerType
       DEF ReadSpent, RestoreChallenge, TypeOK, Pendings
  <2>3. CASE ~RestoreChallenge(r)
    BY <1>6, <2>1, <2>3, GotoType DEF ReadSpent, TypeOK
  <2>4. QED
    BY <2>2, <2>3
<1>7. ASSUME NEW r \in Requests, ReadOwner(r)
      PROVE  TypeOK'
  <2>1. InFlight(r)
    BY <1>7 DEF ReadOwner, InFlight, VerifyPCs
  <2>2. CASE RestoreChallenge(r)
    BY <1>7, <2>1, <2>2, RestoreType, AnswerType
       DEF ReadOwner, RestoreChallenge, TypeOK, Pendings
  <2>3. CASE Answer(r) /\ pending' = pending
    BY <1>7, <2>3, AnswerType DEF ReadOwner, TypeOK
  <2>4. CASE /\ pc' = [pc EXCEPT ![r] = "gate"]
             /\ job' = [job EXCEPT ![r].regrant = TRUE]
             /\ pending' = pending /\ held' = held
    <3>1. job[r] \in Jobs
      BY <2>1 DEF TypeOK
    <3>2. [job[r] EXCEPT !.regrant = TRUE] \in Jobs
      BY <3>1 DEF Jobs
    <3>3. /\ pc' \in [Requests -> PCs]
          /\ job' \in [Requests -> Jobs \cup {None}]
          /\ \A q \in Requests : InFlight(q)' => job'[q] \in Jobs
      BY <2>4, <3>2 DEF TypeOK, InFlight, PCs, VerifyPCs
    <3>4. QED
      BY <1>7, <2>4, <3>3 DEF ReadOwner, TypeOK
  <2>5. QED
    BY <1>7, <2>2, <2>3, <2>4 DEF ReadOwner
<1>8. ASSUME NEW r \in Requests, EnterGate(r)
      PROVE  TypeOK'
  <2>1. InFlight(r) /\ {"proving", "queued"} \subseteq PCs
    BY <1>8 DEF EnterGate, InFlight, VerifyPCs, PCs
  <2>a. active \in Int /\ queue \in Seq(Requests)
    BY DEF TypeOK
  <2>2. active' \in Int /\ queue' \in Seq(Requests)
    BY <1>8, <2>a DEF EnterGate
  <2>3. CASE RestoreChallenge(r)
    BY <1>8, <2>1, <2>2, <2>3, RestoreType, AnswerType
       DEF EnterGate, RestoreChallenge, TypeOK, Pendings
  <2>4. CASE ~RestoreChallenge(r)
    BY <1>8, <2>1, <2>2, <2>4, GotoType DEF EnterGate, TypeOK
  <2>5. QED
    BY <2>3, <2>4
<1>9. ASSUME NEW r \in Requests, FinishProof(r)
      PROVE  TypeOK'
  <2>1. InFlight(r) /\ job[r] \in Jobs
    BY <1>9 DEF FinishProof, InFlight, VerifyPCs, TypeOK
  <2>a. active \in Int /\ queue \in Seq(Requests)
    BY DEF TypeOK
  <2>2. active' \in Int /\ queue' \in Seq(Requests)
    BY <1>9, <2>a DEF FinishProof
  <2>3. PICK woken \in [Requests -> PCs] :
          /\ woken = IF queue = <<>> THEN pc
                       ELSE [pc EXCEPT ![Head(queue)] = "proving"]
          /\ pc' = [woken EXCEPT ![r] = IF job[r].valid THEN "proved" ELSE "idle"]
    BY <1>9 DEF FinishProof, TypeOK, PCs, VerifyPCs
  <2>4. pc' \in [Requests -> PCs]
    BY <2>3 DEF PCs, VerifyPCs
  <2>c. job[r].challenge.root \in Heights
    BY <2>1 DEF Jobs, Challenges
  <2>5. /\ job' \in [Requests -> Jobs \cup {None}]
        /\ held' \in [Heights -> Int]
    <3>1. CASE job[r].valid
      BY <1>9, <3>1 DEF FinishProof, TypeOK
    <3>2. CASE ~job[r].valid
      <4>1. /\ job' = [job EXCEPT ![r] = None]
            /\ held' = [held EXCEPT ![job[r].challenge.root] = @ - 1]
        BY <1>9, <3>2 DEF FinishProof
      <4>2. /\ job \in [Requests -> Jobs \cup {None}]
            /\ held \in [Heights -> Int]
        BY DEF TypeOK
      <4>3. QED
        BY <2>c, <4>1, <4>2
    <3>3. QED
      BY <3>1, <3>2
  <2>b. queue # <<>> => InFlight(Head(queue)) /\ Head(queue) \in Requests
    BY <2>a DEF QueueInv, InFlight, VerifyPCs
  <2>6. \A q \in Requests : InFlight(q)' => job'[q] \in Jobs
    <3>1. \A q \in Requests : q # r /\ InFlight(q)' => InFlight(q)
      BY <2>3, <2>b DEF TypeOK, InFlight
    <3>2. \A q \in Requests \ {r} : job'[q] = job[q]
      BY <1>9 DEF FinishProof, TypeOK
    <3>3. InFlight(r)' => job'[r] \in Jobs
      BY <1>9, <2>1, <2>3 DEF FinishProof, InFlight, VerifyPCs
    <3>4. QED
      BY <3>1, <3>2, <3>3 DEF TypeOK
  <2>7. QED
    BY <1>9, <2>2, <2>4, <2>5, <2>6 DEF FinishProof, TypeOK
<1>10. ASSUME NEW r \in Requests, RecheckPeriod(r)
       PROVE  TypeOK'
  <2>1. InFlight(r) /\ "spend" \in PCs
    BY <1>10 DEF RecheckPeriod, InFlight, VerifyPCs, PCs
  <2>2. /\ clock' \in Clock /\ marks' \in Marks /\ file' \in Marks
    BY <1>10, ObserveType DEF RecheckPeriod
  <2>3. \/ Answer(r) /\ granted' = granted
        \/ Grant(r) /\ Answer(r)
        \/ Goto(r, "spend") /\ granted' = granted
    BY <1>10 DEF RecheckPeriod, Grant
  <2>4. QED
    BY <1>10, <2>1, <2>2, <2>3, AnswerType, GrantType, GotoType
       DEF RecheckPeriod, TypeOK
<1>11. ASSUME NEW r \in Requests, Spend(r)
       PROVE  TypeOK'
  <2>1. InFlight(r) /\ {"spentNew", "spentDup"} \subseteq PCs
    BY <1>11 DEF Spend, InFlight, VerifyPCs, PCs
  <2>2. /\ Tag(r) \in Tags /\ Account(r) \in Accounts
        /\ job[r].nonce \in Nonces
    BY <2>1, TagType
  <2>3. /\ claims' \in [Tags -> Accounts \cup {None}]
        /\ unsettled' \subseteq [tag : Tags, account : Accounts]
        /\ claimed' \subseteq Nonces
    BY <1>11, <2>2 DEF Spend, TypeOK
  <2>4. Answer(r) \/ Goto(r, "spentNew") \/ Goto(r, "spentDup")
    BY <1>11 DEF Spend
  <2>5. QED
    BY <1>11, <2>1, <2>3, <2>4, AnswerType, GotoType DEF Spend, TypeOK
<1>12. ASSUME NEW r \in Requests, AfterSpend(r)
       PROVE  TypeOK'
  <2>1. InFlight(r) /\ "lookup" \in PCs
    BY <1>12 DEF AfterSpend, InFlight, VerifyPCs, PCs
  <2>2. /\ clock' \in Clock /\ marks' \in Marks /\ file' \in Marks
    BY <1>12, ObserveType DEF AfterSpend
  <2>3. \/ Answer(r) /\ granted' = granted
        \/ Grant(r) /\ Answer(r)
        \/ Goto(r, "lookup") /\ granted' = granted
    BY <1>12 DEF AfterSpend, Grant
  <2>4. QED
    BY <1>12, <2>1, <2>2, <2>3, AnswerType, GrantType, GotoType
       DEF AfterSpend, TypeOK
<1>13. ASSUME NEW r \in Requests, LookupOwner(r)
       PROVE  TypeOK'
  <2>1. InFlight(r) /\ "looked" \in PCs
    BY <1>13 DEF LookupOwner, InFlight, VerifyPCs, PCs
  <2>2. CASE RestoreChallenge(r)
    BY <1>13, <2>1, <2>2, RestoreType, AnswerType
       DEF LookupOwner, RestoreChallenge, TypeOK, Pendings
  <2>3. CASE ~RestoreChallenge(r)
    BY <1>13, <2>1, <2>3, GotoType, AnswerType DEF LookupOwner, TypeOK
  <2>4. QED
    BY <2>2, <2>3
<1>14. ASSUME NEW r \in Requests, AfterLookup(r)
       PROVE  TypeOK'
  <2>1. InFlight(r)
    BY <1>14 DEF AfterLookup, InFlight, VerifyPCs
  <2>2. /\ clock' \in Clock /\ marks' \in Marks /\ file' \in Marks
    BY <1>14, ObserveType DEF AfterLookup
  <2>3. \/ Answer(r) /\ granted' = granted
        \/ Grant(r) /\ Answer(r)
    BY <1>14 DEF AfterLookup, Grant
  <2>4. QED
    BY <1>14, <2>1, <2>2, <2>3, AnswerType, GrantType DEF AfterLookup, TypeOK
<1>15. CASE SetClock
  BY <1>15 DEF SetClock, TypeOK, InFlight
<1>16. CASE RefreshRoots
  <2>1. window' \in Windows
    BY <1>16, <1>p, RefreshedType DEF RefreshRoots
  <2>2. pending' \in Pendings
    BY <1>16, <1>p DEF RefreshRoots, Swept, Pendings
  <2>3. QED
    BY <1>16, <2>1, <2>2 DEF RefreshRoots, TypeOK, InFlight, Windows, Pendings
<1>17. CASE SweepChallenges
  BY <1>17 DEF SweepChallenges, Swept, TypeOK, InFlight
<1>18. CASE PruneClaims
  <2>1. marks' \in Marks /\ file' \in Marks
    BY <1>18, ObservedTypes, ObserveTypes DEF PruneClaims, TypeOK
  <2>2. claims' \in [Tags -> Accounts \cup {None}]
    BY <1>18 DEF PruneClaims, Pruned, TypeOK
  <2>3. QED
    BY <1>18, <2>1, <2>2 DEF PruneClaims, TypeOK, InFlight
<1>19. CASE LateSpend
  BY <1>19 DEF LateSpend, TypeOK, InFlight
<1>20. CASE Restart
  <2>1. Loaded(file) \in Marks
    BY NoMarksType DEF TypeOK
  <2>2. marks' \in Marks /\ file' \in Marks
    BY <1>20, <2>1, ObservedTypes, ObserveTypes DEF Restart, TypeOK
  <2>3. claims' \in [Tags -> Accounts \cup {None}]
    BY <1>20 DEF Restart, Pruned, TypeOK
  <2>4. NoWindow \in Windows
    BY DEF NoWindow, Windows
  <2>5. window' \in Windows
    BY <1>20, <2>4, RefreshedType DEF Restart
  <2>6. QED
    BY <1>20, <2>2, <2>3, <2>5
       DEF Restart, TypeOK, InFlight, Windows, PCs, VerifyPCs
<1>21. CASE UNCHANGED vars
  BY <1>21 DEF vars, TypeOK, InFlight
<1>22. QED
  BY <1>1, <1>2, <1>3, <1>4, <1>5, <1>6, <1>7, <1>8, <1>9, <1>10, <1>11,
     <1>12, <1>13, <1>14, <1>15, <1>16, <1>17, <1>18, <1>19, <1>20, <1>21
     DEF Next, BodyStep, VerifyStep, Environment

LEMMA QueueNext == TypeOK /\ QueueInv /\ [Next]_vars => QueueInv'
<1> SUFFICES ASSUME TypeOK, QueueInv, [Next]_vars PROVE QueueInv'
  OBVIOUS
<1> USE DEF timeVars, gateVars, storeVars
<1>q. /\ queue \in Seq(Requests)
      /\ pc \in [Requests -> PCs]
      /\ \A i \in DOMAIN queue : queue[i] \in Requests
  BY DEF TypeOK
<1>1. ASSUME NEW r \in Requests, pc[r] # "queued", UNCHANGED queue,
             \A q \in Requests \ {r} : pc'[q] = pc[q]
      PROVE  QueueInv'
  BY <1>1, <1>q DEF QueueInv
<1>2. ASSUME UNCHANGED <<queue, pc>>
      PROVE  QueueInv'
  BY <1>2 DEF QueueInv
<1>3. ASSUME NEW r \in Requests, EnterGate(r)
      PROVE  QueueInv'
  <2>1. CASE UNCHANGED queue
    BY <1>1, <1>3, <1>q, <2>1
       DEF EnterGate, Goto, RestoreChallenge, Answer
  <2>2. CASE queue' = Append(queue, r) /\ pc' = [pc EXCEPT ![r] = "queued"]
    <3>1. \A i \in DOMAIN queue : queue[i] # r
      BY <1>3 DEF EnterGate, QueueInv
    <3>2. /\ DOMAIN queue' = DOMAIN queue \cup {Len(queue) + 1}
          /\ \A i \in DOMAIN queue : queue'[i] = queue[i]
          /\ queue'[Len(queue) + 1] = r
          /\ Len(queue) + 1 \notin DOMAIN queue
      BY <2>2, <1>q
    <3>3. QED
      BY <2>2, <3>1, <3>2, <1>q DEF QueueInv
  <2>3. QED
    BY <1>3, <2>1, <2>2 DEF EnterGate, Goto
<1>4. ASSUME NEW r \in Requests, FinishProof(r)
      PROVE  QueueInv'
  <2>1. CASE queue = <<>>
    BY <1>1, <1>4, <1>q, <2>1 DEF FinishProof
  <2>2. CASE queue # <<>>
    <3>1. /\ queue' = Tail(queue) /\ Head(queue) = queue[1]
          /\ \A i \in DOMAIN queue' : i + 1 \in DOMAIN queue /\ i + 1 # 1
                                        /\ queue'[i] = queue[i + 1]
          /\ 1 \in DOMAIN queue
      BY <1>4, <1>q, <2>2 DEF FinishProof
    <3>2. \A i \in DOMAIN queue' : pc[queue'[i]] = "queued" /\ queue'[i] # queue[1]
      BY <3>1 DEF QueueInv
    <3>3. \A q \in Requests : q # r /\ q # queue[1] => pc'[q] = pc[q]
      BY <1>4, <1>q, <2>2, <3>1 DEF FinishProof
    <3>4. \A i \in DOMAIN queue' : queue'[i] \in Requests /\ queue'[i] # r
      BY <1>4, <1>q, <3>1, <3>2 DEF FinishProof
    <3>5. \A i \in DOMAIN queue' : pc'[queue'[i]] = "queued"
      BY <3>2, <3>3, <3>4
    <3>6. \A i, j \in DOMAIN queue' : queue'[i] = queue'[j] => i = j
      <4>1. DOMAIN queue' \subseteq Int
        BY <3>1, <1>q
      <4>2. QED
        BY <3>1, <4>1 DEF QueueInv
    <3>7. QED
      BY <3>5, <3>6 DEF QueueInv
  <2>3. QED
    BY <2>1, <2>2
<1>5. ASSUME NEW r \in Requests, NEW body \in {"challengeBody", "verifyBody"},
             Arrive(r, body)
      PROVE  QueueInv'
  BY <1>1, <1>5, <1>q DEF Arrive
<1>6. ASSUME NEW r \in Requests, BodyStep(r)
      PROVE  QueueInv'
  BY <1>1, <1>6, <1>q DEF BodyStep, RefuseBody, MintChallenge, TakeChallenge,
     RefuseChallenge, Answer
<1>7. ASSUME NEW r \in Requests,
             ReadSpent(r) \/ ReadOwner(r) \/ Spend(r) \/ LookupOwner(r)
      PROVE  QueueInv'
  BY <1>1, <1>7, <1>q DEF ReadSpent, ReadOwner, Spend, LookupOwner, Goto,
     RestoreChallenge, Answer
<1>8. ASSUME NEW r \in Requests,
             RecheckPeriod(r) \/ AfterSpend(r) \/ AfterLookup(r)
      PROVE  QueueInv'
  BY <1>1, <1>8, <1>q DEF RecheckPeriod, AfterSpend, AfterLookup, Goto, Grant,
     Answer
<1>9. CASE Restart
  BY <1>9 DEF Restart, QueueInv
<1>10. CASE \/ SetClock \/ RefreshRoots \/ SweepChallenges \/ PruneClaims
            \/ LateSpend \/ UNCHANGED vars
  BY <1>2, <1>10 DEF SetClock, RefreshRoots, SweepChallenges, PruneClaims,
     LateSpend, vars
<1>11. QED
  BY <1>3, <1>4, <1>5, <1>6, <1>7, <1>8, <1>9, <1>10
     DEF Next, VerifyStep, Environment

(* The state of the gateway is always well typed, and in particular a request
   woken from the queue of the gate still carries its verify. *)
THEOREM TypeCorrect == Spec => []TypeOK
<1>1. Init => TypeOK /\ QueueInv
  BY TypeInit DEF Init, QueueInv
<1>2. QED
  BY <1>1, TypeNext, QueueNext, PTL DEF Spec

------------------------------------------------------------------------------
(* One account per tag, when the marks are durable and their writes succeed. *)

Inv == TypeOK /\ file = marks /\ ClaimsAreBacked /\ OneAccountPerTag

(* A free tag is recorded for an account, and nothing else changes. *)
NewClaim ==
  /\ marks' = marks /\ granted' = granted
  /\ \E t \in Tags, a \in Accounts :
       claims[t] = None /\ claims' = [claims EXCEPT ![t] = a]

(* What every step does to the marks and the claims: the guard never goes
   back, and a claim is only replaced in an epoch the guard has left. *)
Monotone ==
  /\ file' = marks'
  /\ marks'.epoch >= marks.epoch
  /\ \/ \A t \in Tags : claims'[t] = claims[t] \/ t.epoch < marks'.epoch
     \/ NewClaim

LEMMA SoundObserve ==
  ASSUME SoundMarks, TypeOK, file = marks, NEW f \in Faults, Observe(f)
  PROVE  /\ file' = marks' /\ marks'.epoch >= marks.epoch
         /\ ~Throws(marks, clock, f)
         /\ ~marks'.regressed => marks'.epoch = epochNow(clock)
  BY SoundObservation DEF Observe, TypeOK

(* Pruning forgets only epochs before one that the guard has reached. *)
LEMMA PrunedEpochs ==
  ASSUME NEW cl, NEW t \in Tags, NEW e \in Int, NEW k \in Int, k <= e,
         NEW d \in Nat
  PROVE  \/ Pruned(cl, k - d)[t] = cl[t]
         \/ t.epoch < e
  BY DEF Pruned, Tags, Epochs

LEMMA StepIsMonotone ==
  ASSUME SoundMarks, TypeOK, file = marks, [Next]_vars
  PROVE  Monotone
<1> USE DEF timeVars, gateVars, storeVars
<1>e. /\ marks \in Marks /\ clock \in Clock /\ epochNow(clock) \in Int
      /\ marks.epoch \in Int /\ RetainEpochs \in Nat
  <2>1. marks \in Marks /\ clock \in Clock
    BY DEF TypeOK
  <2>2. epochNow(clock) \in Int
    BY <2>1, PeriodTypes DEF Epochs
  <2>3. RetainEpochs \in Nat
    BY AdmissionAssumption
  <2>4. QED
    BY <2>1, <2>2, <2>3, MarkIsInt
<1>1. CASE UNCHANGED <<marks, file, claims>>
  BY <1>1, <1>e DEF Monotone
<1>2. ASSUME NEW f \in Faults, Observe(f), UNCHANGED claims
      PROVE  Monotone
  BY <1>2, SoundObserve DEF Monotone
<1>3. ASSUME NEW r \in Requests, MintChallenge(r)
      PROVE  Monotone
  <2>1. CASE Retained(window) = {}
    BY <1>1, <1>3, <2>1 DEF MintChallenge
  <2>2. CASE Retained(window) # {}
    <3>1. PICK f \in Faults : /\ marks' = ObservedEpoch(marks, clock)
                              /\ file' = EpochFileAfter(marks, file, clock, f)
      BY <1>3, <2>2 DEF MintChallenge
    <3>2. QED
      BY <1>3, <1>e, <3>1, SoundObservation DEF MintChallenge, Monotone
  <2>3. QED
    BY <2>1, <2>2
<1>4. ASSUME NEW r \in Requests, Spend(r)
      PROVE  Monotone
  <2>1. Tag(r) \in Tags /\ Account(r) \in Accounts
    BY <1>4, TagType DEF Spend, InFlight, VerifyPCs
  <2>2. claims' = claims \/ NewClaim
    BY <1>4, <2>1 DEF Spend, NewClaim
  <2>3. QED
    BY <1>4, <1>e, <2>2 DEF Spend, Monotone
<1>5. CASE PruneClaims
  <2>1. PICK f \in Faults :
          /\ marks' = ObservedEpoch(marks, clock)
          /\ file' = EpochFileAfter(marks, file, clock, f)
          /\ claims' = IF EpochThrows(marks, clock, f) THEN claims
                        ELSE Pruned(claims, epochNow(clock) - RetainEpochs)
    BY <1>5 DEF PruneClaims
  <2>2. /\ file' = marks' /\ marks'.epoch >= marks.epoch
        /\ marks'.epoch >= epochNow(clock)
    BY <2>1, <1>e, SoundObservation
  <2>3. marks'.epoch \in Int
    BY <2>1, <1>e, ObservedTypes, MarkIsInt
  <2>4. QED
    BY <2>1, <2>2, <2>3, <1>e, PrunedEpochs DEF Monotone
<1>6. CASE LateSpend
  <2>1. claims' = claims \/ NewClaim
    BY <1>6 DEF LateSpend, NewClaim, TypeOK
  <2>2. QED
    BY <1>6, <1>e, <2>1 DEF LateSpend, Monotone
<1>7. CASE Restart
  <2>1. Loaded(file) = marks /\ Store # "memory"
    BY MarksFollowStore DEF Loaded, SoundMarks
  <2>2. CASE Store = "platform"
    BY <1>7, <1>e, <2>1, <2>2 DEF Restart, Monotone
  <2>3. CASE Store # "platform"
    <3>1. PICK f \in Faults :
            /\ marks' = ObservedEpoch(marks, clock)
            /\ file' = EpochFileAfter(marks, file, clock, f)
            /\ claims' = IF EpochThrows(marks, clock, f) THEN claims
                          ELSE Pruned(claims, epochNow(clock) - RetainEpochs)
      BY <1>7, <2>1, <2>3 DEF Restart
    <3>2. /\ file' = marks' /\ marks'.epoch >= marks.epoch
          /\ marks'.epoch >= epochNow(clock)
      BY <3>1, <1>e, SoundObservation
    <3>3. marks'.epoch \in Int
      BY <3>1, <1>e, ObservedTypes, MarkIsInt
    <3>4. QED
      BY <3>1, <3>2, <3>3, <1>e, PrunedEpochs DEF Monotone
  <2>4. QED
    BY <2>2, <2>3
<1>8. ASSUME NEW r \in Requests, NEW body \in {"challengeBody", "verifyBody"},
             Arrive(r, body)
      PROVE  Monotone
  BY <1>2, <1>8 DEF Arrive
<1>9. ASSUME NEW r \in Requests, RecheckPeriod(r) \/ AfterSpend(r) \/ AfterLookup(r)
      PROVE  Monotone
  BY <1>2, <1>9 DEF RecheckPeriod, AfterSpend, AfterLookup
<1>10. ASSUME NEW r \in Requests,
              \/ RefuseBody(r) \/ TakeChallenge(r) \/ RefuseChallenge(r)
              \/ ReadSpent(r) \/ ReadOwner(r) \/ EnterGate(r) \/ FinishProof(r)
              \/ LookupOwner(r)
       PROVE  Monotone
  BY <1>1, <1>10 DEF RefuseBody, TakeChallenge, RefuseChallenge, ReadSpent,
     ReadOwner, EnterGate, FinishProof, LookupOwner
<1>11. CASE SetClock \/ RefreshRoots \/ SweepChallenges \/ UNCHANGED vars
  BY <1>1, <1>11 DEF SetClock, RefreshRoots, SweepChallenges, vars
<1>12. QED
  BY <1>3, <1>4, <1>5, <1>6, <1>7, <1>8, <1>9, <1>10, <1>11
     DEF Next, BodyStep, VerifyStep, Environment

(* Monotone steps keep every claim that an open epoch relies on. *)
LEMMA BackingIsKept ==
  ASSUME TypeOK, TypeOK', Monotone,
         NEW t \in Tags, NEW a \in Accounts, ClaimBacked(t, a)
  PROVE  ClaimBacked(t, a)'
<1>1. marks.epoch \in Int /\ marks'.epoch \in Int /\ t.epoch \in Int
  BY MarkIsInt DEF TypeOK, Tags, Epochs
<1>2. a # None
  BY AdmissionAssumption
<1>3. claims \in [Tags -> Accounts \cup {None}]
  BY DEF TypeOK
<1>4. claims[t] = a => claims'[t] = a \/ t.epoch < marks'.epoch
  BY <1>2, <1>3 DEF Monotone, NewClaim
<1>5. QED
  BY <1>1, <1>4 DEF Monotone, ClaimBacked

(* A verify that is past its spend, or will re-grant. *)
Backed(r) == \/ pc[r] \in {"spentNew", "looked"}
             \/ InFlight(r) /\ job[r].regrant

(* A request becomes backed only by spending its tag, or by finding itself
   recorded as the tag's owner; its tag does not change on the way. *)
LEMMA NewlyBacked ==
  ASSUME TypeOK, QueueInv, [Next]_vars, NEW r \in Requests, Backed(r)'
  PROVE  \/ Backed(r) /\ Tag(r)' = Tag(r) /\ Account(r)' = Account(r)
         \/ /\ InFlight(r) /\ Tag(r)' = Tag(r) /\ Account(r)' = Account(r)
            /\ claims'[Tag(r)] = Account(r)
<1> USE DEF timeVars, gateVars, storeVars
<1>t. /\ pc \in [Requests -> PCs] /\ job \in [Requests -> Jobs \cup {None}]
      /\ claims \in [Tags -> Accounts \cup {None}]
  BY DEF TypeOK
<1>1. ASSUME pc'[r] = pc[r], job'[r] = job[r]
      PROVE  Backed(r) /\ Tag(r)' = Tag(r) /\ Account(r)' = Account(r)
  BY <1>1 DEF Backed, InFlight, Tag, Account
<1>2. ASSUME NEW q \in Requests, q # r,
             \A p \in Requests \ {q} : pc'[p] = pc[p] /\ job'[p] = job[p]
      PROVE  Backed(r) /\ Tag(r)' = Tag(r) /\ Account(r)' = Account(r)
  BY <1>1, <1>2
<1>3. ASSUME NEW q \in Requests, Answer(q)
      PROVE  Backed(r) /\ Tag(r)' = Tag(r) /\ Account(r)' = Account(r)
  <2>1. CASE q = r
    BY <1>3, <1>t, <2>1 DEF Answer, Backed, InFlight, VerifyPCs
  <2>2. CASE q # r
    BY <1>2, <1>3, <1>t, <2>2 DEF Answer
  <2>3. QED
    BY <2>1, <2>2
<1>4. ASSUME NEW q \in Requests, NEW next \in PCs, Goto(q, next), InFlight(q),
             next \notin {"spentNew", "looked"}
      PROVE  Backed(r) /\ Tag(r)' = Tag(r) /\ Account(r)' = Account(r)
  <2>1. CASE q = r
    BY <1>4, <1>t, <2>1 DEF Goto, Backed, InFlight, Tag, Account
  <2>2. CASE q # r
    BY <1>2, <1>4, <1>t, <2>2 DEF Goto
  <2>3. QED
    BY <2>1, <2>2
<1>5. ASSUME NEW q \in Requests, NEW body \in {"challengeBody", "verifyBody"},
             Arrive(q, body)
      PROVE  Backed(r) /\ Tag(r)' = Tag(r) /\ Account(r)' = Account(r)
  <2>1. CASE q = r
    BY <1>1, <1>5, <1>t, <2>1 DEF Arrive, Backed, InFlight, VerifyPCs
  <2>2. CASE q # r
    BY <1>2, <1>5, <1>t, <2>2 DEF Arrive
  <2>3. QED
    BY <2>1, <2>2
<1>6. ASSUME NEW q \in Requests, BodyStep(q)
      PROVE  Backed(r) /\ Tag(r)' = Tag(r) /\ Account(r)' = Account(r)
  <2>1. CASE RefuseBody(q) \/ MintChallenge(q) \/ RefuseChallenge(q)
    BY <1>3, <2>1 DEF RefuseBody, MintChallenge, RefuseChallenge
  <2>2. CASE TakeChallenge(q)
    <3>1. CASE q = r
      BY <1>t, <2>2, <3>1 DEF TakeChallenge, Backed, InFlight, VerifyPCs
    <3>2. CASE q # r
      BY <1>2, <1>t, <2>2, <3>2 DEF TakeChallenge
    <3>3. QED
      BY <3>1, <3>2
  <2>3. QED
    BY <1>6, <2>1, <2>2 DEF BodyStep
<1>7. ASSUME NEW q \in Requests, ReadSpent(q) \/ EnterGate(q)
      PROVE  Backed(r) /\ Tag(r)' = Tag(r) /\ Account(r)' = Account(r)
  BY <1>3, <1>4, <1>7 DEF ReadSpent, EnterGate, RestoreChallenge, InFlight,
     VerifyPCs, PCs
<1>8. ASSUME NEW q \in Requests,
             RecheckPeriod(q) \/ AfterSpend(q) \/ AfterLookup(q)
      PROVE  Backed(r) /\ Tag(r)' = Tag(r) /\ Account(r)' = Account(r)
  BY <1>3, <1>4, <1>8 DEF RecheckPeriod, AfterSpend, AfterLookup, Grant,
     InFlight, VerifyPCs, PCs
<1>9. ASSUME NEW q \in Requests, ReadOwner(q)
      PROVE  \/ Backed(r) /\ Tag(r)' = Tag(r) /\ Account(r)' = Account(r)
             \/ /\ InFlight(r) /\ Tag(r)' = Tag(r) /\ Account(r)' = Account(r)
                /\ claims'[Tag(r)] = Account(r)
  <2>1. CASE Answer(q)
    BY <1>3, <2>1
  <2>2. CASE /\ SameAccount(q)
             /\ pc' = [pc EXCEPT ![q] = "gate"]
             /\ job' = [job EXCEPT ![q].regrant = TRUE]
    <3>1. CASE q = r
      <4>1. InFlight(r) /\ job[r] \in Jobs
        BY <1>9, <3>1 DEF ReadOwner, InFlight, VerifyPCs, TypeOK
      <4>2. /\ job'[r].challenge = job[r].challenge
            /\ job'[r].key = job[r].key
        BY <2>2, <3>1, <4>1, <1>t DEF Jobs
      <4>3. QED
        BY <1>9, <2>2, <3>1, <4>1, <4>2
           DEF ReadOwner, SameAccount, Tag, Account
    <3>2. CASE q # r
      BY <1>2, <1>t, <2>2, <3>2
    <3>3. QED
      BY <3>1, <3>2
  <2>3. QED
    BY <1>9, <2>1, <2>2 DEF ReadOwner, RestoreChallenge
<1>10. ASSUME NEW q \in Requests, Spend(q)
       PROVE  \/ Backed(r) /\ Tag(r)' = Tag(r) /\ Account(r)' = Account(r)
              \/ /\ InFlight(r) /\ Tag(r)' = Tag(r) /\ Account(r)' = Account(r)
                 /\ claims'[Tag(r)] = Account(r)
  <2>1. InFlight(q) /\ "spentDup" \in PCs
    BY <1>10 DEF Spend, InFlight, VerifyPCs, PCs
  <2>2. CASE Answer(q) \/ Goto(q, "spentDup")
    BY <1>3, <1>4, <2>1, <2>2
  <2>3. CASE /\ Goto(q, "spentNew")
             /\ claims' = [claims EXCEPT ![Tag(q)] = Account(q)]
    <3>1. CASE q = r
      <4>1. Tag(r) \in Tags
        BY <2>1, <3>1, TagType
      <4>2. QED
        BY <1>t, <2>1, <2>3, <3>1, <4>1 DEF Goto, Tag, Account
    <3>2. CASE q # r
      BY <1>2, <1>t, <2>3, <3>2 DEF Goto
    <3>3. QED
      BY <3>1, <3>2
  <2>4. QED
    BY <1>10, <2>2, <2>3 DEF Spend
<1>11. ASSUME NEW q \in Requests, LookupOwner(q)
       PROVE  \/ Backed(r) /\ Tag(r)' = Tag(r) /\ Account(r)' = Account(r)
              \/ /\ InFlight(r) /\ Tag(r)' = Tag(r) /\ Account(r)' = Account(r)
                 /\ claims'[Tag(r)] = Account(r)
  <2>1. CASE Answer(q)
    BY <1>3, <2>1
  <2>2. CASE SameAccount(q) /\ Goto(q, "looked")
    <3>1. CASE q = r
      BY <1>11, <1>t, <2>2, <3>1
         DEF LookupOwner, SameAccount, Goto, InFlight, VerifyPCs, Tag, Account
    <3>2. CASE q # r
      BY <1>2, <1>t, <2>2, <3>2 DEF Goto
    <3>3. QED
      BY <3>1, <3>2
  <2>3. QED
    BY <1>11, <2>1, <2>2 DEF LookupOwner, RestoreChallenge
<1>12. ASSUME NEW q \in Requests, FinishProof(q)
       PROVE  Backed(r) /\ Tag(r)' = Tag(r) /\ Account(r)' = Account(r)
  <2>q. /\ queue # <<>> => pc[Head(queue)] = "queued" /\ Head(queue) \in Requests
        /\ pc[q] = "proving"
    BY <1>12 DEF FinishProof, TypeOK, QueueInv
  <2>1. CASE q = r
    <3>1. job[r].valid /\ job'[r] = job[r] /\ InFlight(r)
      BY <1>12, <1>t, <2>1, <2>q
         DEF FinishProof, Backed, InFlight, VerifyPCs, PCs
    <3>2. pc'[r] = "proved"
      BY <1>12, <1>t, <2>1, <2>q, <3>1 DEF FinishProof
    <3>3. QED
      BY <3>1, <3>2 DEF Backed, InFlight, Tag, Account
  <2>2. CASE q # r
    <3>1. job'[r] = job[r]
      BY <1>12, <1>t, <2>2 DEF FinishProof
    <3>2. pc'[r] = pc[r] \/ (pc[r] = "queued" /\ pc'[r] = "proving")
      BY <1>12, <1>t, <2>2, <2>q DEF FinishProof
    <3>3. QED
      BY <1>1, <3>1, <3>2 DEF Backed, InFlight, VerifyPCs, Tag, Account
  <2>3. QED
    BY <2>1, <2>2
<1>13. CASE Restart
  BY <1>13 DEF Restart, Backed, InFlight, VerifyPCs
<1>14. CASE \/ SetClock \/ RefreshRoots \/ SweepChallenges \/ PruneClaims
            \/ LateSpend \/ UNCHANGED vars
  BY <1>1, <1>14 DEF SetClock, RefreshRoots, SweepChallenges, PruneClaims,
     LateSpend, vars
<1>15. QED
  BY <1>5, <1>6, <1>7, <1>8, <1>9, <1>10, <1>11, <1>12, <1>13, <1>14
     DEF Next, VerifyStep, Environment

(* A grant goes to a backed verify, in an epoch the guard has not left. *)
LEMMA GrantStep ==
  ASSUME SoundMarks, TypeOK, file = marks, [Next]_vars, granted' # granted
  PROVE  \E r \in Requests :
           /\ InFlight(r) /\ Backed(r)
           /\ granted' = granted \cup {[tag |-> Tag(r), account |-> Account(r),
                                       nonce |-> job[r].nonce]}
           /\ claims' = claims
           /\ marks'.epoch <= Tag(r).epoch
<1> USE DEF timeVars, gateVars, storeVars
<1>1. ASSUME NEW r \in Requests, NEW f \in Faults, InFlight(r), Observe(f),
             ~PeriodOver(r)
      PROVE  marks'.epoch <= Tag(r).epoch
  <2>1. /\ clock \in Nat /\ job[r].challenge.epoch \in Int
        /\ clock < (job[r].challenge.epoch + 1) * EpochSeconds
    <3>1. clock \in Nat
      BY DEF TypeOK, Clock
    <3>2. job[r].challenge.epoch \in Int
      BY <1>1 DEF TypeOK, Jobs, Challenges, Epochs
    <3>3. QED
      BY <1>1, <3>1, <3>2, PeriodAssumption DEF PeriodOver
  <2>2. epochNow(clock) <= job[r].challenge.epoch
    BY <2>1, PeriodBound, PeriodAssumption DEF epochNow
  <2>3. marks'.epoch = epochNow(clock)
    BY <1>1, SoundObserve DEF PeriodOver
  <2>4. QED
    BY <2>2, <2>3 DEF Tag
<1>2. ASSUME NEW r \in Requests, RecheckPeriod(r)
      PROVE  /\ InFlight(r) /\ Backed(r)
             /\ granted' = granted \cup {[tag |-> Tag(r), account |-> Account(r),
                                         nonce |-> job[r].nonce]}
             /\ claims' = claims
             /\ marks'.epoch <= Tag(r).epoch
  <2>1. InFlight(r)
    BY <1>2 DEF RecheckPeriod, InFlight, VerifyPCs
  <2>2. PICK f \in Faults : /\ Observe(f) /\ ~PeriodOver(r)
                            /\ job[r].regrant /\ Grant(r)
    BY <1>2 DEF RecheckPeriod
  <2>3. QED
    BY <1>1, <1>2, <2>1, <2>2 DEF RecheckPeriod, Grant, Backed
<1>3. ASSUME NEW r \in Requests, AfterSpend(r)
      PROVE  /\ InFlight(r) /\ Backed(r)
             /\ granted' = granted \cup {[tag |-> Tag(r), account |-> Account(r),
                                         nonce |-> job[r].nonce]}
             /\ claims' = claims
             /\ marks'.epoch <= Tag(r).epoch
  <2>1. InFlight(r)
    BY <1>3 DEF AfterSpend, InFlight, VerifyPCs
  <2>2. PICK f \in Faults : /\ Observe(f) /\ ~PeriodOver(r)
                            /\ pc[r] = "spentNew" /\ Grant(r)
    BY <1>3 DEF AfterSpend
  <2>3. QED
    BY <1>1, <1>3, <2>1, <2>2 DEF AfterSpend, Grant, Backed
<1>4. ASSUME NEW r \in Requests, AfterLookup(r)
      PROVE  /\ InFlight(r) /\ Backed(r)
             /\ granted' = granted \cup {[tag |-> Tag(r), account |-> Account(r),
                                         nonce |-> job[r].nonce]}
             /\ claims' = claims
             /\ marks'.epoch <= Tag(r).epoch
  <2>1. InFlight(r) /\ pc[r] = "looked"
    BY <1>4 DEF AfterLookup, InFlight, VerifyPCs
  <2>2. PICK f \in Faults : Observe(f) /\ ~PeriodOver(r) /\ Grant(r)
    BY <1>4 DEF AfterLookup
  <2>3. QED
    BY <1>1, <1>4, <2>1, <2>2 DEF AfterLookup, Grant, Backed
<1>5. \E r \in Requests : RecheckPeriod(r) \/ AfterSpend(r) \/ AfterLookup(r)
  <2>1. ASSUME NEW r \in Requests,
               \/ \E body \in {"challengeBody", "verifyBody"} : Arrive(r, body)
               \/ BodyStep(r)
               \/ ReadSpent(r) \/ ReadOwner(r) \/ EnterGate(r) \/ FinishProof(r)
               \/ Spend(r) \/ LookupOwner(r)
        PROVE  granted' = granted
    BY <2>1 DEF Arrive, BodyStep, RefuseBody, MintChallenge, TakeChallenge,
       RefuseChallenge, ReadSpent, ReadOwner, EnterGate, FinishProof, Spend,
       LookupOwner
  <2>2. ASSUME Environment \/ UNCHANGED vars
        PROVE  granted' = granted
    BY <2>2 DEF Environment, SetClock, RefreshRoots, SweepChallenges,
       PruneClaims, LateSpend, Restart, vars
  <2>3. QED
    BY <2>1, <2>2 DEF Next, VerifyStep
<1>6. QED
  BY <1>2, <1>3, <1>4, <1>5

LEMMA InvInit == Init => file = marks /\ ClaimsAreBacked /\ OneAccountPerTag
  BY DEF Init, ClaimsAreBacked, OneAccountPerTag, InFlight, VerifyPCs

LEMMA InvNext ==
  ASSUME SoundMarks, Inv, QueueInv, TypeOK', [Next]_vars
  PROVE  file' = marks' /\ ClaimsAreBacked' /\ OneAccountPerTag'
<1>1. TypeOK /\ file = marks /\ ClaimsAreBacked /\ OneAccountPerTag
  BY DEF Inv
<1>2. Monotone
  BY <1>1, StepIsMonotone
<1>3. \A r \in Requests : Backed(r) => ClaimBacked(Tag(r), Account(r))
  BY <1>1 DEF ClaimsAreBacked, Backed
<1>4. \A r \in Requests : Backed(r) => InFlight(r)
  BY DEF Backed, InFlight, VerifyPCs
<1>5. ASSUME NEW r \in Requests, Backed(r)'
      PROVE  ClaimBacked(Tag(r), Account(r))'
  <2>1. CASE Backed(r) /\ Tag(r)' = Tag(r) /\ Account(r)' = Account(r)
    <3>1. Tag(r) \in Tags /\ Account(r) \in Accounts
      BY <1>1, <1>4, <2>1, TagType
    <3>2. ClaimBacked(Tag(r), Account(r))
      BY <1>3, <2>1
    <3>3. \A t \in Tags, a \in Accounts :
            ClaimBacked(t, a) => (t.epoch >= marks'.epoch => claims'[t] = a)
      BY <1>1, <1>2, BackingIsKept DEF ClaimBacked
    <3>4. Tag(r).epoch >= marks'.epoch => claims'[Tag(r)] = Account(r)
      BY <3>1, <3>2, <3>3
    <3>5. QED
      BY <2>1, <3>4 DEF ClaimBacked
  <2>2. CASE /\ Tag(r)' = Tag(r) /\ Account(r)' = Account(r)
             /\ claims'[Tag(r)] = Account(r)
    BY <2>2 DEF ClaimBacked
  <2>3. QED
    BY <1>1, <1>5, <2>1, <2>2, NewlyBacked
<1>6. ASSUME NEW g \in granted'
      PROVE  ClaimBacked(g.tag, g.account)'
  <2>1. \A t \in Tags, a \in Accounts : ClaimBacked(t, a) => ClaimBacked(t, a)'
    BY <1>1, <1>2, BackingIsKept
  <2>2. CASE g \in granted
    BY <1>1, <2>1, <2>2 DEF ClaimsAreBacked, TypeOK
  <2>3. CASE g \notin granted
    <3>1. PICK r \in Requests :
            /\ InFlight(r) /\ Backed(r)
            /\ g.tag = Tag(r) /\ g.account = Account(r)
      BY <1>1, <1>6, <2>3, GrantStep
    <3>2. QED
      BY <1>1, <1>3, <2>1, <3>1, TagType
  <2>4. QED
    BY <2>2, <2>3
<1>7. OneAccountPerTag'
  <2>1. CASE granted' = granted
    BY <1>1, <2>1 DEF OneAccountPerTag
  <2>2. CASE granted' # granted
    <3>1. PICK r \in Requests :
            /\ InFlight(r) /\ Backed(r)
            /\ granted' = granted \cup {[tag |-> Tag(r), account |-> Account(r),
                                        nonce |-> job[r].nonce]}
            /\ claims' = claims
            /\ marks'.epoch <= Tag(r).epoch
      BY <1>1, <2>2, GrantStep
    <3>2. Tag(r) \in Tags /\ marks.epoch <= Tag(r).epoch
      <4>1. /\ marks.epoch \in Int /\ marks'.epoch \in Int
            /\ marks'.epoch >= marks.epoch
        BY <1>1, <1>2, MarkIsInt DEF TypeOK, Monotone
      <4>2. Tag(r) \in Tags /\ Tag(r).epoch \in Int
        BY <1>1, <3>1, TagType DEF Tags, Epochs
      <4>3. QED
        BY <3>1, <4>1, <4>2
    <3>3. claims[Tag(r)] = Account(r)
      <4>1. marks.epoch \in Int /\ Tag(r).epoch \in Int
        BY <1>1, <3>2, MarkIsInt DEF TypeOK, Tags, Epochs
      <4>2. QED
        BY <1>3, <3>1, <3>2, <4>1 DEF ClaimBacked
    <3>4. \A h \in granted : h.tag = Tag(r) => h.account = Account(r)
      <4>1. marks.epoch \in Int /\ Tag(r).epoch \in Int
        BY <1>1, <3>2, MarkIsInt DEF TypeOK, Tags, Epochs
      <4>2. QED
        BY <1>1, <3>2, <3>3, <4>1 DEF ClaimsAreBacked, ClaimBacked
    <3>5. QED
      BY <1>1, <3>1, <3>4 DEF OneAccountPerTag
  <2>3. QED
    BY <2>1, <2>2
<1>8. ClaimsAreBacked'
  BY <1>5, <1>6 DEF ClaimsAreBacked, Backed
<1>9. QED
  BY <1>2, <1>7, <1>8 DEF Monotone

(* While the clock marks are durable and reach the disk, no tag is ever
   granted to two accounts, for any number of concurrent verifies, any
   interleaving, store failures, late spends, prunes, clock steps and
   restarts: verifyMembership and the TimeGuard together keep one voting key
   to one account per epoch and context. *)
THEOREM OneAccount == SoundMarks => (Spec => []OneAccountPerTag)
<1> SUFFICES ASSUME SoundMarks PROVE Spec => []OneAccountPerTag
  OBVIOUS
<1>1. Init => Inv /\ QueueInv
  BY TypeInit, InvInit DEF Inv, Init, QueueInv
<1>2. Inv /\ QueueInv /\ [Next]_vars => (Inv /\ QueueInv)'
  BY TypeNext, QueueNext, InvNext DEF Inv
<1>3. Inv => OneAccountPerTag
  BY DEF Inv
<1>4. QED
  BY <1>1, <1>2, <1>3, PTL DEF Spec

(* The claim store always holds the claim behind every grant of an epoch the
   guard has not left: pruneClaims never forgets one that still matters. *)
THEOREM ClaimsStayBacked == SoundMarks => (Spec => []ClaimsAreBacked)
<1> SUFFICES ASSUME SoundMarks PROVE Spec => []ClaimsAreBacked
  OBVIOUS
<1>1. Init => Inv /\ QueueInv
  BY TypeInit, InvInit DEF Inv, Init, QueueInv
<1>2. Inv /\ QueueInv /\ [Next]_vars => (Inv /\ QueueInv)'
  BY TypeNext, QueueNext, InvNext DEF Inv
<1>3. Inv => ClaimsAreBacked
  BY DEF Inv
<1>4. QED
  BY <1>1, <1>2, <1>3, PTL DEF Spec

(* Every step is, seen from the promise, a claim, a grant, the end of some
   epochs, or nothing. *)
LEMMA StepImplements ==
  ASSUME SoundMarks, Inv, QueueInv, TypeOK', [Next]_vars
  PROVE  [Membership!Next]_(Membership!vars)
<1> DEFINE own == [t \in Tags |-> IF t.epoch < marks.epoch THEN None ELSE claims[t]]
           seen == {<<g.tag, g.account>> : g \in granted}
           last == epochNow(MaxClock)
<1>1. TypeOK /\ file = marks /\ ClaimsAreBacked
  BY DEF Inv
<1>2. Monotone
  BY <1>1, StepIsMonotone
<1>3. /\ marks.epoch \in Int /\ marks'.epoch \in Int /\ last \in Int
      /\ marks.epoch <= marks'.epoch /\ marks'.epoch <= last
  <2>1. marks \in Marks /\ marks' \in Marks
    BY <1>1 DEF TypeOK
  <2>2. last \in Nat
    <3>1. MaxClock \in Clock
      BY PeriodAssumption DEF Clock
    <3>2. QED
      BY <3>1, PeriodTypes
  <2>3. marks'.epoch <= last
    BY <2>1, <2>2 DEF Marks, Epochs, NoMark
  <2>4. QED
    BY <1>2, <2>1, <2>2, <2>3, MarkIsInt DEF Monotone
<1>4. \A t \in Tags : t.epoch \in Int
  BY DEF Tags, Epochs
<1>5. ASSUME \A t \in Tags : claims'[t] = claims[t] \/ t.epoch < marks'.epoch
      PROVE  own' = [t \in Tags |-> IF t.epoch < marks'.epoch THEN None ELSE own[t]]
  <2>1. ASSUME NEW t \in Tags
        PROVE  own'[t] = IF t.epoch < marks'.epoch THEN None ELSE own[t]
    BY <1>3, <1>4, <1>5, <2>1
  <2>2. QED
    BY <2>1
<1>6. CASE granted' # granted
  <2>1. PICK r \in Requests :
          /\ InFlight(r) /\ Backed(r)
          /\ granted' = granted \cup {[tag |-> Tag(r), account |-> Account(r),
                                      nonce |-> job[r].nonce]}
          /\ claims' = claims
          /\ marks'.epoch <= Tag(r).epoch
    BY <1>1, <1>6, GrantStep
  <2>2. PICK t \in Tags, a \in Accounts : t = Tag(r) /\ a = Account(r)
    BY <1>1, <2>1, TagType
  <2>3. claims[t] = a /\ marks'.epoch <= t.epoch
    <3>1. ClaimBacked(t, a)
      BY <1>1, <2>1, <2>2 DEF ClaimsAreBacked, Backed
    <3>2. QED
      BY <1>3, <1>4, <2>1, <2>2, <3>1 DEF ClaimBacked
  <2>4. own[t] = a
    BY <1>3, <1>4, <2>3
  <2>5. own' = [u \in Tags |-> IF u.epoch < marks'.epoch THEN None ELSE own[u]]
    BY <1>5, <2>1
  <2>6. seen' = seen \cup {<<t, a>>}
    <3> DEFINE g0 == [tag |-> Tag(r), account |-> Account(r),
                      nonce |-> job[r].nonce]
    <3>1. /\ granted' = granted \cup {g0}
          /\ g0.tag = t /\ g0.account = a
      BY <2>1, <2>2
    <3> HIDE DEF g0
    <3>2. <<t, a>> \in seen'
      BY <3>1
    <3>3. seen \subseteq seen'
      BY <3>1
    <3>4. ASSUME NEW g \in granted'
          PROVE  <<g.tag, g.account>> \in seen \cup {<<t, a>>}
      BY <3>1, <3>4
    <3>5. QED
      BY <3>2, <3>3, <3>4
  <2>7. marks'.epoch \in marks.epoch .. t.epoch
    BY <1>3, <1>4, <2>3
  <2>8. Membership!Grant(t, a)
    BY <2>4, <2>5, <2>6, <2>7 DEF Membership!Grant, Membership!Remembered
  <2>9. QED
    BY <2>8 DEF Membership!Next
<1>7. CASE granted' = granted /\ NewClaim
  <2>1. PICK t \in Tags, a \in Accounts :
          claims[t] = None /\ claims' = [claims EXCEPT ![t] = a]
    BY <1>7 DEF NewClaim
  <2>2. marks' = marks /\ seen' = seen
    BY <1>7 DEF NewClaim
  <2>3. claims \in [Tags -> Accounts \cup {None}]
    BY <1>1 DEF TypeOK
  <2>4. CASE t.epoch >= marks.epoch
    <3>1. own[t] = None
      BY <1>3, <1>4, <2>1, <2>4
    <3>2. own' = [own EXCEPT ![t] = a]
      <4>1. ASSUME NEW u \in Tags
            PROVE  own'[u] = [own EXCEPT ![t] = a][u]
        BY <1>3, <1>4, <2>1, <2>2, <2>3, <2>4, <4>1
      <4>2. QED
        BY <4>1
    <3>3. Membership!Claim(t, a)
      BY <2>2, <2>4, <3>1, <3>2 DEF Membership!Claim
    <3>4. QED
      BY <3>3 DEF Membership!Next
  <2>5. CASE ~(t.epoch >= marks.epoch)
    <3>1. ASSUME NEW u \in Tags
          PROVE  own'[u] = own[u]
      BY <1>3, <1>4, <2>1, <2>2, <2>3, <2>5, <3>1
    <3>2. own' = own
      BY <3>1
    <3>3. QED
      BY <2>2, <3>2 DEF Membership!vars
  <2>6. QED
    BY <2>4, <2>5
<1>8. CASE /\ granted' = granted
           /\ \A t \in Tags : claims'[t] = claims[t] \/ t.epoch < marks'.epoch
  <2>1. own' = [t \in Tags |-> IF t.epoch < marks'.epoch THEN None ELSE own[t]]
    BY <1>5, <1>8
  <2>2. marks'.epoch \in marks.epoch .. last
    BY <1>3
  <2>3. seen' = seen
    BY <1>8
  <2>4. Membership!Advance
    BY <2>1, <2>2, <2>3 DEF Membership!Advance, Membership!Remembered
  <2>5. QED
    BY <2>4 DEF Membership!Next
<1>9. QED
  BY <1>2, <1>6, <1>7, <1>8 DEF Monotone

(* The admission path implements the abstract promise: whatever the requests,
   timers and restarts do, an observer of the claims of open epochs and of
   the grants sees only claims of free tags, grants to their owners, and
   epochs that end. *)
THEOREM Implements == SoundMarks => (Spec => ImplementsMembership)
<1> SUFFICES ASSUME SoundMarks PROVE Spec => ImplementsMembership
  OBVIOUS
<1>1. Init => Inv /\ QueueInv
  BY TypeInit, InvInit DEF Inv, Init, QueueInv
<1>2. Inv /\ QueueInv /\ [Next]_vars => (Inv /\ QueueInv)'
  BY TypeNext, QueueNext, InvNext DEF Inv
<1>3. Init => Membership!Init
  <2> SUFFICES ASSUME Init PROVE Membership!Init
    OBVIOUS
  <2>1. /\ claims = [t \in Tags |-> None] /\ granted = {} /\ marks.epoch = -1
    BY DEF Init, NoMarks, NoMark
  <2>2. QED
    BY <2>1 DEF Membership!Init
<1>4. Inv /\ QueueInv /\ TypeOK' /\ [Next]_vars
        => [Membership!Next]_(Membership!vars)
  BY StepImplements
<1>5. Inv => TypeOK
  BY DEF Inv
<1>6. QED
  BY <1>1, <1>2, <1>3, <1>4, <1>5, PTL
     DEF Spec, ImplementsMembership, Membership!Spec

------------------------------------------------------------------------------
(* The gate: the slots in use and the queue. *)

Proving == {r \in Requests : pc[r] = "proving"}
Waiting == {r \in Requests : pc[r] = "queued"}

(* What a step may do to the gate: nothing, let a request in, queue it, free
   the slot of a request, hand it to the first waiter, or forget everything. *)
SameGate == Proving' = Proving /\ Waiting' = Waiting /\ UNCHANGED gateVars

EntersGate(r) ==
  /\ r \notin Proving /\ active < MaxVerifies
  /\ active' = active + 1 /\ queue' = queue
  /\ Proving' = Proving \cup {r} /\ Waiting' = Waiting

JoinsQueue(r) ==
  /\ r \notin Waiting /\ active >= MaxVerifies /\ Len(queue) < MaxQueue
  /\ active' = active /\ queue' = Append(queue, r)
  /\ Proving' = Proving /\ Waiting' = Waiting \cup {r}

FreesSlot(r) ==
  /\ r \in Proving /\ queue = <<>>
  /\ active' = active - 1 /\ queue' = queue
  /\ Proving' = Proving \ {r} /\ Waiting' = Waiting

HandsOver(r) ==
  /\ r \in Proving /\ queue # <<>>
  /\ active' = active /\ queue' = Tail(queue)
  /\ Proving' = (Proving \ {r}) \cup {Head(queue)}
  /\ Waiting' = Waiting \ {Head(queue)}

EmptiesGate == Proving' = {} /\ Waiting' = {} /\ active' = 0 /\ queue' = <<>>

GateStep ==
  \/ SameGate \/ EmptiesGate
  \/ \E r \in Requests :
       EntersGate(r) \/ JoinsQueue(r) \/ FreesSlot(r) \/ HandsOver(r)

(* A step of one request between two awaits outside the gate. *)
LEMMA GateUntouched ==
  ASSUME TypeOK, NEW r \in Requests, pc[r] \notin {"proving", "queued"},
         NEW next \in PCs \ {"proving", "queued"},
         pc' = [pc EXCEPT ![r] = next], UNCHANGED gateVars
  PROVE  GateStep
  BY DEF TypeOK, GateStep, SameGate, Proving, Waiting

LEMMA GateSteps ==
  ASSUME TypeOK, QueueInv, [Next]_vars
  PROVE  GateStep
<1> USE DEF timeVars, gateVars, storeVars
<1>t. pc \in [Requests -> PCs] /\ queue \in Seq(Requests)
  BY DEF TypeOK
<1>p. PCs \ {"proving", "queued"} =
        {"idle", "challengeBody", "verifyBody", "has", "owner", "gate",
         "proved", "spend", "spentNew", "spentDup", "lookup", "looked"}
  BY DEF PCs, VerifyPCs
<1>1. ASSUME UNCHANGED <<pc, gateVars>>
      PROVE  GateStep
  BY <1>1 DEF GateStep, SameGate, Proving, Waiting
<1>2. ASSUME NEW r \in Requests, NEW body \in {"challengeBody", "verifyBody"},
             Arrive(r, body)
      PROVE  GateStep
  <2>1. CASE pc' = pc
    BY <1>1, <1>2, <2>1 DEF Arrive
  <2>2. CASE pc' = [pc EXCEPT ![r] = body]
    BY <1>2, <1>p, <2>2, GateUntouched DEF Arrive
  <2>3. QED
    BY <1>2, <2>1, <2>2 DEF Arrive
<1>3. ASSUME NEW r \in Requests, BodyStep(r)
      PROVE  GateStep
  <2>1. \/ pc' = [pc EXCEPT ![r] = "idle"]
        \/ pc' = [pc EXCEPT ![r] = "has"]
    BY <1>3 DEF BodyStep, RefuseBody, MintChallenge, TakeChallenge,
       RefuseChallenge, Answer
  <2>2. pc[r] \notin {"proving", "queued"} /\ UNCHANGED gateVars
    BY <1>3 DEF BodyStep, RefuseBody, MintChallenge, TakeChallenge,
       RefuseChallenge
  <2>3. QED
    BY <1>p, <2>1, <2>2, GateUntouched
<1>4. ASSUME NEW r \in Requests,
             ReadSpent(r) \/ ReadOwner(r) \/ Spend(r) \/ LookupOwner(r)
             \/ RecheckPeriod(r) \/ AfterSpend(r) \/ AfterLookup(r)
      PROVE  GateStep
  <2>1. PICK next \in {"idle", "gate", "owner", "spend", "spentNew", "spentDup",
                       "lookup", "looked"} :
          pc' = [pc EXCEPT ![r] = next]
    BY <1>4 DEF ReadSpent, ReadOwner, Spend, LookupOwner, RecheckPeriod,
       AfterSpend, AfterLookup, Goto, RestoreChallenge, Grant, Answer
  <2>2. pc[r] \notin {"proving", "queued"} /\ UNCHANGED gateVars
    BY <1>4 DEF ReadSpent, ReadOwner, Spend, LookupOwner, RecheckPeriod,
       AfterSpend, AfterLookup
  <2>3. QED
    BY <1>p, <2>1, <2>2, GateUntouched
<1>5. ASSUME NEW r \in Requests, EnterGate(r)
      PROVE  GateStep
  <2>1. CASE RestoreChallenge(r) /\ UNCHANGED gateVars
    BY <1>5, <1>p, <2>1, GateUntouched DEF EnterGate, RestoreChallenge, Answer
  <2>2. CASE active < MaxVerifies /\ active' = active + 1 /\ Goto(r, "proving")
             /\ queue' = queue
    <3>1. EntersGate(r)
      BY <1>5, <1>t, <2>2 DEF EnterGate, EntersGate, Goto, Proving, Waiting
    <3>2. QED
      BY <3>1 DEF GateStep
  <2>3. CASE /\ active >= MaxVerifies /\ Len(queue) < MaxQueue
             /\ queue' = Append(queue, r) /\ Goto(r, "queued")
             /\ active' = active
    <3>1. JoinsQueue(r)
      BY <1>5, <1>t, <2>3 DEF EnterGate, JoinsQueue, Goto, Proving, Waiting
    <3>2. QED
      BY <3>1 DEF GateStep
  <2>4. QED
    BY <1>5, <2>1, <2>2, <2>3 DEF EnterGate
<1>6. ASSUME NEW r \in Requests, FinishProof(r)
      PROVE  GateStep
  <2>1. pc[r] = "proving" /\ r \in Proving
    BY <1>6 DEF FinishProof, Proving
  <2>2. CASE queue = <<>>
    <3>1. pc' = [pc EXCEPT ![r] = IF job[r].valid THEN "proved" ELSE "idle"]
      BY <1>6, <2>2 DEF FinishProof
    <3>2. FreesSlot(r)
      BY <1>6, <1>t, <2>1, <2>2, <3>1 DEF FinishProof, FreesSlot, Proving, Waiting
    <3>3. QED
      BY <3>2 DEF GateStep
  <2>3. CASE queue # <<>>
    <3>1. PICK w \in Requests : w = Head(queue) /\ pc[w] = "queued"
      BY <1>t, <2>3 DEF QueueInv
    <3>2. pc' = [[pc EXCEPT ![w] = "proving"]
                   EXCEPT ![r] = IF job[r].valid THEN "proved" ELSE "idle"]
      BY <1>6, <2>3, <3>1 DEF FinishProof
    <3>3. w # r
      BY <2>1, <3>1
    <3>4. /\ Proving' = (Proving \ {r}) \cup {w}
          /\ Waiting' = Waiting \ {w}
      BY <1>t, <2>1, <3>1, <3>2, <3>3 DEF Proving, Waiting
    <3>5. HandsOver(r)
      BY <1>6, <2>1, <2>3, <3>1, <3>4 DEF FinishProof, HandsOver
    <3>6. QED
      BY <3>5 DEF GateStep
  <2>4. QED
    BY <2>2, <2>3
<1>7. CASE Restart
  <2>1. EmptiesGate
    BY <1>7 DEF Restart, EmptiesGate, Proving, Waiting
  <2>2. QED
    BY <2>1 DEF GateStep
<1>8. CASE \/ SetClock \/ RefreshRoots \/ SweepChallenges \/ PruneClaims
           \/ LateSpend \/ UNCHANGED vars
  BY <1>1, <1>8 DEF SetClock, RefreshRoots, SweepChallenges, PruneClaims,
     LateSpend, vars
<1>9. QED
  BY <1>2, <1>3, <1>4, <1>5, <1>6, <1>7, <1>8
     DEF Next, VerifyStep, Environment

GateInv == IsFiniteSet(Proving) /\ IsFiniteSet(Waiting) /\ GateIsSound

(* The entries of a queue that grows at its end, or loses its head. *)
LEMMA QueueEntries ==
  ASSUME NEW S, NEW s \in Seq(S)
  PROVE  /\ \A x \in S : {Append(s, x)[i] : i \in DOMAIN Append(s, x)}
                           = {s[i] : i \in DOMAIN s} \cup {x}
         /\ s # <<>> /\ (\A i, j \in DOMAIN s : s[i] = s[j] => i = j)
              => {Tail(s)[i] : i \in DOMAIN Tail(s)}
                   = {s[i] : i \in DOMAIN s} \ {Head(s)}
<1>1. ASSUME NEW x \in S
      PROVE  {Append(s, x)[i] : i \in DOMAIN Append(s, x)}
               = {s[i] : i \in DOMAIN s} \cup {x}
  <2>1. /\ DOMAIN s = 1 .. Len(s) /\ Len(s) \in Nat
        /\ DOMAIN Append(s, x) = 1 .. Len(s) + 1
        /\ \A i \in 1 .. Len(s) : Append(s, x)[i] = s[i]
        /\ Append(s, x)[Len(s) + 1] = x
    BY <1>1
  <2>2. 1 .. Len(s) + 1 = (1 .. Len(s)) \cup {Len(s) + 1}
    BY <2>1
  <2>3. QED
    BY <2>1, <2>2
<1>2. ASSUME s # <<>>, \A i, j \in DOMAIN s : s[i] = s[j] => i = j
      PROVE  {Tail(s)[i] : i \in DOMAIN Tail(s)}
               = {s[i] : i \in DOMAIN s} \ {Head(s)}
  <2>1. /\ DOMAIN s = 1 .. Len(s) /\ Len(s) \in Nat \ {0}
        /\ DOMAIN Tail(s) = 1 .. Len(s) - 1
        /\ \A i \in 1 .. Len(s) - 1 : Tail(s)[i] = s[i + 1]
        /\ Head(s) = s[1]
    BY <1>2
  <2>2. \A i \in 1 .. Len(s) - 1 : i + 1 \in DOMAIN s /\ i + 1 # 1
    BY <2>1
  <2>3. ASSUME NEW i \in DOMAIN s, s[i] # s[1]
        PROVE  i - 1 \in 1 .. Len(s) - 1 /\ Tail(s)[i - 1] = s[i]
    BY <2>1, <2>3
  <2>4. 1 \in DOMAIN s
    BY <2>1
  <2>5. \A i \in 1 .. Len(s) - 1 : s[i + 1] # s[1]
    BY <1>2, <2>2, <2>4
  <2>6. QED
    BY <2>1, <2>2, <2>3, <2>5
<1>3. QED
  BY <1>1, <1>2

LEMMA GateNext ==
  ASSUME TypeOK, QueueInv, GateInv, GateStep
  PROVE  GateInv'
<1> DEFINE P == Cardinality(Proving)
           W == Cardinality(Waiting)
           Entries == {queue[i] : i \in DOMAIN queue}
<1>1. /\ IsFiniteSet(Proving) /\ IsFiniteSet(Waiting)
      /\ active = P /\ Len(queue) = W /\ Entries = Waiting
      /\ active <= MaxVerifies /\ Len(queue) <= MaxQueue
      /\ queue # <<>> => active = MaxVerifies
  BY DEF GateInv, GateIsSound, Proving, Waiting
<1>2. /\ queue \in Seq(Requests) /\ Len(queue) \in Nat
      /\ active \in Int /\ P \in Nat /\ W \in Nat
      /\ MaxVerifies \in Nat \ {0} /\ MaxQueue \in Nat
  BY <1>1, FS_CardinalityType, AdmissionAssumption DEF TypeOK
<1>3. \A i, j \in DOMAIN queue : queue[i] = queue[j] => i = j
  BY DEF QueueInv
<1>4. SUFFICES /\ IsFiniteSet(Proving') /\ IsFiniteSet(Waiting')
               /\ active' = P' /\ Len(queue') = W' /\ Entries' = Waiting'
               /\ active' <= MaxVerifies /\ Len(queue') <= MaxQueue
               /\ queue' # <<>> => active' = MaxVerifies
  BY DEF GateInv, GateIsSound, Proving, Waiting
<1>5. CASE SameGate
  BY <1>1, <1>5 DEF SameGate, gateVars
<1>6. CASE EmptiesGate
  BY <1>2, <1>6, FS_EmptySet DEF EmptiesGate
<1>7. ASSUME NEW r \in Requests, EntersGate(r)
      PROVE  /\ IsFiniteSet(Proving') /\ IsFiniteSet(Waiting')
             /\ active' = P' /\ Len(queue') = W' /\ Entries' = Waiting'
             /\ active' <= MaxVerifies /\ Len(queue') <= MaxQueue
             /\ queue' # <<>> => active' = MaxVerifies
  <2>1. IsFiniteSet(Proving \cup {r}) /\ Cardinality(Proving \cup {r}) = P + 1
    BY <1>1, <1>7, FS_AddElement DEF EntersGate
  <2>2. QED
    BY <1>1, <1>2, <1>7, <2>1 DEF EntersGate
<1>8. ASSUME NEW r \in Requests, JoinsQueue(r)
      PROVE  /\ IsFiniteSet(Proving') /\ IsFiniteSet(Waiting')
             /\ active' = P' /\ Len(queue') = W' /\ Entries' = Waiting'
             /\ active' <= MaxVerifies /\ Len(queue') <= MaxQueue
             /\ queue' # <<>> => active' = MaxVerifies
  <2>1. IsFiniteSet(Waiting \cup {r}) /\ Cardinality(Waiting \cup {r}) = W + 1
    BY <1>1, <1>8, FS_AddElement DEF JoinsQueue
  <2>2. Len(queue') = W + 1
    BY <1>1, <1>2, <1>8 DEF JoinsQueue
  <2>3. Entries' = Waiting \cup {r}
    BY <1>1, <1>2, <1>8, QueueEntries DEF JoinsQueue
  <2>4. QED
    BY <1>1, <1>2, <1>8, <2>1, <2>2, <2>3 DEF JoinsQueue
<1>9. ASSUME NEW r \in Requests, FreesSlot(r)
      PROVE  /\ IsFiniteSet(Proving') /\ IsFiniteSet(Waiting')
             /\ active' = P' /\ Len(queue') = W' /\ Entries' = Waiting'
             /\ active' <= MaxVerifies /\ Len(queue') <= MaxQueue
             /\ queue' # <<>> => active' = MaxVerifies
  <2>1. IsFiniteSet(Proving \ {r}) /\ Cardinality(Proving \ {r}) = P - 1
    BY <1>1, <1>9, FS_RemoveElement DEF FreesSlot
  <2>2. QED
    BY <1>1, <1>2, <1>9, <2>1 DEF FreesSlot
<1>10. ASSUME NEW r \in Requests, HandsOver(r)
       PROVE  /\ IsFiniteSet(Proving') /\ IsFiniteSet(Waiting')
              /\ active' = P' /\ Len(queue') = W' /\ Entries' = Waiting'
              /\ active' <= MaxVerifies /\ Len(queue') <= MaxQueue
              /\ queue' # <<>> => active' = MaxVerifies
  <2>1. Head(queue) \in Waiting
    BY <1>1, <1>2, <1>10 DEF HandsOver
  <2>2. Head(queue) \notin Proving
    BY <2>1 DEF Waiting, Proving
  <2>3. IsFiniteSet(Proving \ {r}) /\ Cardinality(Proving \ {r}) = P - 1
    BY <1>1, <1>10, FS_RemoveElement DEF HandsOver
  <2>4. /\ IsFiniteSet((Proving \ {r}) \cup {Head(queue)})
        /\ Cardinality((Proving \ {r}) \cup {Head(queue)}) = P
    <3> DEFINE R == Proving \ {r}
    <3>1. IsFiniteSet(R) /\ Cardinality(R) = P - 1 /\ Head(queue) \notin R
      BY <2>2, <2>3
    <3> HIDE DEF R
    <3>2. /\ IsFiniteSet(R \cup {Head(queue)})
          /\ Cardinality(R \cup {Head(queue)}) = Cardinality(R) + 1
      BY <3>1, FS_AddElement
    <3>3. Cardinality(R \cup {Head(queue)}) = P
      BY <1>2, <3>1, <3>2
    <3>4. QED
      BY <3>2, <3>3 DEF R
  <2>5. /\ IsFiniteSet(Waiting \ {Head(queue)})
        /\ Cardinality(Waiting \ {Head(queue)}) = W - 1
    BY <1>1, <2>1, FS_RemoveElement
  <2>6. Len(queue') = W - 1
    BY <1>1, <1>2, <1>10 DEF HandsOver
  <2>7. Entries' = Waiting \ {Head(queue)}
    <3>1. queue' = Tail(queue) /\ queue # <<>>
      BY <1>10 DEF HandsOver
    <3>2. {Tail(queue)[i] : i \in DOMAIN Tail(queue)} = Entries \ {Head(queue)}
      BY <1>2, <1>3, <3>1, QueueEntries
    <3>3. QED
      BY <1>1, <3>1, <3>2
  <2>8. QED
    BY <1>1, <1>2, <1>10, <2>4, <2>5, <2>6, <2>7 DEF HandsOver
<1>11. QED
  BY <1>5, <1>6, <1>7, <1>8, <1>9, <1>10 DEF GateStep

(* The proof gate loses no slot and leaves no waiter behind, for every number
   of slots, queue length and requests: Semaphore.run counts a slot per proof
   running, wakes exactly the waiter whose place it frees, and nobody waits
   while a slot is free. *)
THEOREM GateStaysSound == Spec => []GateIsSound
<1>1. Init => TypeOK /\ QueueInv /\ GateInv
  <2> SUFFICES ASSUME Init PROVE TypeOK /\ QueueInv /\ GateInv
    OBVIOUS
  <2>1. /\ Proving = {} /\ Waiting = {} /\ active = 0 /\ queue = <<>>
    BY DEF Init, Proving, Waiting
  <2>2. GateInv
    <3>1. /\ IsFiniteSet(Proving) /\ IsFiniteSet(Waiting)
          /\ Cardinality(Proving) = 0 /\ Cardinality(Waiting) = 0
      BY <2>1, FS_EmptySet
    <3>2. {queue[i] : i \in DOMAIN queue} = {} /\ Len(queue) = 0
      BY <2>1
    <3>3. GateIsSound <=>
            /\ active = Cardinality(Proving)
            /\ active <= MaxVerifies /\ Len(queue) <= MaxQueue
            /\ {queue[i] : i \in DOMAIN queue} = Waiting
            /\ Len(queue) = Cardinality(Waiting)
            /\ queue # <<>> => active = MaxVerifies
      BY DEF GateIsSound, Proving, Waiting
    <3>4. QED
      BY <2>1, <3>1, <3>2, <3>3, AdmissionAssumption DEF GateInv
  <2>3. QED
    BY <2>1, <2>2, TypeInit DEF QueueInv
<1>2. TypeOK /\ QueueInv /\ GateInv /\ [Next]_vars
        => (TypeOK /\ QueueInv /\ GateInv)'
  BY TypeNext, QueueNext, GateSteps, GateNext
<1>3. GateInv => GateIsSound
  BY DEF GateInv
<1>4. QED
  BY <1>1, <1>2, <1>3, PTL DEF Spec

------------------------------------------------------------------------------
(* The verifies in flight: the roots they hold and the nonces they carry. *)

Aloft == {r \in Requests : InFlight(r)}

GrantedNonces == {g.nonce : g \in granted}

(* The verify of r goes on. *)
GoesOn(r) ==
  /\ job'[r].nonce = job[r].nonce /\ job'[r].challenge = job[r].challenge
  /\ pc[r] = "spentNew" => pc'[r] = "spentNew"

(* No challenge becomes pending, but those of the nonces N. *)
PendingOnly(N) ==
  \A n \in Nonces : pending'[n] # None => pending[n] # None \/ n \in N

(* What a step may do to the verifies in flight: take a challenge and add one,
   end one, take them further, or lose them all. *)
TakesOff(r) ==
  /\ r \notin Aloft /\ Aloft' = Aloft \cup {r}
  /\ \A q \in Aloft : GoesOn(q)
  /\ job'[r] \in Jobs
  /\ held' = [held EXCEPT ![job'[r].challenge.root] = @ + 1]
  /\ pending[job'[r].nonce] # None
  /\ pending' = [pending EXCEPT ![job'[r].nonce] = None]
  /\ UNCHANGED <<minted, claimed, granted>>

Lands(r) ==
  /\ r \in Aloft /\ Aloft' = Aloft \ {r}
  /\ \A q \in Aloft \ {r} : GoesOn(q)
  /\ held' = [held EXCEPT ![job[r].challenge.root] = @ - 1]
  /\ UNCHANGED minted
  /\ \/ /\ pc[r] # "spentNew" /\ PendingOnly({job[r].nonce})
        /\ UNCHANGED <<claimed, granted>>
     \/ /\ UNCHANGED pending
        /\ claimed' \subseteq claimed \cup {job[r].nonce}
        /\ GrantedNonces' \subseteq GrantedNonces \cup {job[r].nonce}

Cruises ==
  /\ Aloft' = Aloft
  /\ \A q \in Aloft : GoesOn(q)
  /\ minted \subseteq minted' /\ PendingOnly(minted' \ minted)
  /\ \/ UNCHANGED claimed
     \/ \E r \in Aloft : /\ claimed' = claimed \cup {job[r].nonce}
                         /\ pc'[r] = "spentNew"
  /\ UNCHANGED <<held, granted>>

AllCrash ==
  /\ Aloft' = {}
  /\ held' = [h \in Heights |-> 0]
  /\ pending' = [n \in Nonces |-> None]
  /\ UNCHANGED <<minted, claimed, granted>>

FlightStep ==
  Cruises \/ AllCrash \/ \E r \in Requests : TakesOff(r) \/ Lands(r)

(* The challenge store only gains the challenge put or given back. *)
LEMMA StoreGains ==
  ASSUME NEW p \in Pendings, NEW n \in Nonces, NEW c
  PROVE  /\ \A m \in Nonces : Swept(p)[m] # None => p[m] # None
         /\ \A m \in Nonces : Insert(p, n, c)[m] # None => p[m] # None \/ m = n
         /\ \A m \in Nonces : Restored(p, n, c)[m] # None => p[m] # None \/ m = n
<1>1. \A m \in Nonces : Swept(p)[m] # None => p[m] # None
  BY DEF Swept
<1>2. Room(p) \in Pendings /\ \A m \in Nonces : Room(p)[m] # None => p[m] # None
  BY <1>1 DEF Room, Swept, Pendings
<1>3. \A m \in Nonces : Insert(p, n, c)[m] # None => p[m] # None \/ m = n
  BY <1>2 DEF Insert, Pendings
<1>4. QED
  BY <1>1, <1>3 DEF Restored

(* A request that answers from one of its awaits ends its verify. *)
LEMMA AnswerLands ==
  ASSUME TypeOK, NEW r \in Requests, InFlight(r), Answer(r)
  PROVE  /\ Aloft' = Aloft \ {r} /\ r \in Aloft
         /\ \A q \in Aloft \ {r} : GoesOn(q)
         /\ held' = [held EXCEPT ![job[r].challenge.root] = @ - 1]
  BY DEF TypeOK, Answer, Aloft, InFlight, VerifyPCs, GoesOn

LEMMA RestoreLands ==
  ASSUME TypeOK, NEW r \in Requests, InFlight(r), pc[r] # "spentNew",
         RestoreChallenge(r), UNCHANGED <<minted, claimed, granted>>
  PROVE  FlightStep
<1>1. job[r].nonce \in Nonces /\ pending \in Pendings
  BY DEF TypeOK, Jobs, Pendings
<1>2. PendingOnly({job[r].nonce})
  BY <1>1, StoreGains DEF RestoreChallenge, PendingOnly
<1>3. Lands(r)
  BY <1>2, AnswerLands DEF RestoreChallenge, Lands
<1>4. QED
  BY <1>3 DEF FlightStep

(* A request moves between two awaits, and its verify stays as it is. *)
LEMMA GotoCruises ==
  ASSUME TypeOK, NEW r \in Requests, InFlight(r), pc[r] # "spentNew",
         NEW next \in VerifyPCs, Goto(r, next),
         UNCHANGED <<minted, pending, granted>>,
         \/ UNCHANGED claimed
         \/ claimed' = claimed \cup {job[r].nonce} /\ next = "spentNew"
  PROVE  FlightStep
<1>1. Aloft' = Aloft /\ r \in Aloft
  BY DEF TypeOK, Goto, Aloft, InFlight
<1>2. \A q \in Aloft : GoesOn(q)
  BY DEF TypeOK, Goto, Aloft, InFlight, GoesOn
<1>3. pc'[r] = next
  BY DEF TypeOK, Goto
<1>4. Cruises
  BY <1>1, <1>2, <1>3 DEF Cruises, PendingOnly, Goto
<1>5. QED
  BY <1>4 DEF FlightStep

(* A request that is not in flight does what the verifies never see. *)
LEMMA GroundStep ==
  ASSUME TypeOK, NEW r \in Requests, ~InFlight(r), NEW next \in PCs \ VerifyPCs,
         pc' = [pc EXCEPT ![r] = next],
         \A q \in Requests \ {r} : job'[q] = job[q],
         minted \subseteq minted', PendingOnly(minted' \ minted),
         UNCHANGED <<held, claimed, granted>>
  PROVE  FlightStep
<1>1. Aloft' = Aloft /\ \A q \in Aloft : GoesOn(q)
  BY DEF TypeOK, Aloft, InFlight, GoesOn
<1>2. Cruises
  BY <1>1 DEF Cruises
<1>3. QED
  BY <1>2 DEF FlightStep

LEMMA FlightSteps ==
  ASSUME TypeOK, QueueInv, [Next]_vars
  PROVE  FlightStep
<1> USE DEF timeVars, gateVars, storeVars
<1>t. /\ pc \in [Requests -> PCs] /\ queue \in Seq(Requests)
      /\ job \in [Requests -> Jobs \cup {None}] /\ pending \in Pendings
  BY DEF TypeOK, Pendings
<1>g. {"idle", "challengeBody", "verifyBody"} = PCs \ VerifyPCs
  BY DEF PCs, VerifyPCs
<1>1. ASSUME UNCHANGED <<pc, job, held, minted, claimed, granted>>,
             PendingOnly({})
      PROVE  FlightStep
  <2>1. Aloft' = Aloft /\ \A q \in Aloft : GoesOn(q)
    BY <1>1 DEF Aloft, InFlight, GoesOn
  <2>2. Cruises
    BY <1>1, <2>1 DEF Cruises, PendingOnly
  <2>3. QED
    BY <2>2 DEF FlightStep
<1>2. ASSUME NEW r \in Requests, NEW body \in {"challengeBody", "verifyBody"},
             Arrive(r, body)
      PROVE  FlightStep
  <2>1. /\ UNCHANGED <<pending, held, claimed, job, minted, granted>>
        /\ pc' = pc \/ pc' = [pc EXCEPT ![r] = body]
        /\ ~InFlight(r)
    BY <1>2 DEF Arrive, InFlight, VerifyPCs
  <2>2. PendingOnly({}) /\ PendingOnly(minted' \ minted)
    BY <2>1 DEF PendingOnly
  <2>3. CASE pc' = pc
    BY <1>1, <2>1, <2>2, <2>3
  <2>4. CASE pc' = [pc EXCEPT ![r] = body]
    BY <1>g, <2>1, <2>2, <2>4, GroundStep
  <2>5. QED
    BY <2>1, <2>3, <2>4
<1>3. ASSUME NEW r \in Requests,
             RefuseBody(r) \/ MintChallenge(r) \/ RefuseChallenge(r)
      PROVE  FlightStep
  <2>1. /\ UNCHANGED <<held, claimed, granted>> /\ ~InFlight(r)
        /\ pc' = [pc EXCEPT ![r] = "idle"]
        /\ \A q \in Requests \ {r} : job'[q] = job[q]
    BY <1>3, <1>t DEF RefuseBody, MintChallenge, RefuseChallenge, Answer,
       InFlight, VerifyPCs
  <2>2. minted \subseteq minted' /\ PendingOnly(minted' \ minted)
    <3>1. CASE UNCHANGED <<pending, minted>>
      BY <3>1 DEF PendingOnly
    <3>2. CASE RefuseChallenge(r)
      BY <1>t, <3>2 DEF RefuseChallenge, PendingOnly, Take, Pendings
    <3>3. ASSUME NEW n \in Nonces \ minted, NEW c,
                 pending' = Insert(pending, n, c), minted' = minted \cup {n}
          PROVE  minted \subseteq minted' /\ PendingOnly(minted' \ minted)
      BY <1>t, <3>3, StoreGains DEF PendingOnly
    <3>4. QED
      BY <1>3, <3>1, <3>2, <3>3 DEF RefuseBody, MintChallenge
  <2>3. QED
    BY <1>g, <2>1, <2>2, GroundStep
<1>4. ASSUME NEW r \in Requests, TakeChallenge(r)
      PROVE  FlightStep
  <2>1. PICK n \in Nonces, p \in Proofs :
          /\ pending[n] # None
          /\ pending' = Take(pending, n)
          /\ pc' = [pc EXCEPT ![r] = "has"]
          /\ job' = [job EXCEPT ![r] =
                       [nonce |-> n, challenge |-> pending[n], key |-> p.key,
                        root |-> p.root, valid |-> p.valid, regrant |-> FALSE]]
          /\ held' = [held EXCEPT ![pending[n].root] = @ + 1]
    BY <1>4 DEF TakeChallenge, Live
  <2>2. /\ job'[r].nonce = n /\ job'[r].challenge = pending[n]
        /\ job'[r] \in Jobs
    BY <1>t, <2>1 DEF Pendings, Jobs, Proofs
  <2>3. /\ r \notin Aloft /\ Aloft' = Aloft \cup {r}
        /\ \A q \in Aloft : GoesOn(q)
    BY <1>4, <1>t, <2>1 DEF TakeChallenge, Aloft, InFlight, VerifyPCs, GoesOn
  <2>4. TakesOff(r)
    BY <1>4, <2>1, <2>2, <2>3 DEF TakeChallenge, TakesOff, Take
  <2>5. QED
    BY <2>4 DEF FlightStep
<1>5. ASSUME NEW r \in Requests, ReadSpent(r) \/ LookupOwner(r)
      PROVE  FlightStep
  <2>1. /\ InFlight(r) /\ pc[r] # "spentNew"
        /\ UNCHANGED <<minted, claimed, granted>>
        /\ {"gate", "owner", "looked"} \subseteq VerifyPCs
    BY <1>5 DEF ReadSpent, LookupOwner, InFlight, VerifyPCs
  <2>2. CASE RestoreChallenge(r)
    BY <2>1, <2>2, RestoreLands
  <2>3. CASE Answer(r) /\ UNCHANGED pending
    <3>1. Lands(r)
      BY <2>1, <2>3, AnswerLands DEF Lands, GrantedNonces
    <3>2. QED
      BY <3>1 DEF FlightStep
  <2>4. CASE \E next \in {"gate", "owner", "looked"} :
               Goto(r, next) /\ UNCHANGED pending
    BY <2>1, <2>4, GotoCruises
  <2>5. QED
    BY <1>5, <2>2, <2>3, <2>4 DEF ReadSpent, LookupOwner
<1>6. ASSUME NEW r \in Requests, ReadOwner(r)
      PROVE  FlightStep
  <2>1. /\ InFlight(r) /\ pc[r] # "spentNew"
        /\ UNCHANGED <<minted, claimed, granted>>
    BY <1>6 DEF ReadOwner, InFlight, VerifyPCs
  <2>2. CASE RestoreChallenge(r)
    BY <2>1, <2>2, RestoreLands
  <2>3. CASE Answer(r) /\ UNCHANGED pending
    <3>1. Lands(r)
      BY <2>1, <2>3, AnswerLands DEF Lands, GrantedNonces
    <3>2. QED
      BY <3>1 DEF FlightStep
  <2>4. CASE /\ pc' = [pc EXCEPT ![r] = "gate"]
             /\ job' = [job EXCEPT ![r].regrant = TRUE]
             /\ UNCHANGED <<pending, held>>
    <3>1. Aloft' = Aloft
      BY <1>t, <2>1, <2>4 DEF Aloft, InFlight, VerifyPCs
    <3>2. job[r] \in Jobs
      BY <2>1 DEF TypeOK
    <3>3. \A q \in Aloft : GoesOn(q)
      BY <1>t, <2>1, <2>4, <3>2 DEF Aloft, GoesOn, Jobs
    <3>4. Cruises
      BY <2>1, <2>4, <3>1, <3>3 DEF Cruises, PendingOnly
    <3>5. QED
      BY <3>4 DEF FlightStep
  <2>5. QED
    BY <1>6, <2>2, <2>3, <2>4 DEF ReadOwner
<1>7. ASSUME NEW r \in Requests, EnterGate(r)
      PROVE  FlightStep
  <2>1. /\ InFlight(r) /\ pc[r] # "spentNew"
        /\ UNCHANGED <<minted, claimed, granted>>
        /\ {"proving", "queued"} \subseteq VerifyPCs
    BY <1>7 DEF EnterGate, InFlight, VerifyPCs
  <2>2. CASE RestoreChallenge(r)
    BY <2>1, <2>2, RestoreLands
  <2>3. CASE \E next \in {"proving", "queued"} :
               Goto(r, next) /\ UNCHANGED pending
    BY <2>1, <2>3, GotoCruises
  <2>4. QED
    BY <1>7, <2>2, <2>3 DEF EnterGate
<1>8. ASSUME NEW r \in Requests, FinishProof(r)
      PROVE  FlightStep
  <2>1. /\ r \in Aloft /\ pc[r] = "proving" /\ job[r] \in Jobs
        /\ UNCHANGED <<pending, minted, claimed, granted>>
    BY <1>8 DEF FinishProof, Aloft, InFlight, VerifyPCs, TypeOK
  <2>2. \A q \in Requests \ {r} :
          pc'[q] = pc[q] \/ (pc[q] = "queued" /\ pc'[q] = "proving")
    <3>1. queue # <<>> => Head(queue) \in Requests /\ pc[Head(queue)] = "queued"
      BY <1>t DEF QueueInv
    <3>2. QED
      BY <1>8, <1>t, <3>1 DEF FinishProof
  <2>3. \A q \in Requests \ {r} : q \in Aloft' <=> q \in Aloft
    BY <2>2 DEF Aloft, InFlight, VerifyPCs
  <2>4. pc'[r] = IF job[r].valid THEN "proved" ELSE "idle"
    <3>1. queue # <<>> => Head(queue) \in Requests
      BY <1>t
    <3>2. QED
      BY <1>8, <1>t, <3>1 DEF FinishProof
  <2>5. \A q \in Aloft \ {r} : GoesOn(q)
    BY <1>8, <1>t, <2>2 DEF FinishProof, Aloft, GoesOn
  <2>6. CASE job[r].valid
    <3>1. Aloft' = Aloft
      BY <2>1, <2>3, <2>4, <2>6 DEF Aloft, InFlight, VerifyPCs
    <3>2. GoesOn(r)
      BY <1>8, <2>1, <2>6 DEF FinishProof, GoesOn
    <3>3. Cruises
      BY <1>8, <2>1, <2>5, <2>6, <3>1, <3>2 DEF FinishProof, Cruises, PendingOnly
    <3>4. QED
      BY <3>3 DEF FlightStep
  <2>7. CASE ~job[r].valid
    <3>1. Aloft' = Aloft \ {r}
      BY <2>3, <2>4, <2>7 DEF Aloft, InFlight, VerifyPCs
    <3>2. Lands(r)
      BY <1>8, <2>1, <2>5, <2>7, <3>1 DEF FinishProof, Lands, GrantedNonces
    <3>3. QED
      BY <3>2 DEF FlightStep
  <2>8. QED
    BY <2>6, <2>7
<1>9. ASSUME NEW r \in Requests,
             RecheckPeriod(r) \/ AfterSpend(r) \/ AfterLookup(r)
      PROVE  FlightStep
  <2>1. /\ InFlight(r) /\ UNCHANGED <<pending, minted, claimed>>
        /\ {"spend", "lookup"} \subseteq VerifyPCs
    BY <1>9 DEF RecheckPeriod, AfterSpend, AfterLookup, InFlight, VerifyPCs
  <2>2. CASE Answer(r) /\ (UNCHANGED granted \/ Grant(r))
    <3>1. GrantedNonces' \subseteq GrantedNonces \cup {job[r].nonce}
      BY <2>2 DEF GrantedNonces, Grant
    <3>2. Lands(r)
      BY <2>1, <2>2, <3>1, AnswerLands DEF Lands
    <3>3. QED
      BY <3>2 DEF FlightStep
  <2>3. CASE /\ pc[r] # "spentNew" /\ UNCHANGED granted
             /\ Goto(r, "spend") \/ Goto(r, "lookup")
    BY <2>1, <2>3, GotoCruises
  <2>4. QED
    BY <1>9, <2>2, <2>3 DEF RecheckPeriod, AfterSpend, AfterLookup, Grant
<1>10. ASSUME NEW r \in Requests, Spend(r)
       PROVE  FlightStep
  <2>1. /\ InFlight(r) /\ pc[r] # "spentNew"
        /\ UNCHANGED <<pending, minted, granted>>
        /\ {"spentNew", "spentDup"} \subseteq VerifyPCs
    BY <1>10 DEF Spend, InFlight, VerifyPCs
  <2>2. CASE Answer(r) /\ claimed' = claimed \cup {job[r].nonce}
    <3>1. Lands(r)
      BY <2>1, <2>2, AnswerLands DEF Lands, GrantedNonces
    <3>2. QED
      BY <3>1 DEF FlightStep
  <2>3. CASE \/ /\ Goto(r, "spentNew")
                /\ claimed' = claimed \cup {job[r].nonce}
             \/ Goto(r, "spentDup") /\ UNCHANGED claimed
    BY <2>1, <2>3, GotoCruises
  <2>4. QED
    BY <1>10, <2>2, <2>3 DEF Spend
<1>11. CASE Restart
  <2>1. AllCrash
    BY <1>11 DEF Restart, AllCrash, Aloft, InFlight, VerifyPCs
  <2>2. QED
    BY <2>1 DEF FlightStep
<1>12. CASE \/ SetClock \/ RefreshRoots \/ SweepChallenges \/ PruneClaims
            \/ LateSpend \/ UNCHANGED vars
  <2>1. /\ UNCHANGED <<pc, job, held, minted, claimed, granted>>
        /\ pending' = pending \/ pending' = Swept(pending)
    BY <1>12 DEF SetClock, RefreshRoots, SweepChallenges, PruneClaims,
       LateSpend, vars
  <2>2. PendingOnly({})
    BY <2>1 DEF PendingOnly, Swept
  <2>3. QED
    BY <1>1, <2>1, <2>2
<1>13. QED
  BY <1>2, <1>3, <1>4, <1>5, <1>6, <1>7, <1>8, <1>9, <1>10, <1>11, <1>12
     DEF Next, BodyStep, VerifyStep, Environment

(* The verifies that hold the root h. *)
Upon(h) == {r \in Aloft : job[r].challenge.root = h}

HoldsInv ==
  /\ IsFiniteSet(Aloft)
  /\ \A h \in Heights : held[h] = Cardinality(Upon(h))

LEMMA HoldsNext ==
  ASSUME TypeOK, HoldsInv, FlightStep
  PROVE  HoldsInv'
<1>1. /\ held \in [Heights -> Int] /\ IsFiniteSet(Aloft)
      /\ \A r \in Aloft : job[r].challenge.root \in Heights
  BY DEF TypeOK, HoldsInv, Aloft, Jobs, Challenges
<1>2. \A h \in Heights : IsFiniteSet(Upon(h)) /\ held[h] = Cardinality(Upon(h))
  BY <1>1, FS_Subset DEF HoldsInv, Upon
<1>3. CASE Cruises
  <2>1. \A h \in Heights : Upon(h)' = Upon(h)
    BY <1>3 DEF Cruises, GoesOn, Upon
  <2>2. QED
    BY <1>1, <1>2, <1>3, <2>1 DEF Cruises, HoldsInv
<1>4. CASE AllCrash
  <2>1. \A h \in Heights : Upon(h)' = {}
    BY <1>4 DEF AllCrash, Upon
  <2>2. QED
    BY <1>4, <2>1, FS_EmptySet DEF AllCrash, HoldsInv
<1>5. ASSUME NEW r \in Requests, TakesOff(r)
      PROVE  HoldsInv'
  <2>1. PICK h \in Heights : h = job'[r].challenge.root
    BY <1>5 DEF TakesOff, Jobs, Challenges
  <2>2. /\ Upon(h)' = Upon(h) \cup {r} /\ r \notin Upon(h)
        /\ \A k \in Heights \ {h} : Upon(k)' = Upon(k)
    BY <1>5, <2>1 DEF TakesOff, GoesOn, Upon
  <2>3. Cardinality(Upon(h)') = Cardinality(Upon(h)) + 1
    BY <1>2, <2>2, FS_AddElement
  <2>4. held' = [held EXCEPT ![h] = @ + 1]
    BY <1>5, <2>1 DEF TakesOff
  <2>5. \A k \in Heights : held'[k] = Cardinality(Upon(k)')
    BY <1>1, <1>2, <2>2, <2>3, <2>4
  <2>6. IsFiniteSet(Aloft')
    BY <1>1, <1>5, FS_AddElement DEF TakesOff
  <2>7. QED
    BY <2>5, <2>6 DEF HoldsInv
<1>6. ASSUME NEW r \in Requests, Lands(r)
      PROVE  HoldsInv'
  <2>1. PICK h \in Heights : h = job[r].challenge.root
    BY <1>1, <1>6 DEF Lands
  <2>2. /\ Upon(h)' = Upon(h) \ {r} /\ r \in Upon(h)
        /\ \A k \in Heights \ {h} : Upon(k)' = Upon(k)
    BY <1>6, <2>1 DEF Lands, GoesOn, Upon
  <2>3. Cardinality(Upon(h)') = Cardinality(Upon(h)) - 1
    BY <1>2, <2>2, FS_RemoveElement
  <2>4. held' = [held EXCEPT ![h] = @ - 1]
    BY <1>6, <2>1 DEF Lands
  <2>5. \A k \in Heights : held'[k] = Cardinality(Upon(k)')
    BY <1>1, <1>2, <2>2, <2>3, <2>4
  <2>6. IsFiniteSet(Aloft')
    BY <1>1, <1>6, FS_RemoveElement DEF Lands
  <2>7. QED
    BY <2>5, <2>6 DEF HoldsInv
<1>7. QED
  BY <1>3, <1>4, <1>5, <1>6 DEF FlightStep

(* Every root is held exactly as many times as verifies run against it: each
   return and each throw of the /v1/verify handler releases what it took, and
   nothing else does. *)
THEOREM HoldsStayMatched == Spec => []HoldsMatchVerifies
<1>1. Init => TypeOK /\ QueueInv /\ HoldsInv
  <2> SUFFICES ASSUME Init PROVE TypeOK /\ QueueInv /\ HoldsInv
    OBVIOUS
  <2>1. Aloft = {} /\ \A h \in Heights : Upon(h) = {}
    BY DEF Init, Aloft, Upon, InFlight, VerifyPCs
  <2>2. HoldsInv
    BY <2>1, FS_EmptySet DEF Init, HoldsInv
  <2>3. QED
    BY <2>2, TypeInit DEF Init, QueueInv
<1>2. TypeOK /\ QueueInv /\ HoldsInv /\ [Next]_vars
        => (TypeOK /\ QueueInv /\ HoldsInv)'
  BY TypeNext, QueueNext, FlightSteps, HoldsNext
<1>3. HoldsInv => HoldsMatchVerifies
  <2> SUFFICES ASSUME HoldsInv, NEW h \in Heights
               PROVE  held[h] = Cardinality({r \in Requests :
                                  InFlight(r) /\ job[r].challenge.root = h})
    BY DEF HoldsMatchVerifies
  <2>1. Upon(h) = {r \in Requests : InFlight(r) /\ job[r].challenge.root = h}
    BY DEF Upon, Aloft
  <2>2. QED
    BY <2>1 DEF HoldsInv
<1>4. QED
  BY <1>1, <1>2, <1>3, PTL DEF Spec

------------------------------------------------------------------------------
(* Nonces. *)

Used == claimed \cup GrantedNonces

(* A nonce is with one verify at most, and pending only when it is with none
   and unused; every nonce in the system was minted, so that a new one is none
   of them; and a verify whose nonce is used has recorded its claim, after
   which no path gives a challenge back. *)
NonceInv ==
  /\ \A r, q \in Aloft : job[r].nonce = job[q].nonce => r = q
  /\ \A r \in Aloft : /\ pending[job[r].nonce] = None
                      /\ job[r].nonce \in minted
                      /\ job[r].nonce \in Used => pc[r] = "spentNew"
  /\ \A n \in Used : pending[n] = None
  /\ Used \subseteq minted
  /\ \A n \in Nonces : pending[n] # None => n \in minted

LEMMA NonceNext ==
  ASSUME TypeOK, NonceInv, FlightStep
  PROVE  NonceInv'
<1>1. /\ pending \in Pendings /\ Used \subseteq Nonces
      /\ \A r \in Aloft : job[r].nonce \in Nonces
  BY DEF TypeOK, Pendings, Used, GrantedNonces, Aloft, Jobs
<1>2. CASE Cruises
  <2>1. /\ Used' \subseteq Used \cup {job[r].nonce : r \in Aloft}
        /\ \A r \in Aloft : /\ job[r].nonce \in Used' /\ job[r].nonce \notin Used
                             => pc'[r] = "spentNew"
    <3>1. CASE UNCHANGED claimed
      BY <1>2, <3>1 DEF Cruises, Used, GrantedNonces
    <3>2. ASSUME NEW r \in Aloft, claimed' = claimed \cup {job[r].nonce},
                 pc'[r] = "spentNew"
          PROVE  /\ Used' \subseteq Used \cup {job[q].nonce : q \in Aloft}
                 /\ \A q \in Aloft : /\ job[q].nonce \in Used'
                                      /\ job[q].nonce \notin Used
                                      => pc'[q] = "spentNew"
      <4>1. Used' = Used \cup {job[r].nonce}
        BY <1>2, <3>2 DEF Cruises, Used, GrantedNonces
      <4>2. \A q \in Aloft : job[q].nonce \in {job[r].nonce} => q = r
        BY DEF NonceInv
      <4>3. QED
        BY <3>2, <4>1, <4>2
    <3>3. QED
      BY <1>2, <3>1, <3>2 DEF Cruises
  <2>2. \A n \in Nonces : pending[n] = None /\ n \in minted => pending'[n] = None
    BY <1>2 DEF Cruises, PendingOnly
  <2>3. \A n \in Nonces : pending'[n] # None => n \in minted'
    BY <1>2 DEF Cruises, PendingOnly, NonceInv
  <2>4. \A n \in Used' : n \in Nonces /\ n \in minted /\ pending[n] = None
    BY <1>1, <2>1 DEF NonceInv
  <2>5. \A r \in Aloft' : /\ r \in Aloft /\ job'[r].nonce = job[r].nonce
                          /\ pc[r] = "spentNew" => pc'[r] = "spentNew"
    BY <1>2 DEF Cruises, GoesOn
  <2>6. minted \subseteq minted'
    BY <1>2 DEF Cruises
  <2>7. QED
    BY <1>1, <2>1, <2>2, <2>3, <2>4, <2>5, <2>6 DEF NonceInv
<1>3. CASE AllCrash
  <2>1. Used' = Used /\ Aloft' = {} /\ minted' = minted
        /\ \A n \in Nonces : pending'[n] = None
    BY <1>3 DEF AllCrash, Used, GrantedNonces
  <2>2. QED
    BY <1>1, <2>1 DEF NonceInv
<1>4. ASSUME NEW r \in Requests, TakesOff(r)
      PROVE  NonceInv'
  <2>1. Used' = Used /\ minted' = minted
    BY <1>4 DEF TakesOff, Used, GrantedNonces
  <2>2. PICK n \in Nonces : n = job'[r].nonce
    BY <1>4 DEF TakesOff, Jobs
  <2>3. /\ pending[n] # None /\ n \in minted /\ n \notin Used
        /\ \A q \in Aloft : job[q].nonce # n
    BY <1>4, <2>2 DEF TakesOff, NonceInv
  <2>4. pending' = [pending EXCEPT ![n] = None]
    BY <1>4, <2>2 DEF TakesOff
  <2>5. \A q \in Aloft' : q = r \/ /\ q \in Aloft /\ job'[q].nonce = job[q].nonce
                                   /\ pc[q] = "spentNew" => pc'[q] = "spentNew"
    BY <1>4 DEF TakesOff, GoesOn
  <2>6. pending'[n] = None /\ \A m \in Nonces \ {n} : pending'[m] = pending[m]
    BY <1>1, <2>4 DEF Pendings
  <2>7. QED
    BY <1>1, <2>1, <2>2, <2>3, <2>5, <2>6 DEF NonceInv
<1>5. ASSUME NEW r \in Requests, Lands(r)
      PROVE  NonceInv'
  <2>1. PICK n \in Nonces : n = job[r].nonce
    BY <1>1, <1>5 DEF Lands
  <2>2. \A q \in Aloft' : /\ q \in Aloft /\ q # r /\ job'[q].nonce = job[q].nonce
                          /\ pc[q] = "spentNew" => pc'[q] = "spentNew"
    BY <1>5 DEF Lands, GoesOn
  <2>3. n \in minted /\ minted' = minted /\ pending[n] = None
        /\ \A q \in Aloft' : job[q].nonce # n
    BY <1>5, <2>1, <2>2 DEF Lands, NonceInv
  <2>4. CASE /\ pc[r] # "spentNew" /\ PendingOnly({job[r].nonce})
             /\ UNCHANGED <<claimed, granted>>
    <3>1. Used' = Used /\ n \notin Used
      BY <1>5, <2>1, <2>4 DEF Lands, NonceInv, Used, GrantedNonces
    <3>2. \A m \in Nonces : pending'[m] # None => pending[m] # None \/ m = n
      BY <2>1, <2>4 DEF PendingOnly
    <3>3. QED
      BY <1>1, <2>2, <2>3, <3>1, <3>2 DEF NonceInv
  <2>5. CASE /\ UNCHANGED pending
             /\ claimed' \subseteq claimed \cup {job[r].nonce}
             /\ GrantedNonces' \subseteq GrantedNonces \cup {job[r].nonce}
    <3>1. Used' \subseteq Used \cup {n} /\ pending' = pending
      BY <2>1, <2>5 DEF Used
    <3>2. QED
      BY <1>1, <2>2, <2>3, <3>1 DEF NonceInv
  <2>6. QED
    BY <1>5, <2>4, <2>5 DEF Lands
<1>6. QED
  BY <1>2, <1>3, <1>4, <1>5 DEF FlightStep

(* A nonce is one-time, however takes, sweeps, restores, spends and restarts
   interleave: it is pending or with one verify, never both, and once its
   verify may have recorded a claim it is never pending again, so the
   restore() of the gateway's overloaded and beforeSpend answers hands out no
   second use. *)
THEOREM NoncesAreOneTime == Spec => []NonceIsOneTime
<1>1. Init => TypeOK /\ QueueInv /\ NonceInv
  <2> SUFFICES ASSUME Init PROVE TypeOK /\ QueueInv /\ NonceInv
    OBVIOUS
  <2>1. Aloft = {} /\ Used = {} /\ \A n \in Nonces : pending[n] = None
    BY DEF Init, Aloft, InFlight, VerifyPCs, Used, GrantedNonces
  <2>2. NonceInv
    BY <2>1 DEF NonceInv
  <2>3. QED
    BY <2>2, TypeInit DEF Init, QueueInv
<1>2. TypeOK /\ QueueInv /\ NonceInv /\ [Next]_vars
        => (TypeOK /\ QueueInv /\ NonceInv)'
  BY TypeNext, QueueNext, FlightSteps, NonceNext
<1>3. TypeOK /\ NonceInv => NonceIsOneTime
  <2> SUFFICES ASSUME TypeOK, NonceInv PROVE NonceIsOneTime
    OBVIOUS
  <2>1. ASSUME NEW n \in Nonces
        PROVE  Cardinality({r \in Requests : InFlight(r) /\ job[r].nonce = n})
                 + (IF pending[n] = None THEN 0 ELSE 1) <= 1
    <3> DEFINE S == {r \in Requests : InFlight(r) /\ job[r].nonce = n}
    <3>1. S = {r \in Aloft : job[r].nonce = n}
      BY DEF Aloft
    <3>2. CASE S = {}
      <4>1. Cardinality(S) = 0
        BY <3>2, FS_EmptySet
      <4>2. QED
        BY <4>1
    <3>3. CASE S # {}
      <4>1. PICK r \in Aloft : job[r].nonce = n
        BY <3>1, <3>3
      <4>2. S = {r} /\ pending[n] = None
        BY <3>1, <4>1 DEF NonceInv
      <4>3. Cardinality(S) = 1
        BY <4>2, FS_Singleton
      <4>4. QED
        BY <4>2, <4>3
    <3>4. QED
      BY <3>2, <3>3
  <2>2. \A n \in claimed \cup {g.nonce : g \in granted} : pending[n] = None
    BY DEF NonceInv, Used, GrantedNonces
  <2>3. QED
    BY <2>1, <2>2 DEF NonceIsOneTime
<1>4. QED
  BY <1>1, <1>2, <1>3, PTL DEF Spec
==============================================================================
