------------------------- MODULE GatewayServerProofs -------------------------
(***************************************************************************)
(* Proofs about TimeGuard and GatewayServer, for every number of requests  *)
(* and every value of their constants: the clock guard keeps its promise   *)
(* while its marks are durable and their writes succeed, the server behind *)
(* its socket is a TimeGuard, closing it takes nothing away from what      *)
(* still runs, and a refused request is charged to no limit.               *)
(***************************************************************************)
EXTENDS GatewayServer, TimeMarksProofs, FiniteSetTheorems, WellFoundedInduction

------------------------------------------------------------------------------
(* The clock guard by itself. *)

LEMMA MarksInvInit == Init => MarksInv
<1> SUFFICES ASSUME Init PROVE MarksInv
  OBVIOUS
<1>1. TypeOK
  BY NoMarksType DEF Init, TypeOK, Periods
<1>2. /\ marks.epoch = NoMark /\ marks.season = NoMark
      /\ served.epoch = NoMark /\ served.season = NoMark
  BY DEF Init, NoMarks
<1>3. file = marks /\ NoMark <= NoMark
  BY DEF Init, NoMark
<1>4. QED
  BY <1>1, <1>2, <1>3 DEF MarksInv

(* An observation through the handler's prefix, with sound marks. *)
LEMMA RequestStep ==
  ASSUME SoundMarks, MarksInv, Request
  PROVE  /\ MarksInv'
         /\ served'.epoch >= served.epoch /\ served'.season >= served.season
<1>1. /\ marks \in Marks /\ clock \in Clock /\ served \in Periods
      /\ refused \in BOOLEAN /\ file = marks
      /\ served.epoch <= marks.epoch /\ served.season <= marks.season
  BY DEF MarksInv, TypeOK
<1>2. PICK f \in Faults :
        /\ marks' = MarksAfter(marks, clock, f)
        /\ file' = FileAfter(marks, file, clock, f)
        /\ \/ Throws(marks, clock, f) /\ UNCHANGED <<served, refused>>
           \/ ~Throws(marks, clock, f) /\ refused' = TRUE /\ UNCHANGED served
           \/ /\ ~Throws(marks, clock, f) /\ ~marks'.regressed
              /\ served' = [epoch |-> epochNow(clock), season |-> seasonNow(clock)]
              /\ UNCHANGED refused
        /\ UNCHANGED clock
  BY DEF Request, RequestWith
<1>3. /\ file' = marks' /\ marks'.epoch >= marks.epoch
      /\ marks'.season >= marks.season
      /\ ~marks'.regressed => /\ marks'.epoch = epochNow(clock)
                              /\ marks'.season = seasonNow(clock)
      /\ ~Throws(marks, clock, f)
  BY <1>1, <1>2, SoundObservation
<1>4. marks' \in Marks
  BY <1>1, <1>2, ObserveTypes
<1>5. /\ marks.epoch \in Int /\ marks'.epoch \in Int
      /\ marks.season \in Int /\ marks'.season \in Int
      /\ served.epoch \in Int /\ served.season \in Int
  BY <1>1, <1>4, MarkIsInt DEF Periods, NoMark, Epochs, Seasons
<1>6. CASE served' = served /\ refused' \in BOOLEAN
  BY <1>1, <1>2, <1>3, <1>4, <1>5, <1>6 DEF MarksInv, TypeOK
<1>7. CASE /\ ~marks'.regressed /\ refused' = refused
           /\ served' = [epoch |-> epochNow(clock), season |-> seasonNow(clock)]
  <2>1. served' \in Periods
    BY <1>1, <1>7, PeriodTypes DEF Periods
  <2>2. served'.epoch = marks'.epoch /\ served'.season = marks'.season
    BY <1>3, <1>7
  <2>3. QED
    BY <1>1, <1>2, <1>3, <1>4, <1>5, <1>7, <2>1, <2>2 DEF MarksInv, TypeOK
<1>8. QED
  BY <1>1, <1>2, <1>3, <1>6, <1>7

LEMMA ObserveEpochStep ==
  ASSUME SoundMarks, MarksInv, ObserveEpoch
  PROVE  MarksInv' /\ UNCHANGED served
<1>1. /\ marks \in Marks /\ clock \in Clock /\ served \in Periods
      /\ refused \in BOOLEAN /\ file = marks
      /\ served.epoch <= marks.epoch /\ served.season <= marks.season
  BY DEF MarksInv, TypeOK
<1>2. PICK f \in Faults :
        /\ marks' = ObservedEpoch(marks, clock)
        /\ file' = EpochFileAfter(marks, file, clock, f)
        /\ UNCHANGED <<clock, served, refused>>
  BY DEF ObserveEpoch
<1>3. /\ file' = marks' /\ marks'.epoch >= marks.epoch
      /\ marks'.season = marks.season
  BY <1>1, <1>2, SoundObservation
<1>4. marks' \in Marks
  BY <1>1, <1>2, ObservedTypes
<1>5. /\ marks.epoch \in Int /\ marks'.epoch \in Int
      /\ served.epoch \in Int
  BY <1>1, <1>4, MarkIsInt DEF Periods, NoMark, Epochs
<1>6. QED
  BY <1>1, <1>2, <1>3, <1>4, <1>5 DEF MarksInv, TypeOK

LEMMA MarksInvNext ==
  ASSUME SoundMarks, MarksInv, [Next]_vars
  PROVE  /\ MarksInv'
         /\ served'.epoch >= served.epoch /\ served'.season >= served.season
<1>1. served.epoch \in Int /\ served.season \in Int
  BY DEF MarksInv, TypeOK, Periods, NoMark, Epochs, Seasons
<1>2. CASE Request
  BY <1>2, RequestStep
<1>3. CASE ObserveEpoch
  BY <1>1, <1>3, ObserveEpochStep
<1>4. CASE Restart
  BY <1>1, <1>4 DEF Restart, Loaded, SoundMarks, MarksInv, TypeOK
<1>5. CASE SetClock
  BY <1>1, <1>5 DEF SetClock, MarksInv, TypeOK
<1>6. CASE UNCHANGED vars
  BY <1>1, <1>6 DEF vars, MarksInv, TypeOK
<1>7. QED
  BY <1>2, <1>3, <1>4, <1>5, <1>6 DEF Next

(* The marks in memory and in the file agree, and have reached every period
   a request was ever served in, after any number of restarts. *)
THEOREM MarksKeepUp == SoundMarks => (Spec => []MarksInv)
<1> SUFFICES ASSUME SoundMarks PROVE Spec => []MarksInv
  OBVIOUS
<1>1. MarksInv /\ [Next]_vars => MarksInv'
  BY MarksInvNext
<1>2. QED
  BY <1>1, MarksInvInit, PTL DEF Spec

(* No request is ever served in an epoch or season earlier than one already
   served, however the clock is set and the process restarted. *)
THEOREM NeverThePast == SoundMarks => (Spec => NeverServesThePast)
<1> SUFFICES ASSUME SoundMarks PROVE Spec => NeverServesThePast
  OBVIOUS
<1>1. MarksInv /\ [Next]_vars => MarksInv'
  BY MarksInvNext
<1>2. MarksInv /\ [Next]_vars =>
        [served'.epoch >= served.epoch /\ served'.season >= served.season]_vars
  BY MarksInvNext
<1>3. QED
  BY <1>1, <1>2, MarksInvInit, PTL DEF Spec, NeverServesThePast

(* A regression that a client was told of is in the file and stays there, so
   no restart resumes silently. *)
THEOREM RefusalIsDurable == SoundMarks => (Spec => []RefusalOutlivesRestart)
<1> SUFFICES ASSUME SoundMarks PROVE Spec => []RefusalOutlivesRestart
  OBVIOUS
<1>1. MarksInv /\ [Next]_vars => MarksInv'
  BY MarksInvNext
<1>2. ASSUME MarksInv, RefusalOutlivesRestart, [Next]_vars
      PROVE  RefusalOutlivesRestart'
  <2>1. /\ marks \in Marks /\ clock \in Clock /\ file = marks
        /\ refused => marks.regressed
    BY <1>2 DEF MarksInv, TypeOK, RefusalOutlivesRestart
  <2>2. CASE Request
    <3>1. PICK f \in Faults :
            /\ marks' = MarksAfter(marks, clock, f)
            /\ file' = FileAfter(marks, file, clock, f)
            /\ refused' = refused \/ marks'.regressed
      BY <2>2 DEF Request, RequestWith
    <3>2. file' = marks' /\ (marks.regressed => marks'.regressed)
      BY <2>1, <3>1, SoundObservation
    <3>3. QED
      BY <2>1, <3>1, <3>2 DEF RefusalOutlivesRestart
  <2>3. CASE ObserveEpoch
    <3>1. PICK f \in Faults :
            /\ marks' = ObservedEpoch(marks, clock)
            /\ file' = EpochFileAfter(marks, file, clock, f)
            /\ refused' = refused
      BY <2>3 DEF ObserveEpoch
    <3>2. file' = marks' /\ (marks.regressed => marks'.regressed)
      BY <2>1, <3>1, SoundObservation
    <3>3. QED
      BY <2>1, <3>1, <3>2 DEF RefusalOutlivesRestart
  <2>4. CASE Restart \/ SetClock \/ UNCHANGED vars
    BY <1>2, <2>4 DEF Restart, SetClock, vars, RefusalOutlivesRestart
  <2>5. QED
    BY <1>2, <2>2, <2>3, <2>4 DEF Next
<1>3. Init => RefusalOutlivesRestart
  BY DEF Init, RefusalOutlivesRestart
<1>4. QED
  BY <1>1, <1>2, <1>3, MarksInvInit, PTL DEF Spec

------------------------------------------------------------------------------
(* The clock guard inside the server. *)

(* Every step of the server is a step of the clock guard, or none. *)
LEMMA ServerStepIsGuarded == [ServerNext]_serverVars => [Next]_vars
<1> SUFFICES ASSUME [ServerNext]_serverVars PROVE [Next]_vars
  OBVIOUS
<1> USE DEF guardVars, vars
<1>1. CASE ClockSet
  BY <1>1 DEF ClockSet, Next
<1>2. CASE StartAgain
  BY <1>2 DEF StartAgain, Next
<1>3. CASE OpenStore \/ BootFails \/ ChecksPass
  BY <1>3 DEF OpenStore, BootFails, ChecksPass
<1>4. CASE BootEnds \/ PruneTimer
  BY <1>4 DEF BootEnds, PruneTimer, Next
<1>5. CASE RefreshTimer \/ RefreshEnds \/ sweepLimiters
  BY <1>5 DEF RefreshTimer, RefreshEnds, sweepLimiters
<1>6. ASSUME NEW r \in Requests,
             Connect(r) \/ Disconnect(r) \/ HandlerStep(r)
      PROVE  UNCHANGED vars
  BY <1>6 DEF Connect, Disconnect, HandlerStep, BodyFails, BodyArrives, Finish
<1>7. ASSUME NEW r \in Requests, Arrive(r)
      PROVE  Request
  BY <1>7 DEF Arrive, Request
<1>8. CASE listen \/ BindEnds \/ close \/ TeardownStep
  BY <1>8 DEF listen, BindEnds, close, TeardownStep, RefreshAwaited,
     ListenAwaited, ConnectionsEnded, Drained, Release, CloseSettles, closeMoves
<1>9. CASE UNCHANGED serverVars
  BY <1>9 DEF serverVars
<1>10. QED
  BY <1>1, <1>2, <1>3, <1>4, <1>5, <1>6, <1>7, <1>8, <1>9 DEF ServerNext, Next

(* The server implements the clock guard: whatever its boot, its timers, its
   connections and its teardown do, an observer of the clock and the marks
   sees TimeGuard's observations and restarts. *)
THEOREM ServerIsGuarded == ServerSpec => Spec
<1>1. ServerInit => Init
  BY DEF ServerInit
<1>2. QED
  BY <1>1, ServerStepIsGuarded, PTL DEF ServerSpec, Spec

(* A client of the server is never served in an epoch or season earlier than
   one that was already served, across boots, closes and clock steps. *)
THEOREM ServerNeverServesThePast == SoundMarks => (ServerSpec => NeverServesThePast)
  BY ServerIsGuarded, NeverThePast

(* A regression the server told a client of is in the marks file, so starting
   the gateway again does not clear it. *)
THEOREM ServerRefusalIsDurable ==
  SoundMarks => (ServerSpec => []RefusalOutlivesRestart)
  BY ServerIsGuarded, RefusalIsDurable

------------------------------------------------------------------------------
(* The life of the process. *)

Busy == {r \in Requests : Handling(r)}

ListInv == releases \in Seq({"timers", "nullifiers"})

Stored == "nullifiers" \in ToSet(releases)

NoConnection == \A r \in Requests : conn[r] # "open"

LifeType ==
  /\ phase \in {"opening", "checking", "refreshing", "up", "failed"}
  /\ refreshing \in BOOLEAN
  /\ socket \in {"none", "binding", "listening"}
  /\ closing \in {"no", "refresh", "bind", "socket", "drain", "release", "settled"}
  /\ conn \in [Requests -> {"none", "open", "over"}]
  /\ pc \in [Requests -> {"idle", "body", "work", "done"}]

(* The count is of the handlers that run. *)
CountInv == IsFiniteSet(Busy) /\ inFlight = Cardinality(Busy)

(* What is held in each phase: before the gateway is up nothing runs but the
   boot and its first refresh; the store is held from its opening until the
   boot fails or the teardown comes to the releases. *)
HoldingInv ==
  /\ phase \in {"checking", "refreshing"} => Stored
  /\ phase = "failed" => releases = <<>>
  /\ phase # "up" => /\ closing = "no" /\ socket = "none"
                     /\ NoConnection /\ Busy = {}
                     /\ refreshing => phase = "refreshing"
  /\ phase = "up" /\ closing \notin {"release", "settled"}
       => Stored
  /\ closing = "settled" => releases = <<>>

(* What each stage of the teardown has waited for. *)
StagesInv ==
  /\ closing \notin {"no", "refresh"} => ~refreshing
  /\ closing \in {"socket", "drain", "release", "settled"} => socket = "none"
  /\ socket # "listening" /\ closing # "socket" => NoConnection
  /\ closing \in {"release", "settled"} => Busy = {}

LifeInv == LifeType /\ ListInv /\ CountInv /\ HoldingInv /\ StagesInv

LEMMA ListTypes ==
  /\ <<"timers">> \in Seq({"timers", "nullifiers"})
  /\ <<>> \in Seq({"timers", "nullifiers"})
  OBVIOUS

LEMMA LifeInit == ServerInit => LifeInv
<1> SUFFICES ASSUME ServerInit PROVE LifeInv
  OBVIOUS
<1>1. Busy = {} /\ NoConnection
  BY DEF ServerInit, Busy, Handling, NoConnection
<1>2. CountInv
  BY <1>1, FS_EmptySet DEF ServerInit, CountInv
<1>3. LifeType /\ ListInv
  BY ListTypes DEF ServerInit, LifeType, ListInv
<1>4. QED
  BY <1>1, <1>2, <1>3 DEF ServerInit, LifeInv, HoldingInv, StagesInv

(* A request begins to be handled, or ceases to. *)
LEMMA CountEnters ==
  ASSUME LifeType, CountInv, NEW r \in Requests, pc[r] = "idle",
         NEW to \in {"body", "done"}, Enter(r, to)
  PROVE  CountInv' /\ Busy' \subseteq Busy \cup {r}
<1>1. CASE to = "done"
  <2>1. Busy' = Busy /\ inFlight' = inFlight
    BY <1>1 DEF Enter, LifeType, Busy, Handling
  <2>2. QED
    BY <2>1 DEF CountInv
<1>2. CASE to = "body"
  <2>1. /\ Busy' = Busy \cup {r} /\ r \notin Busy
        /\ inFlight' = inFlight + 1
    BY <1>2 DEF Enter, LifeType, Busy, Handling
  <2>2. QED
    BY <2>1, FS_AddElement DEF CountInv
<1>3. QED
  BY <1>1, <1>2

LEMMA CountLeaves ==
  ASSUME LifeType, CountInv, NEW r \in Requests, Handling(r), Leave(r)
  PROVE  CountInv' /\ Busy' = Busy \ {r}
<1>1. /\ Busy' = Busy \ {r} /\ r \in Busy /\ inFlight' = inFlight - 1
  BY DEF Leave, LifeType, Busy, Handling
<1>2. QED
  BY <1>1, FS_RemoveElement DEF CountInv

(* A step of the handlers alone: it needs a gateway that is up and has not
   come to its releases, and leaves the rest of its life as it is. *)
LEMMA HandlersOnly ==
  ASSUME LifeInv, UNCHANGED <<lifeVars, conn>>, CountInv',
         pc' \in [Requests -> {"idle", "body", "work", "done"}],
         Busy' \subseteq Busy \/ (phase = "up" /\ closing \notin {"release", "settled"})
  PROVE  LifeInv'
<1>1. /\ NoConnection' <=> NoConnection
      /\ Stored' <=> Stored
      /\ ListInv' <=> ListInv
  BY DEF NoConnection, Stored, ListInv, lifeVars
<1>2. QED
  BY <1>1 DEF LifeInv, LifeType, HoldingInv, StagesInv, lifeVars

(* A step that leaves the requests and their connections as they are. *)
LEMMA LifeOnly ==
  ASSUME LifeInv, UNCHANGED requestVars
  PROVE  /\ CountInv' /\ Busy' = Busy /\ (NoConnection' <=> NoConnection)
         /\ conn' = conn /\ pc' = pc
  BY DEF LifeInv, CountInv, Busy, Handling, NoConnection, requestVars

LEMMA LifeNext == LifeInv /\ [ServerNext]_serverVars => LifeInv'
<1> SUFFICES ASSUME LifeInv, [ServerNext]_serverVars PROVE LifeInv'
  OBVIOUS
<1> USE DEF LifeInv
<1>r. releases' = releases => (Stored' <=> Stored) /\ (ListInv' <=> ListInv)
  BY DEF Stored, ListInv
<1>1. CASE StartAgain
  <2>1. Busy' = {} /\ NoConnection' /\ inFlight' = 0
    BY <1>1 DEF StartAgain, Fresh, Busy, Handling, NoConnection
  <2>2. CountInv'
    BY <2>1, FS_EmptySet DEF CountInv
  <2>3. LifeType' /\ ListInv'
    BY <1>1, ListTypes DEF StartAgain, Fresh, LifeType, ListInv
  <2>4. QED
    BY <1>1, <2>1, <2>2, <2>3 DEF StartAgain, Fresh, HoldingInv, StagesInv
<1>2. CASE \/ OpenStore \/ BootFails \/ ChecksPass \/ BootEnds
           \/ RefreshTimer \/ RefreshEnds \/ listen \/ BindEnds \/ close
           \/ RefreshAwaited \/ ListenAwaited \/ Drained \/ Release \/ CloseSettles
  <2>1. UNCHANGED requestVars
    BY <1>2 DEF OpenStore, BootFails, ChecksPass, BootEnds, RefreshTimer,
       RefreshEnds, listen, BindEnds, close, RefreshAwaited, ListenAwaited,
       Drained, Release, CloseSettles, closeMoves
  <2>2. /\ CountInv' /\ Busy' = Busy /\ (NoConnection' <=> NoConnection)
        /\ conn' = conn /\ pc' = pc
    BY <2>1, LifeOnly
  <2>3. CASE OpenStore \/ BootFails \/ ChecksPass \/ BootEnds
    <3>1. OpenStore => Stored' /\ ListInv'
      <4>1. ASSUME OpenStore
            PROVE  /\ releases' \in Seq({"timers", "nullifiers"})
                   /\ Len(releases) + 1 \in DOMAIN releases'
                   /\ releases'[Len(releases) + 1] = "nullifiers"
        BY <4>1 DEF OpenStore, ListInv
      <4>2. QED
        BY <4>1 DEF Stored, ListInv, ToSet
    <3>o. CASE OpenStore
      BY <2>2, <3>1, <3>o DEF OpenStore, LifeType, HoldingInv, StagesInv
    <3>2. CASE BootFails
      BY <2>2, <3>2, ListTypes DEF BootFails, LifeType, ListInv, HoldingInv,
         StagesInv
    <3>3. CASE ChecksPass \/ BootEnds
      BY <1>r, <2>2, <3>3 DEF ChecksPass, BootEnds, LifeType, HoldingInv,
         StagesInv
    <3>4. QED
      BY <2>3, <3>o, <3>2, <3>3
  <2>4. CASE RefreshTimer \/ RefreshEnds \/ listen \/ BindEnds
    <3>1. /\ phase = "up" /\ phase' = "up"
          /\ UNCHANGED <<releases, closing>>
      BY <2>4 DEF RefreshTimer, TimersRun, RefreshEnds, listen, BindEnds,
         HoldingInv, LifeType
    <3>2. CASE RefreshTimer \/ RefreshEnds
      BY <1>r, <2>2, <3>1, <3>2 DEF RefreshTimer, RefreshEnds, closed, LifeType,
         HoldingInv, StagesInv
    <3>3. CASE listen \/ BindEnds
      BY <1>r, <2>2, <3>1, <3>3 DEF listen, BindEnds, closed, LifeType, HoldingInv,
         StagesInv
    <3>4. QED
      BY <2>4, <3>2, <3>3
  <2>5. CASE close \/ RefreshAwaited \/ ListenAwaited \/ CloseSettles
    <3>1. phase = "up" /\ UNCHANGED <<phase, refreshing>>
      BY <2>5 DEF close, RefreshAwaited, ListenAwaited, CloseSettles,
         closeMoves, HoldingInv, LifeType
    <3>2. LifeType' /\ ListInv' /\ HoldingInv' /\ StagesInv'
      BY <1>r, <2>2, <2>5, <3>1 DEF close, RefreshAwaited, ListenAwaited,
         CloseSettles, closeMoves, LifeType, HoldingInv, StagesInv
    <3>3. QED
      BY <2>2, <3>2
  <2>6. CASE Drained
    <3>1. Busy = {}
      BY <2>6, FS_EmptySet DEF Drained, CountInv
    <3>2. phase = "up" /\ UNCHANGED <<phase, refreshing>>
      BY <2>6 DEF Drained, closeMoves, HoldingInv, LifeType
    <3>3. LifeType' /\ ListInv' /\ HoldingInv' /\ StagesInv'
      BY <1>r, <2>2, <2>6, <3>1, <3>2 DEF Drained, closeMoves, LifeType, HoldingInv,
         StagesInv
    <3>4. QED
      BY <2>2, <3>3
  <2>7. CASE Release
    <3>1. /\ closing = "release" /\ closing' = "release"
          /\ UNCHANGED <<phase, refreshing, socket>>
      BY <2>7 DEF Release, closeMoves
    <3>2. phase = "up"
      BY <3>1 DEF HoldingInv, LifeType
    <3>l. ListInv'
      BY <2>7 DEF Release, ListInv, Front
    <3>3. LifeType' /\ ListInv' /\ HoldingInv' /\ StagesInv'
      BY <2>2, <3>1, <3>2, <3>l DEF LifeType, HoldingInv, StagesInv
    <3>4. QED
      BY <2>2, <3>3
  <2>8. QED
    BY <1>2, <2>3, <2>4, <2>5, <2>6, <2>7
<1>3. CASE ClockSet \/ PruneTimer \/ sweepLimiters \/ UNCHANGED serverVars
  <2>1. UNCHANGED <<lifeVars, requestVars>>
    BY <1>3 DEF ClockSet, PruneTimer, sweepLimiters, serverVars
  <2>2. /\ CountInv' /\ Busy' = Busy /\ (NoConnection' <=> NoConnection)
        /\ conn' = conn /\ pc' = pc
    BY <2>1, LifeOnly
  <2>3. QED
    BY <1>r, <2>1, <2>2 DEF LifeType, HoldingInv, StagesInv, lifeVars
<1>4. ASSUME NEW r \in Requests, Connect(r) \/ Disconnect(r)
      PROVE  LifeInv'
  <2>1. UNCHANGED <<lifeVars, pc, inFlight>>
    BY <1>4 DEF Connect, Disconnect
  <2>2. Busy' = Busy /\ CountInv'
    BY <2>1 DEF Busy, Handling, CountInv
  <2>3. LifeType'
    BY <1>4, <2>1 DEF Connect, Disconnect, LifeType, lifeVars
  <2>4. NoConnection => NoConnection' \/ socket = "listening"
    BY <1>4 DEF Connect, Disconnect, NoConnection, LifeType
  <2>5. QED
    BY <1>r, <2>1, <2>2, <2>3, <2>4 DEF lifeVars, HoldingInv, StagesInv, LifeType
<1>5. ASSUME NEW r \in Requests, Arrive(r)
      PROVE  LifeInv'
  <2>1. PICK to \in {"body", "done"} : Enter(r, to)
    BY <1>5 DEF Arrive
  <2>2. /\ pc[r] = "idle" /\ ~NoConnection
        /\ UNCHANGED <<lifeVars, conn>>
    BY <1>5 DEF Arrive, NoConnection
  <2>3. CountInv' /\ pc' \in [Requests -> {"idle", "body", "work", "done"}]
    BY <2>1, <2>2, CountEnters DEF Enter, LifeType
  <2>4. phase = "up" /\ closing \notin {"release", "settled"}
    BY <2>2 DEF HoldingInv, StagesInv, LifeType
  <2>5. QED
    BY <2>2, <2>3, <2>4, HandlersOnly
<1>6. ASSUME NEW r \in Requests, HandlerStep(r)
      PROVE  LifeInv'
  <2>1. Handling(r) /\ UNCHANGED <<lifeVars, conn>>
    BY <1>6 DEF HandlerStep, BodyFails, BodyArrives, Finish, Handling
  <2>2. CASE Leave(r)
    <3>1. CountInv' /\ Busy' \subseteq Busy
      BY <2>1, <2>2, CountLeaves
    <3>2. pc' \in [Requests -> {"idle", "body", "work", "done"}]
      BY <2>2 DEF Leave, LifeType
    <3>3. QED
      BY <2>1, <3>1, <3>2, HandlersOnly
  <2>3. CASE pc' = [pc EXCEPT ![r] = "work"] /\ UNCHANGED inFlight
    <3>1. Busy' = Busy
      BY <2>1, <2>3 DEF Busy, Handling, LifeType
    <3>2. CountInv' /\ pc' \in [Requests -> {"idle", "body", "work", "done"}]
      BY <2>3, <3>1 DEF CountInv, LifeType
    <3>3. QED
      BY <2>1, <3>1, <3>2, HandlersOnly
  <2>4. QED
    BY <1>6, <2>2, <2>3 DEF HandlerStep, BodyFails, BodyArrives, Finish
<1>7. CASE ConnectionsEnded
  <2>1. /\ NoConnection /\ UNCHANGED <<requestVars, releases, socket, phase, refreshing>>
        /\ closing = "socket" /\ closing' = "drain"
    BY <1>7 DEF ConnectionsEnded, closeMoves, NoConnection
  <2>2. /\ CountInv' /\ Busy' = Busy /\ (NoConnection' <=> NoConnection)
        /\ conn' = conn /\ pc' = pc
    BY <2>1, LifeOnly
  <2>3. QED
    BY <1>r, <2>1, <2>2 DEF LifeType, HoldingInv, StagesInv
<1>8. QED
  BY <1>1, <1>2, <1>3, <1>4, <1>5, <1>6, <1>7 DEF ServerNext, TeardownStep

(* No handler and no refresh ever works on a store that was given back, and
   nothing outlives a close() that settled or a boot that failed, for any
   number of requests and any interleaving of clients, timers, binds and
   teardown. *)
THEOREM TeardownStaysSafe == ServerSpec => []TeardownIsSafe
<1>1. LifeInv => TeardownIsSafe
  <2> SUFFICES ASSUME LifeInv PROVE TeardownIsSafe
    OBVIOUS
  <2>2. \A r \in Requests : Handling(r) => Busy # {}
    BY DEF Busy
  <2>3. WorkHasItsStores
    BY <2>2 DEF LifeInv, LifeType, HoldingInv, StagesInv, Stored,
       WorkHasItsStores
  <2>4. NothingIsLeft
    BY <2>2 DEF LifeInv, LifeType, HoldingInv, StagesInv, NothingIsLeft,
       NoConnection
  <2>5. QED
    BY <2>3, <2>4 DEF TeardownIsSafe
<1>2. QED
  BY <1>1, LifeInit, LifeNext, PTL DEF ServerSpec

------------------------------------------------------------------------------
(* The tables of the limiters: a key has one window, a sweep and an eviction
   only take windows away, a charge adds one to one window.               *)

(* A set of naturals has a least element. *)
LEMMA NatMin ==
  ASSUME NEW S \in SUBSET Nat, S # {}
  PROVE  \E m \in S : \A n \in S : m <= n
<1> DEFINE R == {ss \in Nat \X Nat : ss[1] < ss[2]}
<1>1. IsWellFoundedOn(R, Nat)
  BY NatLessThanWellFounded DEF OpToRel
<1>2. PICK m \in S : \A n \in S : <<n, m>> \notin R
  BY <1>1, WFMin
<1>3. ASSUME NEW n \in S PROVE m <= n
  <2>1. ~(n < m)
    BY <1>2, <1>3
  <2>2. QED
    BY <2>1
<1>4. QED
  BY <1>3

(* What is true of 0 and of every successor is true up to N. *)
LEMMA UpTo ==
  ASSUME NEW N \in Nat, NEW S, 0 \in S,
         \A n \in 0 .. N : n \in S /\ n < N => n + 1 \in S
  PROVE  \A n \in 0 .. N : n \in S
<1> DEFINE T == {n \in 0 .. N : n \notin S}
<1>1. SUFFICES ASSUME T # {} PROVE FALSE
  OBVIOUS
<1>2. PICK x \in T : \A y \in T : x <= y
  <2>1. T \in SUBSET Nat
    OBVIOUS
  <2>2. QED
    BY <1>1, <2>1, NatMin
<1>3. x \in 0 .. N /\ x \notin S /\ x # 0
  OBVIOUS
<1>4. x - 1 \in 0 .. N /\ x - 1 < N /\ (x - 1) + 1 = x
  BY <1>3
<1>5. x - 1 \notin T
  BY <1>2, <1>3
<1>6. QED
  BY <1>3, <1>4, <1>5

(* The equation of KeptUpTo, over the first m elements. *)
IsKept(k, ss, I, m) ==
  k = [n \in 0 .. m |->
         IF n = 0 THEN <<>>
         ELSE IF n \in I THEN Append(k[n - 1], ss[n]) ELSE k[n - 1]]

LEMMA KeptExists ==
  ASSUME NEW ss, Len(ss) \in Nat, NEW I
  PROVE  \E k : IsKept(k, ss, I, Len(ss))
<1> DEFINE S == {m \in 0 .. Len(ss) : \E k : IsKept(k, ss, I, m)}
<1>1. 0 \in S
  <2> DEFINE z == [n \in 0 .. 0 |-> <<>>]
  <2>1. IsKept(z, ss, I, 0)
    BY DEF IsKept
  <2>2. QED
    BY <2>1
<1>2. ASSUME NEW m \in 0 .. Len(ss), m \in S, m < Len(ss)
      PROVE  m + 1 \in S
  <2>1. PICK k : IsKept(k, ss, I, m)
    BY <1>2
  <2> DEFINE e == IF m + 1 \in I THEN Append(k[m], ss[m + 1]) ELSE k[m]
             z == [n \in 0 .. m + 1 |-> IF n = m + 1 THEN e ELSE k[n]]
             f(n) == IF n = 0 THEN <<>>
                     ELSE IF n \in I THEN Append(z[n - 1], ss[n]) ELSE z[n - 1]
  <2>2. ASSUME NEW n \in 0 .. m + 1 PROVE z[n] = f(n)
    <3>1. CASE n = m + 1
      <4>1. z[n] = e /\ n # 0 /\ n - 1 = m /\ z[n - 1] = k[m]
        BY <3>1
      <4>2. QED
        BY <3>1, <4>1
    <3>2. CASE n # m + 1
      <4>1. n \in 0 .. m /\ z[n] = k[n]
        BY <3>2
      <4>2. n # 0 => z[n - 1] = k[n - 1]
        BY <4>1
      <4>3. k[n] = IF n = 0 THEN <<>>
                   ELSE IF n \in I THEN Append(k[n - 1], ss[n]) ELSE k[n - 1]
        BY <2>1, <4>1 DEF IsKept
      <4>4. QED
        BY <4>1, <4>2, <4>3
    <3>3. QED
      BY <3>1, <3>2
  <2>3. z = [n \in 0 .. m + 1 |-> f(n)]
    <3> DEFINE g == [n \in 0 .. m + 1 |-> f(n)]
    <3>1. DOMAIN z = 0 .. m + 1 /\ DOMAIN g = 0 .. m + 1
      OBVIOUS
    <3>2. \A n \in 0 .. m + 1 : g[n] = f(n)
      OBVIOUS
    <3> HIDE DEF f, e
    <3>3. \A n \in 0 .. m + 1 : z[n] = g[n]
      BY <2>2, <3>2
    <3>4. QED
      BY <3>1, <3>3
  <2> HIDE DEF e
  <2>4. IsKept(z, ss, I, m + 1)
    BY <2>3 DEF IsKept
  <2>5. QED
    BY <1>2, <2>4
<1>3. Len(ss) \in S
  <2> HIDE DEF S
  <2>1. Len(ss) \in 0 .. Len(ss)
    OBVIOUS
  <2>2. QED
    BY <1>1, <1>2, <2>1, UpTo
<1>4. QED
  BY <1>3

LEMMA KeptEquation ==
  ASSUME NEW ss, Len(ss) \in Nat, NEW I
  PROVE  IsKept(KeptUpTo(ss, I), ss, I, Len(ss))
<1>1. \E k : IsKept(k, ss, I, Len(ss))
  BY KeptExists
<1>2. QED
  BY <1>1, Zenon DEF KeptUpTo, IsKept

Windows(K) == [key : K, count : Nat, reset : Int]

UniqueKeys(t) == \A i, j \in DOMAIN t : t[i].key = t[j].key => i = j

Table(t, K) == t \in Seq(Windows(K)) /\ UniqueKeys(t)

(* What the sweep has kept of the first n windows. *)
Sifted(k, hits, n, K) ==
  Table(k, K) /\ \A j \in DOMAIN k : \E i \in 1 .. n : k[j] = hits[i]

LEMMA SiftTakes ==
  ASSUME NEW K, NEW hits, Table(hits, K), NEW n \in 1 .. Len(hits),
         NEW k, Sifted(k, hits, n - 1, K)
  PROVE  Sifted(Append(k, hits[n]), hits, n, K)
<1> DEFINE z == Append(k, hits[n])
<1>1. /\ k \in Seq(Windows(K)) /\ hits \in Seq(Windows(K)) /\ hits[n] \in Windows(K)
      /\ DOMAIN hits = 1 .. Len(hits) /\ Len(hits) \in Nat
  BY DEF Sifted, Table
<1>2. /\ z \in Seq(Windows(K)) /\ DOMAIN z = 1 .. Len(k) + 1 /\ Len(k) \in Nat
      /\ z[Len(k) + 1] = hits[n] /\ DOMAIN k = 1 .. Len(k)
      /\ \A j \in 1 .. Len(k) : z[j] = k[j]
  BY <1>1
<1> HIDE DEF z
<1>3. ASSUME NEW j \in DOMAIN z
      PROVE  /\ \E i \in 1 .. n : z[j] = hits[i]
             /\ j # Len(k) + 1 => j \in DOMAIN k /\ z[j] = k[j]
                                    /\ \E i \in 1 .. n - 1 : z[j] = hits[i]
  <2>1. CASE j = Len(k) + 1
    BY <1>2, <2>1
  <2>2. CASE j # Len(k) + 1
    <3>1. j \in DOMAIN k /\ z[j] = k[j]
      BY <1>2, <2>2
    <3>2. PICK i \in 1 .. n - 1 : z[j] = hits[i]
      BY <3>1 DEF Sifted
    <3>3. i \in 1 .. n
      BY <3>2
    <3>4. QED
      BY <2>2, <3>1, <3>2, <3>3
  <2>3. QED
    BY <2>1, <2>2
<1>4. ASSUME NEW j \in DOMAIN k PROVE k[j].key # hits[n].key
  <2>1. PICK i \in 1 .. n - 1 : k[j] = hits[i]
    BY DEF Sifted
  <2>2. i \in DOMAIN hits /\ n \in DOMAIN hits /\ i # n
    BY <1>1, <2>1
  <2>3. QED
    BY <2>1, <2>2 DEF Table, UniqueKeys
<1>5. UniqueKeys(z)
  <2> SUFFICES ASSUME NEW i \in DOMAIN z, NEW j \in DOMAIN z, z[i].key = z[j].key
               PROVE  i = j
    BY DEF UniqueKeys
  <2>1. CASE i = Len(k) + 1 /\ j # Len(k) + 1
    BY <1>2, <1>3, <1>4, <2>1
  <2>2. CASE i # Len(k) + 1 /\ j = Len(k) + 1
    BY <1>2, <1>3, <1>4, <2>2
  <2>3. CASE i # Len(k) + 1 /\ j # Len(k) + 1
    BY <1>3, <2>3 DEF Sifted, Table, UniqueKeys
  <2>4. QED
    BY <2>1, <2>2, <2>3
<1>6. Sifted(z, hits, n, K)
  BY <1>2, <1>3, <1>5 DEF Sifted, Table
<1>7. QED
  BY <1>6 DEF z

LEMMA SiftSkips ==
  ASSUME NEW K, NEW hits, NEW n \in Nat \ {0}, NEW k, Sifted(k, hits, n - 1, K)
  PROVE  Sifted(k, hits, n, K)
<1>1. \A i \in 1 .. n - 1 : i \in 1 .. n
  OBVIOUS
<1>2. QED
  BY <1>1 DEF Sifted

LEMMA KeptIsSifted ==
  ASSUME NEW K, NEW hits, Table(hits, K), NEW I
  PROVE  Sifted(Kept(hits, I), hits, Len(hits), K)
<1> DEFINE F == KeptUpTo(hits, I)
           S == {n \in 0 .. Len(hits) : Sifted(F[n], hits, n, K)}
<1>1. Len(hits) \in Nat
  BY DEF Table
<1>2. IsKept(F, hits, I, Len(hits))
  BY <1>1, KeptEquation
<1> HIDE DEF F
<1>3. /\ F[0] = <<>>
      /\ \A n \in 1 .. Len(hits) :
           F[n] = IF n \in I THEN Append(F[n - 1], hits[n]) ELSE F[n - 1]
  <2> DEFINE f(n) == IF n = 0 THEN <<>>
                     ELSE IF n \in I THEN Append(F[n - 1], hits[n]) ELSE F[n - 1]
  <2>1. F = [n \in 0 .. Len(hits) |-> f(n)]
    BY <1>2 DEF IsKept
  <2>2. \A n \in 0 .. Len(hits) : F[n] = f(n)
    <3> HIDE DEF f
    <3>1. QED
      BY <2>1, Zenon
  <2>3. 0 \in 0 .. Len(hits)
        /\ \A n \in 1 .. Len(hits) : n \in 0 .. Len(hits) /\ n # 0
    BY <1>1
  <2>4. F[0] = f(0) /\ \A n \in 1 .. Len(hits) : F[n] = f(n) /\ n # 0
    BY <2>2, <2>3
  <2>5. QED
    BY <2>4
<1>4. 0 \in S
  <2>1. <<>> \in Seq(Windows(K)) /\ DOMAIN <<>> = {}
    OBVIOUS
  <2>2. Sifted(<<>>, hits, 0, K)
    BY <2>1 DEF Sifted, Table, UniqueKeys
  <2>3. QED
    BY <1>1, <1>3, <2>2
<1>5. ASSUME NEW n \in 0 .. Len(hits), n \in S, n < Len(hits)
      PROVE  n + 1 \in S
  <2>1. /\ n + 1 \in 1 .. Len(hits) /\ n + 1 \in Nat \ {0} /\ (n + 1) - 1 = n
        /\ Sifted(F[n], hits, n, K)
    BY <1>1, <1>5
  <2>2. F[n + 1] = IF n + 1 \in I THEN Append(F[n], hits[n + 1]) ELSE F[n]
    BY <1>3, <2>1
  <2>3. Sifted(F[n + 1], hits, n + 1, K)
    <3>1. CASE n + 1 \in I
      BY <2>1, <2>2, <3>1, SiftTakes
    <3>2. CASE n + 1 \notin I
      BY <2>1, <2>2, <3>2, SiftSkips
    <3>3. QED
      BY <3>1, <3>2
  <2>4. QED
    BY <1>1, <2>1, <2>3
<1>6. Len(hits) \in S
  <2> HIDE DEF S
  <2>1. Len(hits) \in 0 .. Len(hits)
    BY <1>1
  <2>2. QED
    BY <1>1, <1>4, <1>5, <2>1, UpTo
<1>7. QED
  BY <1>6 DEF Kept, F

(* A sweep and an eviction leave a table of windows it had before. *)
Remains(t, hits, K) == Table(t, K) /\ \A j \in DOMAIN t : \E i \in DOMAIN hits : t[j] = hits[i]

LEMMA SweptRemains ==
  ASSUME NEW K, NEW hits, Table(hits, K), NEW now
  PROVE  Remains(Swept(hits, now), hits, K)
<1>1. Sifted(Swept(hits, now), hits, Len(hits), K)
  BY KeptIsSifted DEF Swept
<1>2. DOMAIN hits = 1 .. Len(hits)
  BY DEF Table
<1>3. QED
  BY <1>1, <1>2 DEF Sifted, Remains

LEMMA RoomRemains ==
  ASSUME LimiterAssumption, NEW K, NEW hits, Table(hits, K), NEW now
  PROVE  Remains(WithRoom(hits, now), hits, K)
<1>1. CASE Len(hits) < MaxKeys
  BY <1>1 DEF WithRoom, Remains
<1>2. CASE ~(Len(hits) < MaxKeys)
  <2> DEFINE live == Swept(hits, now)
             a == IF Len(live) < MaxKeys THEN 1 ELSE Len(live) - MaxKeys + 2
             t == SubSeq(live, a, Len(live))
  <2>1. Remains(live, hits, K)
    BY SweptRemains
  <2>2. WithRoom(hits, now) = t
    BY <1>2 DEF WithRoom
  <2> HIDE DEF live
  <2>3. /\ live \in Seq(Windows(K)) /\ Len(live) \in Nat /\ DOMAIN live = 1 .. Len(live)
        /\ a \in Nat \ {0}
    BY <2>1 DEF Remains, Table, LimiterAssumption
  <2> HIDE DEF a
  <2>4. /\ t \in Seq(Windows(K))
        /\ \A j \in DOMAIN t : a + j - 1 \in DOMAIN live /\ t[j] = live[a + j - 1] /\ j \in Nat
    BY <2>3
  <2> HIDE DEF t
  <2>5. UniqueKeys(t)
    <3> SUFFICES ASSUME NEW i \in DOMAIN t, NEW j \in DOMAIN t, t[i].key = t[j].key
                 PROVE  i = j
      BY DEF UniqueKeys
    <3>1. a + i - 1 = a + j - 1
      BY <2>1, <2>4 DEF Remains, Table, UniqueKeys
    <3>2. i \in Nat /\ j \in Nat /\ a \in Nat
      BY <2>3, <2>4
    <3>3. QED
      BY <3>1, <3>2
  <2>6. QED
    BY <2>1, <2>2, <2>4, <2>5 DEF Remains, Table
<1>3. QED
  BY <1>1, <1>2

(* A charge opens one window with one request, or adds one to the window of the
   key; the others are as they were. *)
ChargedOnce(t, hits, key, K) ==
  /\ Table(t, K)
  /\ \E e \in DOMAIN t :
       /\ t[e].key = key /\ WindowOf(t, key) = t[e]
       /\ \/ t[e].count = 1
          \/ \E i \in DOMAIN hits : /\ hits[i].key = key /\ hits[i].reset = t[e].reset
                                    /\ t[e].count = hits[i].count + 1
  /\ \A j \in DOMAIN t : t[j].key # key => \E i \in DOMAIN hits : t[j] = hits[i]

LEMMA WindowIs ==
  ASSUME NEW t, UniqueKeys(t), NEW e \in DOMAIN t
  PROVE  WindowOf(t, t[e].key) = t[e]
<1>1. Places(t, t[e].key) = {e}
  BY DEF Places, UniqueKeys
<1>2. QED
  BY <1>1 DEF WindowOf

LEMMA ChargeIsOne ==
  ASSUME LimiterAssumption, NEW K, NEW hits, Table(hits, K),
         NEW key \in K, NEW now \in Int
  PROVE  ChargedOnce(Charged(hits, key, now), hits, key, K)
<1> DEFINE opened == [key |-> key, count |-> 1, reset |-> now + WindowTicks]
           t == Charged(hits, key, now)
<1>1. opened \in Windows(K) /\ opened.key = key /\ opened.count = 1
  BY DEF Windows, LimiterAssumption
<1>2. hits \in Seq(Windows(K)) /\ DOMAIN hits = 1 .. Len(hits) /\ Len(hits) \in Nat
  BY DEF Table
<1>3. CASE Tracked(hits, key)
  <2> DEFINE added(x) == [x EXCEPT !.count = @ + 1]
             new(x) == IF x.key # key THEN x
                       ELSE IF now > x.reset THEN opened ELSE added(x)
  <2>1. t = [i \in DOMAIN hits |-> new(hits[i])]
    BY <1>3 DEF Charged
  <2>2. ASSUME NEW x \in Windows(K)
        PROVE  /\ new(x) \in Windows(K) /\ new(x).key = x.key
               /\ x.key # key => new(x) = x
               /\ x.key = key => \/ new(x).count = 1
                                 \/ new(x).reset = x.reset /\ new(x).count = x.count + 1
    <3>1. /\ added(x) \in Windows(K) /\ added(x).key = x.key
          /\ added(x).reset = x.reset /\ added(x).count = x.count + 1
      BY DEF Windows
    <3> HIDE DEF added, opened
    <3>2. QED
      BY <1>1, <3>1
  <2> HIDE DEF new, t
  <2>3. \A i \in DOMAIN hits : hits[i] \in Windows(K)
    BY <1>2
  <2>4. /\ DOMAIN t = DOMAIN hits
        /\ \A i \in DOMAIN hits :
             /\ t[i] \in Windows(K) /\ t[i].key = hits[i].key
             /\ hits[i].key # key => t[i] = hits[i]
             /\ hits[i].key = key =>
                  \/ t[i].count = 1
                  \/ t[i].reset = hits[i].reset /\ t[i].count = hits[i].count + 1
    BY <2>1, <2>2, <2>3
  <2>5. t \in Seq(Windows(K))
    <3>1. t = [i \in 1 .. Len(hits) |-> t[i]] /\ \A i \in 1 .. Len(hits) : t[i] \in Windows(K)
      BY <1>2, <2>1, <2>4
    <3>2. QED
      BY <1>2, <3>1
  <2>6. UniqueKeys(t)
    BY <2>4 DEF Table, UniqueKeys
  <2>7. PICK e \in DOMAIN hits : hits[e].key = key
    BY <1>3 DEF Tracked, Places
  <2>8. WindowOf(t, key) = t[e]
    BY <2>4, <2>6, <2>7, WindowIs
  <2>9. ChargedOnce(t, hits, key, K)
    BY <2>4, <2>5, <2>6, <2>7, <2>8 DEF ChargedOnce, Table
  <2>10. QED
    BY <2>9 DEF t
<1>4. CASE ~Tracked(hits, key)
  <2> DEFINE room == WithRoom(hits, now)
             n == Len(room)
  <2>1. t = Append(room, opened)
    BY <1>4 DEF Charged
  <2>2. Remains(room, hits, K)
    BY RoomRemains
  <2> HIDE DEF room, opened, t
  <2>3. room \in Seq(Windows(K)) /\ n \in Nat /\ DOMAIN room = 1 .. n
    BY <2>2 DEF Remains, Table
  <2>4. /\ t \in Seq(Windows(K)) /\ DOMAIN t = 1 .. n + 1 /\ t[n + 1] = opened
        /\ \A j \in 1 .. n : t[j] = room[j]
    BY <1>1, <2>1, <2>3
  <2>5. \A j \in DOMAIN room : room[j].key # key
    BY <1>4, <2>2 DEF Remains, Tracked, Places
  <2>6. ASSUME NEW j \in DOMAIN t, j # n + 1
        PROVE  j \in DOMAIN room /\ t[j] = room[j] /\ t[j].key # key
    <3>1. j \in 1 .. n
      BY <2>3, <2>4, <2>6
    <3>2. QED
      BY <2>3, <2>4, <2>5, <3>1
  <2>7. n + 1 \in DOMAIN t /\ t[n + 1].key = key /\ t[n + 1].count = 1
    BY <1>1, <2>3, <2>4
  <2>8. UniqueKeys(t)
    <3> SUFFICES ASSUME NEW i \in DOMAIN t, NEW j \in DOMAIN t, t[i].key = t[j].key
                 PROVE  i = j
      BY DEF UniqueKeys
    <3>1. CASE i # n + 1 /\ j # n + 1
      BY <2>2, <2>6, <3>1 DEF Remains, Table, UniqueKeys
    <3>2. CASE i = n + 1 \/ j = n + 1
      BY <2>6, <2>7, <3>2
    <3>3. QED
      BY <3>1, <3>2
  <2>9. WindowOf(t, key) = t[n + 1]
    BY <2>7, <2>8, WindowIs
  <2>10. \A j \in DOMAIN t : t[j].key # key => \E i \in DOMAIN hits : t[j] = hits[i]
    BY <2>2, <2>6, <2>7 DEF Remains
  <2>11. ChargedOnce(t, hits, key, K)
    BY <2>4, <2>7, <2>8, <2>9, <2>10 DEF ChargedOnce, Table
  <2>12. QED
    BY <2>11 DEF t
<1>5. QED
  BY <1>3, <1>4

------------------------------------------------------------------------------
(* Refusals are free. *)

KeyIn(tab, p) == IF tab = "account" THEN AccountKey(p.request) ELSE Client[p.request]
ResetIn(tab, p) == IF tab = "account" THEN p.account ELSE p.shared

(* The passes among S that were charged to a window. *)
PassesOf(S, tab, k, w) == {p \in S : KeyIn(tab, p) = k /\ ResetIn(tab, p) = w}

Paid(t, S, tab) ==
  \A i \in DOMAIN t : t[i].count <= Cardinality(PassesOf(S, tab, t[i].key, t[i].reset))

LEMMA PassesGrow ==
  ASSUME NEW S, IsFiniteSet(S), NEW p, p \notin S, NEW tab, NEW k, NEW w
  PROVE  /\ Cardinality(PassesOf(S, tab, k, w)) \in Nat
         /\ Cardinality(PassesOf(S \cup {p}, tab, k, w)) \in Nat
         /\ Cardinality(PassesOf(S, tab, k, w))
              <= Cardinality(PassesOf(S \cup {p}, tab, k, w))
         /\ KeyIn(tab, p) = k /\ ResetIn(tab, p) = w =>
              Cardinality(PassesOf(S \cup {p}, tab, k, w))
                = Cardinality(PassesOf(S, tab, k, w)) + 1
<1> DEFINE A == PassesOf(S, tab, k, w)
           B == PassesOf(S \cup {p}, tab, k, w)
<1>1. A \subseteq S /\ p \notin A
  BY DEF PassesOf
<1>2. IF KeyIn(tab, p) = k /\ ResetIn(tab, p) = w THEN B = A \cup {p} ELSE B = A
  BY DEF PassesOf
<1> HIDE DEF A, B
<1>3. IsFiniteSet(A)
  BY <1>1, FS_Subset
<1>4. Cardinality(A) \in Nat
  BY <1>3, FS_CardinalityType
<1>5. Cardinality(A \cup {p}) = Cardinality(A) + 1
  BY <1>1, <1>3, FS_AddElement
<1>6. /\ Cardinality(B) \in Nat /\ Cardinality(A) <= Cardinality(B)
      /\ KeyIn(tab, p) = k /\ ResetIn(tab, p) = w => Cardinality(B) = Cardinality(A) + 1
  <2>1. CASE B = A \cup {p}
    BY <1>4, <1>5, <2>1
  <2>2. CASE B = A /\ ~(KeyIn(tab, p) = k /\ ResetIn(tab, p) = w)
    BY <1>4, <2>2
  <2>3. QED
    BY <1>2, <2>1, <2>2, Zenon
<1>7. QED
  BY <1>4, <1>6 DEF A, B

LEMMA ChargeIsPaid ==
  ASSUME NEW K, NEW S, IsFiniteSet(S), NEW p, p \notin S, NEW tab, NEW hits, NEW t,
         Table(hits, K), Paid(hits, S, tab), ChargedOnce(t, hits, KeyIn(tab, p), K),
         ResetIn(tab, p) = WindowOf(t, KeyIn(tab, p)).reset
  PROVE  Paid(t, S \cup {p}, tab)
<1> SUFFICES ASSUME NEW j \in DOMAIN t
             PROVE  t[j].count <= Cardinality(PassesOf(S \cup {p}, tab, t[j].key, t[j].reset))
  BY DEF Paid
<1> DEFINE k == t[j].key
           w == t[j].reset
           a == Cardinality(PassesOf(S, tab, k, w))
           b == Cardinality(PassesOf(S \cup {p}, tab, k, w))
<1>1. /\ a \in Nat /\ b \in Nat /\ a <= b
      /\ KeyIn(tab, p) = k /\ ResetIn(tab, p) = w => b = a + 1
  BY PassesGrow
<1>2. \A i \in DOMAIN hits : hits[i].count \in Nat
  <2>1. \A x \in Windows(K) : x.count \in Nat
    BY DEF Windows
  <2>2. \A i \in DOMAIN hits : hits[i] \in Windows(K)
    BY DEF Table
  <2>3. QED
    BY <2>1, <2>2
<1>3. \A i \in DOMAIN hits : hits[i].key = k /\ hits[i].reset = w => hits[i].count <= a
  BY DEF Paid
<1> HIDE DEF a, b
<1>4. CASE k # KeyIn(tab, p)
  <2>1. PICK i \in DOMAIN hits : t[j] = hits[i]
    BY <1>4 DEF ChargedOnce
  <2>2. t[j].count \in Nat /\ t[j].count <= a
    BY <1>2, <1>3, <2>1
  <2>3. t[j].count <= b
    BY <1>1, <2>2
  <2>4. QED
    BY <2>3 DEF b
<1>5. CASE k = KeyIn(tab, p)
  <2>1. PICK e \in DOMAIN t :
          /\ t[e].key = k /\ WindowOf(t, k) = t[e]
          /\ \/ t[e].count = 1
             \/ \E i \in DOMAIN hits : /\ hits[i].key = k /\ hits[i].reset = t[e].reset
                                       /\ t[e].count = hits[i].count + 1
    BY <1>5 DEF ChargedOnce
  <2>2. e = j
    BY <2>1 DEF ChargedOnce, Table, UniqueKeys
  <2>3. b = a + 1
    BY <1>1, <1>5, <2>1, <2>2
  <2>4. t[j].count <= a + 1
    <3>1. CASE t[j].count = 1
      BY <1>1, <3>1
    <3>2. CASE \E i \in DOMAIN hits : /\ hits[i].key = k /\ hits[i].reset = w
                                      /\ t[j].count = hits[i].count + 1
      <4>1. PICK i \in DOMAIN hits : /\ hits[i].key = k /\ hits[i].reset = w
                                     /\ t[j].count = hits[i].count + 1
        BY <3>2
      <4>2. hits[i].count \in Nat /\ hits[i].count <= a
        BY <1>2, <1>3, <4>1
      <4>3. QED
        BY <1>1, <4>1, <4>2
    <3>3. QED
      BY <2>1, <2>2, <3>1, <3>2
  <2>5. QED
    BY <2>3, <2>4 DEF b
<1>6. QED
  BY <1>4, <1>5

LEMMA SweepIsPaid ==
  ASSUME NEW K, NEW S, NEW tab, NEW hits, Table(hits, K), Paid(hits, S, tab), NEW now
  PROVE  Table(Swept(hits, now), K) /\ Paid(Swept(hits, now), S, tab)
<1>1. Remains(Swept(hits, now), hits, K)
  BY SweptRemains
<1>2. QED
  BY <1>1 DEF Remains, Paid

AccountKeys == {AccountKey(r) : r \in Requests}
ClientKeys == {Client[r] : r \in Requests}

(* A request that passed is at work or over, so none passes twice; what the
   windows count, the passes cover. *)
PassInv ==
  /\ IsFiniteSet(passed)
  /\ \A p \in passed : p.request \in Requests /\ pc[p.request] \in {"work", "done"}
  /\ pc \in [Requests -> {"idle", "body", "work", "done"}]
  /\ clock \in Int

TableInv ==
  /\ Table(account, AccountKeys) /\ Paid(account, passed, "account")
  /\ Table(shared, ClientKeys) /\ Paid(shared, passed, "shared")

LEMMA NoWindows ==
  ASSUME NEW S, NEW K, NEW tab
  PROVE  Table(<<>>, K) /\ Paid(<<>>, S, tab)
<1>1. <<>> \in Seq(Windows(K)) /\ DOMAIN <<>> = {}
  OBVIOUS
<1>2. QED
  BY <1>1 DEF Table, UniqueKeys, Paid

LEMMA PaidInit == ServerInit => PassInv /\ TableInv
<1> SUFFICES ASSUME ServerInit PROVE PassInv /\ TableInv
  OBVIOUS
<1>1. PassInv
  BY FS_EmptySet DEF ServerInit, Init, Clock, PassInv, PeriodAssumption
<1>2. TableInv
  BY NoWindows DEF ServerInit, TableInv
<1>3. QED
  BY <1>1, <1>2

(* The step that passes: both windows get the request's pass. *)
LEMMA PassIsPaid ==
  ASSUME LimiterAssumption, PassInv, TableInv, NEW r \in Requests, BodyArrives(r)
  PROVE  PassInv' /\ TableInv'
<1> DEFINE ok == /\ wouldAllow(account, AccountKey(r), clock, AccountMax)
                 /\ wouldAllow(shared, Client[r], clock, SharedMax)
<1>1. /\ pc[r] = "body" /\ allowAll(r) /\ clock' = clock
      /\ IF ok THEN pc' = [pc EXCEPT ![r] = "work"] /\ passed' = passed \cup {Pass(r)}
         ELSE Leave(r) /\ passed' = passed
  BY DEF BodyArrives, guardVars
<1> HIDE DEF ok
<1>2. CASE ~ok
  <2>1. UNCHANGED <<account, shared, passed>> /\ pc' = [pc EXCEPT ![r] = "done"]
    BY <1>1, <1>2 DEF allowAll, Leave, ok
  <2>2. PassInv'
    BY <1>1, <2>1 DEF PassInv
  <2>3. QED
    BY <2>1, <2>2 DEF TableInv
<1>3. CASE ok
  <2> DEFINE p == Pass(r)
  <2>1. /\ account' = Charged(account, AccountKey(r), clock)
        /\ shared' = Charged(shared, Client[r], clock)
        /\ pc' = [pc EXCEPT ![r] = "work"] /\ passed' = passed \cup {p}
    BY <1>1, <1>3 DEF allowAll, ok
  <2>2. /\ p.request = r /\ p.account = WindowOf(account', AccountKey(r)).reset
        /\ p.shared = WindowOf(shared', Client[r]).reset
    BY DEF Pass
  <2> HIDE DEF p
  <2>3. p \notin passed
    BY <1>1, <2>2 DEF PassInv
  <2>4. PassInv'
    <3>1. IsFiniteSet(passed')
      BY <2>1, FS_AddElement DEF PassInv
    <3>2. pc' \in [Requests -> {"idle", "body", "work", "done"}]
      BY <2>1 DEF PassInv
    <3>3. \A q \in passed' : q.request \in Requests /\ pc'[q.request] \in {"work", "done"}
      BY <2>1, <2>2 DEF PassInv
    <3>4. QED
      BY <1>1, <3>1, <3>2, <3>3 DEF PassInv
  <2>5. /\ KeyIn("account", p) = AccountKey(r) /\ ResetIn("account", p) = p.account
        /\ KeyIn("shared", p) = Client[r] /\ ResetIn("shared", p) = p.shared
    BY <2>2 DEF KeyIn, ResetIn
  <2>6. AccountKey(r) \in AccountKeys /\ Client[r] \in ClientKeys
    BY DEF AccountKeys, ClientKeys
  <2>7. /\ ChargedOnce(account', account, AccountKey(r), AccountKeys)
        /\ ChargedOnce(shared', shared, Client[r], ClientKeys)
    BY <2>1, <2>6, ChargeIsOne DEF PassInv, TableInv
  <2>8. Paid(account', passed', "account")
    BY <2>1, <2>2, <2>3, <2>5, <2>7, ChargeIsPaid DEF PassInv, TableInv
  <2>9. Paid(shared', passed', "shared")
    BY <2>1, <2>2, <2>3, <2>5, <2>7, ChargeIsPaid DEF PassInv, TableInv
  <2>10. QED
    BY <2>4, <2>7, <2>8, <2>9 DEF TableInv, ChargedOnce
<1>4. QED
  BY <1>2, <1>3

LEMMA PaidNext ==
  LimiterAssumption /\ PassInv /\ TableInv /\ [ServerNext]_serverVars
    => PassInv' /\ TableInv'
<1> SUFFICES ASSUME LimiterAssumption, PassInv, TableInv, [ServerNext]_serverVars
             PROVE  PassInv' /\ TableInv'
  OBVIOUS
<1>1. CASE StartAgain
  <2>1. PassInv'
    BY <1>1, FS_EmptySet DEF StartAgain, Fresh, Restart, PassInv
  <2>2. TableInv'
    BY <1>1, NoWindows DEF StartAgain, Fresh, TableInv
  <2>3. QED
    BY <2>1, <2>2
<1>2. CASE sweepLimiters
  <2>1. PassInv'
    BY <1>2 DEF sweepLimiters, PassInv, guardVars, requestVars
  <2>2. TableInv'
    BY <1>2, SweepIsPaid DEF sweepLimiters, TableInv
  <2>3. QED
    BY <2>1, <2>2
<1>3. ASSUME NEW r \in Requests, BodyArrives(r) PROVE PassInv' /\ TableInv'
  BY <1>3, PassIsPaid
<1>4. ASSUME UNCHANGED <<account, shared, passed>>, clock' \in Int,
             pc' = pc \/ \E r \in Requests, to \in {"body", "done"} :
                           /\ pc' = [pc EXCEPT ![r] = to]
                           /\ to = "body" => pc[r] = "idle"
      PROVE  PassInv' /\ TableInv'
  <2>1. pc' \in [Requests -> {"idle", "body", "work", "done"}]
    BY <1>4 DEF PassInv
  <2>2. \A p \in passed : p.request \in Requests /\ pc'[p.request] \in {"work", "done"}
    BY <1>4 DEF PassInv
  <2>3. PassInv'
    BY <1>4, <2>1, <2>2 DEF PassInv
  <2>4. QED
    BY <1>4, <2>3 DEF TableInv
<1>5. CASE ClockSet
  <2>1. clock' \in Int /\ UNCHANGED <<account, shared, passed, pc>>
    BY <1>5 DEF ClockSet, SetClock, Clock, PeriodAssumption, limitVars, requestVars
  <2>2. QED
    BY <1>4, <2>1
<1>6. ASSUME NEW r \in Requests, Arrive(r) PROVE PassInv' /\ TableInv'
  <2>1. clock' = clock /\ UNCHANGED <<account, shared, passed>> /\ pc[r] = "idle"
    BY <1>6 DEF Arrive, RequestWith
  <2>2. PICK to \in {"body", "done"} : pc' = [pc EXCEPT ![r] = to]
    BY <1>6 DEF Arrive, Enter
  <2>3. QED
    BY <1>4, <2>1, <2>2 DEF PassInv
<1>7. ASSUME NEW r \in Requests, BodyFails(r) \/ Finish(r) PROVE PassInv' /\ TableInv'
  <2>1. /\ clock' = clock /\ UNCHANGED <<account, shared, passed>>
        /\ pc' = [pc EXCEPT ![r] = "done"]
    BY <1>7 DEF BodyFails, Finish, Leave, guardVars, limitVars
  <2>2. QED
    BY <1>4, <2>1 DEF PassInv
<1>8. CASE \/ OpenStore \/ BootFails \/ ChecksPass \/ BootEnds \/ RefreshTimer
           \/ RefreshEnds \/ PruneTimer \/ listen \/ BindEnds \/ close \/ TeardownStep
           \/ (\E r \in Requests : Connect(r) \/ Disconnect(r)) \/ UNCHANGED serverVars
  <2>1. clock' = clock /\ UNCHANGED <<account, shared, passed>> /\ pc' = pc
    BY <1>8 DEF OpenStore, BootFails, ChecksPass, BootEnds, RefreshTimer, RefreshEnds,
       PruneTimer, listen, BindEnds, close, TeardownStep, RefreshAwaited,
       ListenAwaited, ConnectionsEnded, Drained, Release, CloseSettles, closeMoves,
       Connect, Disconnect, ObserveEpoch, guardVars, limitVars, requestVars, serverVars
  <2>2. QED
    BY <1>4, <2>1 DEF PassInv
<1>9. QED
  BY <1>1, <1>2, <1>3, <1>5, <1>6, <1>7, <1>8 DEF ServerNext, HandlerStep

(* No window is charged for a refused request, whatever the clock does and
   however often the tables are swept or lose their front: each count is covered
   by requests that passed both limits in that window (allowAll). *)
THEOREM NoChargeForRefusals == ServerSpec => []RefusalsAreFree
<1>1. PassInv /\ TableInv => RefusalsAreFree
  BY DEF TableInv, Paid, PassesOf, KeyIn, ResetIn, RefusalsAreFree
<1>2. QED
  BY <1>1, PaidInit, PaidNext, LimiterAssumption, PTL DEF ServerSpec
==============================================================================
