------------------------------ MODULE TimeGuard ------------------------------
(***************************************************************************)
(* The clock guard of core/time_guard.js as the request handler of         *)
(* core/gateway.js uses it: the wall clock may be set to any value at any  *)
(* moment, the process may restart, and every state-bearing request        *)
(* observes both periods before it is served.                              *)
(***************************************************************************)
EXTENDS TimeMarks

VARIABLES
  clock,     \* the wall clock, nowSec()
  marks,     \* TimeGuard.marks and TimeGuard.regression
  file,      \* what the marks file holds
  served,    \* history: the epoch and season of the last request served
  refused    \* history: a request was refused with clock-regression

vars == <<clock, marks, file, served, refused>>

Periods == [epoch : Epochs \cup {NoMark}, season : Seasons \cup {NoMark}]

Init ==
  /\ clock \in Clock
  /\ marks = NoMarks
  /\ file = NoMarks
  /\ served = [epoch |-> NoMark, season |-> NoMark]
  /\ refused = FALSE

(* Time passes, NTP steps it, a snapshot is restored, an operator sets it. *)
SetClock ==
  /\ clock' \in Clock \ {clock}
  /\ UNCHANGED <<marks, file, served, refused>>

(* The prefix of /v1/challenge, /v1/verify and /v1/register: 500 when a
   write throws, 503 clock-regression when the guard has tripped. *)
RequestWith(f) ==
  /\ marks' = MarksAfter(marks, clock, f)
  /\ file' = FileAfter(marks, file, clock, f)
  /\ \/ Throws(marks, clock, f) /\ UNCHANGED <<served, refused>>
     \/ /\ ~Throws(marks, clock, f) /\ marks'.regressed
        /\ refused' = TRUE
        /\ UNCHANGED served
     \/ /\ ~Throws(marks, clock, f) /\ ~marks'.regressed
        /\ served' = [epoch |-> epochNow(clock), season |-> seasonNow(clock)]
        /\ UNCHANGED refused
  /\ UNCHANGED clock

Request == \E f \in Faults : RequestWith(f)

(* pruneClaims observes the epoch alone and never reads the flag. *)
ObserveEpoch ==
  \E f \in Faults :
    /\ marks' = ObservedEpoch(marks, clock)
    /\ file' = EpochFileAfter(marks, file, clock, f)
    /\ UNCHANGED <<clock, served, refused>>

Restart ==
  /\ marks' = Loaded(file)
  /\ UNCHANGED <<clock, file, served, refused>>

Next == SetClock \/ Request \/ ObserveEpoch \/ Restart

Spec == Init /\ [][Next]_vars

------------------------------------------------------------------------------
(* Every variable has its type. *)
TypeOK ==
  /\ clock \in Clock
  /\ marks \in Marks
  /\ file \in Marks
  /\ served \in Periods
  /\ refused \in BOOLEAN

(* No request is served in an epoch or a season earlier than one a request
   was already served in, whatever the clock does and however often the
   process restarts: the reason core/time_guard.js exists. *)
NeverServesThePast ==
  [][served'.epoch >= served.epoch /\ served'.season >= served.season]_vars

(* A regression that a client was told of is in the file, so that a restart
   cannot clear it and resume silently (core/time_guard.js:134). *)
RefusalOutlivesRestart == refused => file.regressed

(* What makes NeverServesThePast inductive: while writes do not fail, the
   file and the memory agree and have reached every period served. *)
MarksInv ==
  /\ TypeOK
  /\ file = marks
  /\ served.epoch <= marks.epoch /\ served.season <= marks.season
==============================================================================
