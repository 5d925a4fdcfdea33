------------------------------ MODULE TimeMarks ------------------------------
(***************************************************************************)
(* The high-water marks of core/time_guard.js as functions of the marks in *)
(* memory, the marks file and the wall clock.  TimeGuard.tla and           *)
(* Admission.tla build their state machines from these operators.          *)
(*                                                                         *)
(* Abstractions: a regression record {kind, observed, mark, at} is the     *)
(* flag "regressed"; the file is the record that was last renamed into     *)
(* place, because #persist writes a temporary file, flushes it and renames *)
(* it.  Time is a number of ticks up to MaxClock.                          *)
(***************************************************************************)
EXTENDS Integers

CONSTANTS
  EpochSeconds,    \* config.epochSeconds, in ticks
  SeasonSeconds,   \* config.seasonSeconds, in ticks
  MaxClock,        \* bound: the last tick the wall clock reaches
  DurableMarks,    \* TRUE when the marks have a path (some state is durable)
  MarkWritesFail   \* TRUE when #persist may throw (full disk, read-only file)

ASSUME PeriodAssumption ==
  /\ EpochSeconds \in Nat \ {0}
  /\ SeasonSeconds \in Nat \ {0}
  /\ MaxClock \in Nat

ASSUME MarkModeAssumption ==
  /\ DurableMarks \in BOOLEAN
  /\ MarkWritesFail \in BOOLEAN

Clock == 0 .. MaxClock

epochNow(t)  == t \div EpochSeconds
seasonNow(t) == t \div SeasonSeconds

Epochs  == 0 .. epochNow(MaxClock)
Seasons == 0 .. seasonNow(MaxClock)

NoMark == -1   \* a mark that is still null

Marks == [epoch : Epochs \cup {NoMark}, season : Seasons \cup {NoMark},
          regressed : BOOLEAN]

NoMarks == [epoch |-> NoMark, season |-> NoMark, regressed |-> FALSE]

(***************************************************************************)
(* #observe: advancing raises the mark, going backwards keeps it and       *)
(* records the regression, once.                                           *)
(***************************************************************************)
ObservedEpochEarly(m, t) ==   \* slip: the period is rounded up
  IF epochNow(t) + 1 > m.epoch
    THEN [m EXCEPT !.epoch = epochNow(t) + 1] ELSE m

ObservedEpoch(m, t) ==
  IF epochNow(t) > m.epoch
    THEN [m EXCEPT !.epoch = epochNow(t)]
    ELSE [m EXCEPT !.regressed = m.regressed \/ epochNow(t) < m.epoch]

ObservedSeasonForgiving(m, t) ==   \* slip: a lower season is no regression
  IF seasonNow(t) > m.season
    THEN [m EXCEPT !.season = seasonNow(t)] ELSE m

ObservedSeason(m, t) ==
  IF seasonNow(t) > m.season
    THEN [m EXCEPT !.season = seasonNow(t)]
    ELSE [m EXCEPT !.regressed = m.regressed \/ seasonNow(t) < m.season]

(***************************************************************************)
(* #persist runs exactly when #observe changed something, after the change *)
(* in memory.  With no path it does nothing, and it writes all the marks.  *)
(***************************************************************************)
PersistedMarksOnly(old, new, file) ==   \* slip: a regression is not written
  IF (new.epoch # old.epoch \/ new.season # old.season) /\ DurableMarks
    THEN new ELSE file

Persisted(old, new, file) == IF new # old /\ DurableMarks THEN new ELSE file

(* Which write fails in a pair of observations: none, the first, the second. *)
Faults == IF MarkWritesFail /\ DurableMarks
            THEN {"none", "epoch", "season"} ELSE {"none"}

EpochThrows(m, t, f) == f = "epoch" /\ ObservedEpoch(m, t) # m

SeasonThrows(m, t, f) ==
  /\ f = "season"
  /\ LET m1 == ObservedEpoch(m, t) IN ObservedSeason(m1, t) # m1

(* timeGuard.epoch(); timeGuard.season(), as every guarded handler calls them. *)
Throws(m, t, f) == EpochThrows(m, t, f) \/ SeasonThrows(m, t, f)

MarksAfter(m, t, f) ==
  IF EpochThrows(m, t, f) THEN ObservedEpoch(m, t)
                          ELSE ObservedSeason(ObservedEpoch(m, t), t)

FileAfter(m, file, t, f) ==
  LET m1 == ObservedEpoch(m, t)
      f1 == Persisted(m, m1, file)
  IN CASE EpochThrows(m, t, f)  -> file
       [] SeasonThrows(m, t, f) -> f1
       [] OTHER -> Persisted(m1, ObservedSeason(m1, t), f1)

(* timeGuard.epoch() alone. *)
EpochFileAfter(m, file, t, f) ==
  IF EpochThrows(m, t, f) THEN file ELSE Persisted(m, ObservedEpoch(m, t), file)

(* #load in a new process under the same schedule: the file, or null marks. *)
Loaded(file) == IF DurableMarks THEN file ELSE NoMarks
==============================================================================
