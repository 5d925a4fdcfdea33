--------------------------- MODULE TimeMarksProofs ---------------------------
(***************************************************************************)
(* Facts about periods, marks and observations, for every value of the     *)
(* constants of TimeMarks.                                                 *)
(***************************************************************************)
EXTENDS TimeMarks, TLAPS

------------------------------------------------------------------------------
(* Periods and marks. *)

(* Division rounds down to a period that contains the tick. *)
LEMMA PeriodOfTick ==
  ASSUME NEW L \in Nat \ {0}, NEW t \in Nat
  PROVE  t \div L \in Nat /\ L * (t \div L) <= t /\ t < L * (t \div L) + L
  OBVIOUS

(* A tick before the end of period e lies in period e or an earlier one. *)
LEMMA PeriodBound ==
  ASSUME NEW L \in Nat \ {0}, NEW t \in Nat, NEW e \in Int, t < (e + 1) * L
  PROVE  t \div L <= e
<1>1. PICK q \in Nat : q = t \div L /\ L * q <= t
  BY PeriodOfTick
<1>2. SUFFICES ASSUME q >= e + 1 PROVE FALSE
  BY <1>1
<1>3. L * q >= L * (e + 1)
  BY <1>2
<1>4. QED
  BY <1>1, <1>3

(* No tick lies in a later period than the last tick. *)
LEMMA PeriodMonotone ==
  ASSUME NEW L \in Nat \ {0}, NEW m \in Nat, NEW t \in 0 .. m
  PROVE  t \div L \in 0 .. (m \div L)
<1>1. PICK q \in Nat : q = m \div L /\ m < L * q + L
  BY PeriodOfTick
<1>2. t < (q + 1) * L
  BY <1>1
<1>3. QED
  BY <1>1, <1>2, PeriodBound, PeriodOfTick

LEMMA PeriodTypes ==
  /\ \A t \in Clock : epochNow(t) \in Epochs /\ seasonNow(t) \in Seasons
  /\ Epochs \subseteq Nat /\ Seasons \subseteq Nat
<1>1. ASSUME NEW t \in Clock
      PROVE  epochNow(t) \in Epochs /\ seasonNow(t) \in Seasons
  BY PeriodMonotone, PeriodAssumption
     DEF Clock, epochNow, seasonNow, Epochs, Seasons
<1>2. QED
  BY <1>1 DEF Epochs, Seasons

(* Observations keep the marks well typed. *)
LEMMA ObservedTypes ==
  ASSUME NEW m \in Marks, NEW t \in Clock
  PROVE  ObservedEpoch(m, t) \in Marks /\ ObservedSeason(m, t) \in Marks
  BY PeriodTypes DEF Marks, ObservedEpoch, ObservedSeason

LEMMA ObserveTypes ==
  ASSUME NEW m \in Marks, NEW d \in Marks, NEW t \in Clock, NEW f
  PROVE  /\ MarksAfter(m, t, f) \in Marks
         /\ FileAfter(m, d, t, f) \in Marks
         /\ EpochFileAfter(m, d, t, f) \in Marks
<1>1. /\ ObservedEpoch(m, t) \in Marks
      /\ ObservedSeason(ObservedEpoch(m, t), t) \in Marks
  BY ObservedTypes
<1>2. QED
  BY <1>1 DEF MarksAfter, FileAfter, EpochFileAfter, Persisted

LEMMA MarkIsInt == \A m \in Marks : m.epoch \in Int /\ m.season \in Int
  BY DEF Marks, NoMark, Epochs, Seasons

LEMMA NoMarksType == NoMarks \in Marks /\ (\A d \in Marks : Loaded(d) \in Marks)
  BY DEF NoMarks, Marks, Loaded

------------------------------------------------------------------------------
(* The marks file cannot lag behind the marks in memory. *)
SoundMarks == DurableMarks /\ ~MarkWritesFail

(* With sound marks an observation cannot throw, leaves file and memory equal
   and raises the epoch mark to the clock's epoch, or finds a regression. *)
LEMMA SoundObservation ==
  ASSUME SoundMarks, NEW f \in Faults, NEW m \in Marks, NEW t \in Clock
  PROVE  /\ ~Throws(m, t, f) /\ ~EpochThrows(m, t, f)
         /\ FileAfter(m, m, t, f) = MarksAfter(m, t, f)
         /\ EpochFileAfter(m, m, t, f) = ObservedEpoch(m, t)
         /\ MarksAfter(m, t, f).epoch >= m.epoch
         /\ MarksAfter(m, t, f).epoch >= epochNow(t)
         /\ ~MarksAfter(m, t, f).regressed
              => MarksAfter(m, t, f).epoch = epochNow(t)
         /\ ObservedEpoch(m, t).epoch >= m.epoch
         /\ ObservedEpoch(m, t).epoch >= epochNow(t)
         /\ ObservedEpoch(m, t).season = m.season
         /\ MarksAfter(m, t, f).season >= m.season
         /\ m.regressed => /\ ObservedEpoch(m, t).regressed
                           /\ MarksAfter(m, t, f).regressed
         /\ ~MarksAfter(m, t, f).regressed
              => MarksAfter(m, t, f).season = seasonNow(t)
<1>1. f = "none"
  BY DEF SoundMarks, Faults
<1>2. ~Throws(m, t, f) /\ ~EpochThrows(m, t, f) /\ ~SeasonThrows(m, t, f)
  BY <1>1 DEF Throws, EpochThrows, SeasonThrows
<1>3. epochNow(t) \in Nat /\ seasonNow(t) \in Nat
  BY PeriodTypes
<1>4. m.epoch \in Int /\ m.season \in Int /\ m.regressed \in BOOLEAN
  BY DEF Marks, NoMark, Epochs, Seasons
<1>5. PICK m1 \in Marks : m1 = ObservedEpoch(m, t)
  BY ObservedTypes
<1>6. m1.epoch >= m.epoch /\ m1.epoch >= epochNow(t)
  BY <1>3, <1>4, <1>5 DEF ObservedEpoch, Marks
<1>7. ~m1.regressed => m1.epoch = epochNow(t)
  BY <1>3, <1>4, <1>5 DEF ObservedEpoch, Marks
<1>8. PICK m2 \in Marks : m2 = ObservedSeason(m1, t)
  BY ObservedTypes
<1>9. m2.epoch = m1.epoch /\ (m1.regressed => m2.regressed)
  BY <1>8 DEF ObservedSeason, Marks
<1>s. m1.season = m.season
  BY <1>5 DEF ObservedEpoch, Marks
<1>t. m2.season >= m1.season /\ (~m2.regressed => m2.season = seasonNow(t))
  BY <1>3, <1>4, <1>8, <1>s DEF ObservedSeason, Marks
<1>r. m.regressed => m1.regressed
  BY <1>4, <1>5 DEF ObservedEpoch, Marks
<1>10. MarksAfter(m, t, f) = m2
  BY <1>2, <1>5, <1>8 DEF MarksAfter
<1>11. /\ FileAfter(m, m, t, f) = m2
       /\ EpochFileAfter(m, m, t, f) = m1
  BY <1>2, <1>5, <1>8 DEF FileAfter, EpochFileAfter, Persisted, SoundMarks
<1>12. QED
  BY <1>2, <1>r, <1>s, <1>t, <1>5, <1>6, <1>7, <1>9, <1>10, <1>11
==============================================================================
