------------------------------- MODULE Filters -------------------------------
(***************************************************************************)
(* Array.prototype.filter on sequences, with the places that pass as a     *)
(* set: one recursive function, so that what a filter keeps can be proved. *)
(***************************************************************************)
EXTENDS Integers, Sequences

(* KeptUpTo(ss, I)[n]: what the filter keeps of the first n elements. *)
KeptUpTo(ss, I) ==
  LET kept[n \in 0 .. Len(ss)] ==
        IF n = 0 THEN <<>>
        ELSE IF n \in I THEN Append(kept[n - 1], ss[n]) ELSE kept[n - 1]
  IN  kept

Kept(ss, I) == KeptUpTo(ss, I)[Len(ss)]
==============================================================================
