---------------------------- MODULE MCRootWindows ----------------------------
(* Small instances of RootWindows. *)
EXTENDS RootWindows

Snap(h, o, s, b) == [height |-> h, order |-> o, set |-> s, block |-> b]

MCSets == {"A", "B"}
MCLeaves == [s \in MCSets |-> IF s = "A" THEN 1 ELSE 2]

(* Three heights: a list that does not change, a list in both orders, two lists
   for one block, one of them wrong, and a reorganisation at one height. *)
MCPublished ==
  { Snap(1, "legacy", "A", "b1"), Snap(2, "legacy", "A", "b2"),
    Snap(1, "proRegTxHash", "A", "b1"), Snap(2, "legacy", "B", "c2"),
    Snap(3, "proRegTxHash", "B", "b3"), Snap(3, "legacy", "A", "b3") }
==============================================================================
