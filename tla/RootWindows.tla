----------------------------- MODULE RootWindows -----------------------------
(***************************************************************************)
(* The window of masternode-list roots a proof may be made against:        *)
(* RootWindows of core/stores.js, and refreshRoots, validateSnapshot and   *)
(* enforceDmlFreshness of core/gateway.js that fill and age it.            *)
(*                                                                         *)
(* Abstractions: time is the age of a record, because the window only      *)
(* compares timestamps with the present; an age beyond every bound stays   *)
(* where it is.  A leaf set is a model value with a size; its root is the  *)
(* set with the order of its leaves, so that a root repeats across heights *)
(* while the list is unchanged.  Signatures, root mismatches, a failed     *)
(* load and a malformed snapshot are one refusal.  Pins are the roots that *)
(* ChallengeStore.pinnedRoots names.                                       *)
(***************************************************************************)
EXTENDS Filters, FiniteSets, FiniteSetsExt, SequencesExt

CONSTANTS
  Sets,            \* leaf sets (masternode lists)
  Leaves,          \* Leaves[s]: the number of leaves of set s
  Blocks, None,
  Published,       \* the snapshots the oracle may publish
  RootWindow,      \* config.rootWindow, in heights
  MaxLeaves,       \* config.rootWindowMaxLeaves, 0 when unbounded
  OracleMaxAge,    \* config.oracleMaxAgeSeconds, 0 when disabled
  FutureSkew       \* config.oracleFutureSkewSeconds

Orders == {"legacy", "proRegTxHash"}   \* KNOWN_ORDERS

(* Versions 1 and 2 have the legacy order and may name no block; version 3
   states its order and names its block. *)
Snapshots == {s \in [height : Nat, order : Orders, set : Sets,
                     block : Blocks \cup {None}] :
                s.order = "proRegTxHash" => s.block # None}

ASSUME WindowAssumption ==
  /\ Published \subseteq Snapshots
  /\ Leaves \in [Sets -> Nat]
  /\ RootWindow \in Nat \ {0} /\ MaxLeaves \in Nat
  /\ OracleMaxAge \in Nat /\ FutureSkew \in Nat

(* Bound: the age at which counting stops. *)
TopAge == OracleMaxAge + 1

(* A timestamp in the future is a negative age. *)
Ages == -FutureSkew .. TopAge

VARIABLES
  snaps,    \* RootWindows.snaps: records by height, last adopted last
  pins,     \* roots named by pending challenges and verifies in flight
  source    \* the snapshot the oracle serves now

vars == <<snaps, pins, source>>

rootOf(s) == <<s.set, s.order>>

SameKey(r, s) == r.height = s.height /\ r.order = s.order

Record(s, age) == [height |-> s.height, order |-> s.order, set |-> s.set,
                   block |-> s.block, age |-> age]

HeightsOf(ss) == {ss[i].height : i \in DOMAIN ss}

Without(ss, hs) == Kept(ss, {i \in DOMAIN ss : ss[i].height \notin hs})

isRecent(ss, root) == \E i \in DOMAIN ss : rootOf(ss[i]) = root

(* The leaves left of the first n records without the heights hs. *)
LeavesUpTo(ss, hs) ==
  LET total[n \in 0 .. Len(ss)] ==
        IF n = 0 THEN 0
        ELSE total[n - 1] + (IF ss[n].height \in hs THEN 0 ELSE Leaves[ss[n].set])
  IN  total

retainedLeaves(ss, hs) == LeavesUpTo(ss, hs)[Len(ss)]

------------------------------------------------------------------------------
(* adopt() *)

(* Slip: a record adopted again keeps its place. *)
InsertedInPlace(ss, s) ==
  IF \E i \in DOMAIN ss : SameKey(ss[i], s)
    THEN [i \in DOMAIN ss |-> IF SameKey(ss[i], s) THEN s ELSE ss[i]]
    ELSE Kept(ss, {i \in DOMAIN ss : ss[i].height <= s.height}) \o <<s>>
           \o Kept(ss, {i \in DOMAIN ss : ss[i].height > s.height})

(* Drop the record of the same key, insert the new one last, and sort by
   height with a stable sort. *)
Inserted(ss, s) ==
  LET rest == {i \in DOMAIN ss : ~SameKey(ss[i], s)}
  IN Kept(ss, {i \in rest : ss[i].height <= s.height}) \o <<s>>
       \o Kept(ss, {i \in rest : ss[i].height > s.height})

(* Slip: the window counts records. *)
WindowedByRecord(ss) ==
  IF Len(ss) <= RootWindow THEN ss ELSE SubSeq(ss, 2, Len(ss))

(* The window counts heights, not records. *)
Windowed(ss) ==
  Without(ss, {h \in HeightsOf(ss) :
                 Cardinality({k \in HeightsOf(ss) : k > h}) >= RootWindow})

PinnedHeights(ss) ==
  {ss[i].height : i \in {j \in DOMAIN ss : rootOf(ss[j]) \in pins}}

(* The order of eviction: unpinned heights first, the oldest of each kind. *)
EvictedBefore(h, k, pinned) ==
  \/ h \notin pinned /\ k \in pinned
  \/ (h \in pinned <=> k \in pinned) /\ h < k

Evictable(ss) == HeightsOf(ss) \ {Max(HeightsOf(ss))}

(* Slip: the oldest height goes first, pinned or not. *)
LeafBoundedByAge(ss) ==
  LET tooMuch(h) ==
        retainedLeaves(ss, {k \in Evictable(ss) : k < h}) > MaxLeaves
  IN IF MaxLeaves = 0 \/ retainedLeaves(ss, {}) <= MaxLeaves THEN ss
     ELSE Without(ss, {h \in Evictable(ss) : tooMuch(h)})

(* #enforceLeafBound: the loop drops a height while what is left without the
   heights dropped before it is over the bound. *)
LeafBounded(ss) ==
  LET pinned == PinnedHeights(ss)
      tooMuch(h) ==
        retainedLeaves(ss, {k \in Evictable(ss) : EvictedBefore(k, h, pinned)})
          > MaxLeaves
  IN IF MaxLeaves = 0 \/ retainedLeaves(ss, {}) <= MaxLeaves THEN ss
     ELSE Without(ss, {h \in Evictable(ss) : tooMuch(h)})

------------------------------------------------------------------------------
(* The refresh. *)

(* Slip: the last record is kept however old it is. *)
FreshKeepingLast(ss) ==
  IF OracleMaxAge = 0 \/ ss = <<>> THEN ss
  ELSE Kept(ss, {i \in DOMAIN ss : ss[i].age <= OracleMaxAge \/ i = Len(ss)})

(* dropOlderThan(now - oracleMaxAgeSeconds) *)
Fresh(ss) == IF OracleMaxAge = 0 THEN ss
             ELSE Kept(ss, {i \in DOMAIN ss : ss[i].age <= OracleMaxAge})

(* validateSnapshot: the bounds on the oracle's own timestamp. *)
ValidAge(age) == OracleMaxAge = 0 \/ (age <= OracleMaxAge /\ -age <= FutureSkew)

(* Slip: only the block is compared. *)
mayCoexistByBlock(ss, s) ==
  \A i \in DOMAIN ss :
    ss[i].height = s.height => s.block # None /\ ss[i].block = s.block

(* Only the same block with the same leaf set may join a height. *)
mayCoexist(ss, s) ==
  \A i \in DOMAIN ss :
    ss[i].height = s.height =>
      s.block # None /\ ss[i].block = s.block /\ ss[i].set = s.set

(* No lower height than any record retained, and no contradiction. *)
Adoptable(ss, s, age) ==
  /\ ValidAge(age)
  /\ \A i \in DOMAIN ss : ss[i].height <= s.height
  /\ mayCoexist(ss, s)

Init ==
  /\ snaps = <<>> /\ pins = {}
  /\ source \in Published

(* refreshRoots with a snapshot of this age, authentic and well formed: adopt()
   inserts the record, trims to the window and then to the leaf bound, each
   step on what the one before left. *)
Refresh(age) ==
  /\ UNCHANGED <<pins, source>>
  /\ IF Adoptable(snaps, source, age)
       THEN \E all \in {Inserted(snaps, Record(source, age))} :
            \E held \in {Windowed(all)} :
            \E bounded \in {LeafBounded(held)} : snaps' = Fresh(bounded)
       ELSE snaps' = Fresh(snaps)

(* enforceDmlFreshness alone: on every request, and after a refresh whose
   load failed or whose snapshot was refused. *)
EnforceFreshness ==
  /\ snaps' = Fresh(snaps)
  /\ UNCHANGED <<pins, source>>

(* Time passes. *)
Tick ==
  /\ snaps' = [i \in DOMAIN snaps |->
                [snaps[i] EXCEPT !.age = IF @ < TopAge THEN @ + 1 ELSE @]]
  /\ UNCHANGED <<pins, source>>

(* The oracle serves another snapshot: a new block, a reorganisation, a
   replay of an old one, or the other order of the same list. *)
Publish ==
  /\ source' \in Published
  /\ UNCHANGED <<snaps, pins>>

(* A challenge is minted against current(). *)
Pin ==
  /\ snaps # <<>>
  /\ pins' = pins \cup {rootOf(Last(snaps))}
  /\ UNCHANGED <<snaps, source>>

(* The last challenge or verify that names the root is over. *)
Unpin ==
  /\ \E root \in pins : pins' = pins \ {root}
  /\ UNCHANGED <<snaps, source>>

Next ==
  \/ \E age \in Ages : Refresh(age)
  \/ EnforceFreshness \/ Tick \/ Publish \/ Pin \/ Unpin

Spec == Init /\ [][Next]_vars

(* Time passes and the refresh timer fires; what the oracle serves it stamps
   with the present. *)
FairSpec == Spec /\ WF_vars(Tick) /\ WF_vars(Refresh(0))

------------------------------------------------------------------------------
(* All records of one height describe one block and one leaf set, so that two
   roots accepted at a height admit the same masternodes. *)
OneSetPerHeight ==
  \A i, j \in DOMAIN snaps :
    snaps[i].height = snaps[j].height =>
      snaps[i].block = snaps[j].block /\ snaps[i].set = snaps[j].set

(* What a refresh adopts is what /v1/challenge and /v1/dml serve next, also
   when the two orders of one height take turns. *)
AdoptedIsCurrent ==
  [][\A age \in Ages :
       Adoptable(snaps, source, age) /\ Refresh(age)
         => snaps' # <<>> /\ SameKey(Last(snaps'), source)]_vars

(* The two orders of a height are given up together, except by age: no prover
   of the older order is locked out at a height that is still accepted. *)
SiblingsLeaveTogether ==
  [][\A i \in DOMAIN snaps :
       /\ snaps[i].height \in HeightsOf(snaps')
       /\ OracleMaxAge = 0 \/ snaps[i].age <= OracleMaxAge
       => \E k \in DOMAIN snaps' : SameKey(snaps'[k], snaps[i])]_vars

(* The leaf bound drops a height with a challenge or a verify against it only
   when everything else but the newest height is pinned as well. *)
PinnedGoLast ==
  [][\A h \in PinnedHeights(snaps) :
       /\ h \notin HeightsOf(snaps')
       /\ \A i \in DOMAIN snaps : snaps[i].height = h =>
            OracleMaxAge = 0 \/ snaps[i].age <= OracleMaxAge
       /\ Cardinality({k \in HeightsOf(snaps) \cup {source.height} : k > h})
            < RootWindow
       => \A k \in HeightsOf(snaps') :
            k \in PinnedHeights(snaps) \/ \A j \in HeightsOf(snaps') : j <= k]_vars

(* If the oracle settles on a snapshot, the gateway comes to serve it, even
   when it contradicts what it served before (a reorganisation to a lower or
   an equal height): the old records age out and make room. *)
SelfHeals ==
  \A s \in Published :
    <>[](source = s) =>
      []<>(\E i \in DOMAIN snaps : Record(s, snaps[i].age) = snaps[i])
==============================================================================
