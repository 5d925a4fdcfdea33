------------------------- MODULE SeasonMembersProofs -------------------------
(***************************************************************************)
(* The two-tier flow for any keys, contexts, requests and tree depth.      *)
(*                                                                         *)
(* First the members tree: a rebuild and an append reach the root of the   *)
(* full build over the padded leaves, and the path of every leaf leads to  *)
(* it.  The nodes of the full build are addressed by level and place.      *)
(* Position n lies below place above(n)[l] of level l, on the side         *)
(* bit(n, l).  Two facts of that arithmetic carry the proofs: places right *)
(* of the last leaf are empty (EmptyNodes), and places left of the next    *)
(* one are final (NodesStay).                                              *)
(*                                                                         *)
(* Then the flow: the log grows in the season of the cache only and fits   *)
(* the tree, every tree and root the cache serves is one of the log, what  *)
(* a registration is told stays true, and a grant has a registration in    *)
(* its season behind it.  Nothing is assumed of the clock or of the marks  *)
(* file.                                                                   *)
(***************************************************************************)
EXTENDS SeasonMembers, TimeMarksProofs, SequenceTheorems, WellFoundedInduction

-----------------------------------------------------------------------------
(* Naturals, and the recursive functions of the tree.                      *)

(* A set of naturals has a least element. *)
LEMMA NatMin ==
  ASSUME NEW S \in SUBSET Nat, S # {}
  PROVE  \E m \in S : \A n \in S : m <= n
<1> DEFINE R == {ss \in Nat \X Nat : ss[1] < ss[2]}
<1>1. IsWellFoundedOn(R, Nat)
  BY NatLessThanWellFounded DEF OpToRel
<1>2. PICK m \in S : \A n \in S : <<n, m>> \notin R
  BY <1>1, WFMin
<1>3. ASSUME NEW n \in S PROVE m <= n
  <2>1. ~(n < m)
    BY <1>2, <1>3
  <2>2. QED
    BY <2>1
<1>4. QED
  BY <1>3

(* What is true of 0 and of every successor is true up to N. *)
LEMMA UpTo ==
  ASSUME NEW N \in Nat, NEW S, 0 \in S,
         \A n \in 0 .. N : n \in S /\ n < N => n + 1 \in S
  PROVE  \A n \in 0 .. N : n \in S
<1> DEFINE T == {n \in 0 .. N : n \notin S}
<1>1. SUFFICES ASSUME T # {} PROVE FALSE
  OBVIOUS
<1>2. PICK x \in T : \A y \in T : x <= y
  <2>1. T \in SUBSET Nat
    OBVIOUS
  <2>2. QED
    BY <1>1, <2>1, NatMin
<1>3. x \in 0 .. N /\ x \notin S /\ x # 0
  OBVIOUS
<1>4. x - 1 \in 0 .. N /\ x - 1 < N /\ (x - 1) + 1 = x
  BY <1>3
<1>5. x - 1 \notin T
  BY <1>2, <1>3
<1>6. QED
  BY <1>3, <1>4, <1>5

IsWidth(f, h) == f = [n \in 0..h |-> IF n = 0 THEN 1 ELSE 2 * f[n - 1]]

LEMMA WidthEquation == ASSUME DepthAssumption PROVE IsWidth(Width, Depth)
<1> DEFINE S == {m \in 0..Depth : \E f : IsWidth(f, m)}
<1>1. 0 \in S
  <2>1. IsWidth([n \in 0..0 |-> 1], 0)
    BY DEF IsWidth
  <2>2. QED
    BY <2>1 DEF DepthAssumption
<1>2. ASSUME NEW m \in 0..Depth, m \in S, m < Depth PROVE m + 1 \in S
  <2>1. PICK f : IsWidth(f, m)
    BY <1>2
  <2> DEFINE g == [n \in 0..m + 1 |-> IF n <= m THEN f[n] ELSE 2 * f[m]]
  <2>2. ASSUME NEW n \in 0..m + 1
        PROVE  g[n] = IF n = 0 THEN 1 ELSE 2 * g[n - 1]
    <3>1. CASE n <= m
      BY <2>1, <3>1 DEF IsWidth
    <3>2. CASE n = m + 1
      BY <3>2
    <3>3. QED
      BY <3>1, <3>2
  <2>3. g = [n \in 0..m + 1 |-> g[n]]
    OBVIOUS
  <2> HIDE DEF g
  <2>4. IsWidth(g, m + 1)
    BY <2>2, <2>3 DEF IsWidth
  <2>5. QED
    BY <1>2, <2>4 DEF DepthAssumption
<1>3. Depth \in S
  <2> HIDE DEF S
  <2>1. Depth \in Nat
    BY DEF DepthAssumption
  <2>2. QED
    BY <1>1, <1>2, <2>1, UpTo
<1>4. QED
  BY <1>3 DEF Width, IsWidth

(* The widths double, and are what capacity is made of. *)
LEMMA WidthFacts ==
  ASSUME DepthAssumption
  PROVE  /\ Width[0] = 1
         /\ \A l \in 1..Depth : Width[l] = 2 * Width[l - 1]
         /\ \A l \in 0..Depth : Width[l] \in Nat \ {0}
<1>1. \A n \in 0..Depth : Width[n] = IF n = 0 THEN 1 ELSE 2 * Width[n - 1]
  BY WidthEquation DEF IsWidth
<1>2. Depth \in Nat
  BY DEF DepthAssumption
<1>3. Width[0] = 1 /\ \A l \in 1..Depth : Width[l] = 2 * Width[l - 1]
  BY <1>1, <1>2
<1> DEFINE S == {l \in 0..Depth : Width[l] \in Nat \ {0}}
<1>4. 0 \in S
  BY <1>2, <1>3
<1>5. \A n \in 0..Depth : n \in S /\ n < Depth => n + 1 \in S
  BY <1>2, <1>3
<1> HIDE DEF S
<1>6. \A n \in 0..Depth : n \in S
  BY <1>2, <1>4, <1>5, UpTo
<1>7. QED
  BY <1>3, <1>6 DEF S

IsZeros(f, h) ==
  f = [l \in 0..h |-> IF l = 0 THEN EmptyLeaf ELSE poseidon(f[l - 1], f[l - 1])]

LEMMA ZerosFacts ==
  ASSUME DepthAssumption
  PROVE  /\ zeros[0] = EmptyLeaf
         /\ \A l \in 1..Depth : zeros[l] = poseidon(zeros[l - 1], zeros[l - 1])
<1> DEFINE S == {m \in 0..Depth : \E f : IsZeros(f, m)}
<1>1. 0 \in S
  <2>1. IsZeros([n \in 0..0 |-> EmptyLeaf], 0)
    BY DEF IsZeros
  <2>2. QED
    BY <2>1 DEF DepthAssumption
<1>2. ASSUME NEW m \in 0..Depth, m \in S, m < Depth PROVE m + 1 \in S
  <2>1. PICK f : IsZeros(f, m)
    BY <1>2
  <2> DEFINE g == [n \in 0..m + 1 |-> IF n <= m THEN f[n] ELSE poseidon(f[m], f[m])]
  <2>2. ASSUME NEW n \in 0..m + 1
        PROVE  g[n] = IF n = 0 THEN EmptyLeaf ELSE poseidon(g[n - 1], g[n - 1])
    <3>1. CASE n <= m
      BY <2>1, <3>1 DEF IsZeros
    <3>2. CASE n = m + 1
      BY <3>2
    <3>3. QED
      BY <3>1, <3>2
  <2>3. g = [n \in 0..m + 1 |-> g[n]]
    OBVIOUS
  <2> HIDE DEF g
  <2>4. IsZeros(g, m + 1)
    BY <2>2, <2>3 DEF IsZeros
  <2>5. QED
    BY <1>2, <2>4 DEF DepthAssumption
<1>3. Depth \in Nat
  BY DEF DepthAssumption
<1>4. Depth \in S
  <2> HIDE DEF S
  <2>1. QED
    BY <1>1, <1>2, <1>3, UpTo
<1>5. IsZeros(zeros, Depth)
  BY <1>4 DEF zeros, IsZeros
<1>6. \A l \in 0..Depth :
        zeros[l] = IF l = 0 THEN EmptyLeaf ELSE poseidon(zeros[l - 1], zeros[l - 1])
  BY <1>5 DEF IsZeros
<1>7. QED
  BY <1>3, <1>6

IsAbove(f, n, h) == f = [l \in 0..h |-> IF l = 0 THEN n ELSE f[l - 1] \div 2]

LEMMA AboveEquation ==
  ASSUME DepthAssumption, NEW n
  PROVE  IsAbove(above(n), n, Depth)
<1> DEFINE S == {m \in 0..Depth : \E f : IsAbove(f, n, m)}
<1>1. 0 \in S
  <2>1. IsAbove([l \in 0..0 |-> n], n, 0)
    BY DEF IsAbove
  <2>2. QED
    BY <2>1 DEF DepthAssumption
<1>2. ASSUME NEW m \in 0..Depth, m \in S, m < Depth PROVE m + 1 \in S
  <2>1. PICK f : IsAbove(f, n, m)
    BY <1>2
  <2> DEFINE g == [l \in 0..m + 1 |-> IF l <= m THEN f[l] ELSE f[m] \div 2]
  <2>2. ASSUME NEW l \in 0..m + 1
        PROVE  g[l] = IF l = 0 THEN n ELSE g[l - 1] \div 2
    <3>1. CASE l <= m
      BY <2>1, <3>1 DEF IsAbove
    <3>2. CASE l = m + 1
      BY <3>2
    <3>3. QED
      BY <3>1, <3>2
  <2>3. g = [l \in 0..m + 1 |-> g[l]]
    OBVIOUS
  <2> HIDE DEF g
  <2>4. IsAbove(g, n, m + 1)
    BY <2>2, <2>3 DEF IsAbove
  <2>5. QED
    BY <1>2, <2>4 DEF DepthAssumption
<1>3. Depth \in Nat
  BY DEF DepthAssumption
<1>4. Depth \in S
  <2> HIDE DEF S
  <2>1. QED
    BY <1>1, <1>2, <1>3, UpTo
<1>5. QED
  BY <1>4 DEF above, IsAbove

(* The way up from a position, level by level. *)
LEMMA AboveFacts ==
  ASSUME DepthAssumption, NEW n \in Nat
  PROVE  /\ above(n)[0] = n
         /\ \A l \in 0..Depth : above(n)[l] \in Nat /\ bit(n, l) \in {0, 1}
         /\ \A l \in 1..Depth : above(n)[l - 1] = 2 * above(n)[l] + bit(n, l - 1)
<1> DEFINE a == above(n)
<1>1. \A l \in 0..Depth : a[l] = IF l = 0 THEN n ELSE a[l - 1] \div 2
  BY AboveEquation DEF IsAbove
<1>2. Depth \in Nat
  BY DEF DepthAssumption
<1> HIDE DEF a
<1>3. a[0] = n /\ \A l \in 1..Depth : a[l] = a[l - 1] \div 2
  BY <1>1, <1>2
<1> DEFINE S == {l \in 0..Depth : a[l] \in Nat}
<1>4. 0 \in S
  BY <1>2, <1>3
<1>5. ASSUME NEW l \in 0..Depth, l \in S, l < Depth PROVE l + 1 \in S
  <2>1. a[l + 1] = a[l] \div 2 /\ a[l] \in Nat
    BY <1>2, <1>3, <1>5
  <2>2. a[l + 1] \in Nat
    BY <2>1
  <2>3. QED
    BY <1>2, <1>5, <2>2
<1> HIDE DEF S
<1>6. \A l \in 0..Depth : l \in S
  BY <1>2, <1>4, <1>5, UpTo
<1>7. \A l \in 0..Depth : a[l] \in Nat
  BY <1>6 DEF S
<1>8. \A l \in 0..Depth : bit(n, l) = a[l] % 2 /\ bit(n, l) \in {0, 1}
  BY <1>7 DEF bit, a
<1>9. ASSUME NEW l \in 1..Depth PROVE a[l - 1] = 2 * a[l] + bit(n, l - 1)
  <2>1. l - 1 \in 0..Depth
    BY <1>2
  <2>2. a[l - 1] \in Nat /\ a[l] = a[l - 1] \div 2 /\ bit(n, l - 1) = a[l - 1] % 2
    BY <1>3, <1>7, <1>8, <2>1
  <2>3. QED
    BY <2>2
<1>10. QED
  BY <1>3, <1>7, <1>8, <1>9 DEF a

IsClimb(f, start, h, sides, left, right) ==
  f = [l \in 0..h |->
        IF l = 0 THEN start
        ELSE IF sides[l - 1] = 0 THEN poseidon(f[l - 1], right[l - 1])
        ELSE poseidon(left[l - 1], f[l - 1])]

(* One level of a climb. *)
LEMMA ClimbFacts ==
  ASSUME NEW h \in Nat, NEW start, NEW sides, NEW left, NEW right
  PROVE  LET node == Climb(start, h, sides, left, right)
         IN /\ node[0] = start
            /\ \A l \in 1..h :
                 node[l] = IF sides[l - 1] = 0 THEN poseidon(node[l - 1], right[l - 1])
                                               ELSE poseidon(left[l - 1], node[l - 1])
<1> DEFINE S == {m \in 0..h : \E f : IsClimb(f, start, m, sides, left, right)}
           Upper(f, m) == IF sides[m] = 0 THEN poseidon(f[m], right[m])
                                         ELSE poseidon(left[m], f[m])
<1>1. 0 \in S
  <2>1. IsClimb([l \in 0..0 |-> start], start, 0, sides, left, right)
    BY DEF IsClimb
  <2>2. QED
    BY <2>1
<1>2. ASSUME NEW m \in 0..h, m \in S, m < h PROVE m + 1 \in S
  <2>1. PICK f : IsClimb(f, start, m, sides, left, right)
    BY <1>2
  <2> DEFINE g == [l \in 0..m + 1 |-> IF l <= m THEN f[l] ELSE Upper(f, m)]
  <2>2. ASSUME NEW l \in 0..m + 1
        PROVE  g[l] = IF l = 0 THEN start
                      ELSE IF sides[l - 1] = 0 THEN poseidon(g[l - 1], right[l - 1])
                      ELSE poseidon(left[l - 1], g[l - 1])
    <3>1. CASE l <= m
      <4>1. g[l] = f[l] /\ (l # 0 => l - 1 \in 0..m /\ g[l - 1] = f[l - 1])
        BY <3>1
      <4> HIDE DEF g
      <4>2. QED
        BY <2>1, <3>1, <4>1 DEF IsClimb
    <3>2. CASE l = m + 1
      <4>1. g[l] = Upper(f, m) /\ l - 1 = m /\ g[l - 1] = f[m] /\ l # 0
        BY <3>2
      <4> HIDE DEF g
      <4>2. QED
        BY <4>1
    <3>3. QED
      BY <3>1, <3>2
  <2>3. g = [l \in 0..m + 1 |-> g[l]]
    OBVIOUS
  <2> HIDE DEF g, Upper
  <2>4. IsClimb(g, start, m + 1, sides, left, right)
    BY <2>2, <2>3 DEF IsClimb
  <2>5. QED
    BY <1>2, <2>4
<1>3. h \in S
  <2> HIDE DEF S, Upper
  <2>1. QED
    BY <1>1, <1>2, UpTo
<1>4. IsClimb(Climb(start, h, sides, left, right), start, h, sides, left, right)
  <2> HIDE DEF Upper
  <2>1. QED
    BY <1>3 DEF Climb, IsClimb
<1> DEFINE node == Climb(start, h, sides, left, right)
<1>5. \A l \in 0..h :
        node[l] = IF l = 0 THEN start
                  ELSE IF sides[l - 1] = 0 THEN poseidon(node[l - 1], right[l - 1])
                  ELSE poseidon(left[l - 1], node[l - 1])
  BY <1>4 DEF IsClimb
<1> HIDE DEF node
<1>6. QED
  BY <1>5 DEF node

(* One level of the full build over the level below. *)
Paired(below, h) ==
  [i \in 0..Width[Depth - h] - 1 |-> poseidon(below[2 * i], below[2 * i + 1])]

Padded(s) ==
  [i \in 0..Width[Depth] - 1 |-> IF i < Len(s) THEN s[i + 1] ELSE EmptyLeaf]

IsLevels(f, s, h) == f = [l \in 0..h |-> IF l = 0 THEN Padded(s) ELSE Paired(f[l - 1], l)]

LEMMA LevelsFacts ==
  ASSUME DepthAssumption, NEW s
  PROVE  /\ levelsOf(s)[0] = Padded(s)
         /\ \A l \in 1..Depth : levelsOf(s)[l] = Paired(levelsOf(s)[l - 1], l)
<1> DEFINE S == {m \in 0..Depth : \E f : IsLevels(f, s, m)}
<1>0. Depth \in Nat
  BY DEF DepthAssumption
<1>1. 0 \in S
  <2>1. IsLevels([l \in 0..0 |-> Padded(s)], s, 0)
    BY DEF IsLevels
  <2>2. QED
    BY <1>0, <2>1
<1>2. ASSUME NEW m \in 0..Depth, m \in S, m < Depth PROVE m + 1 \in S
  <2>1. PICK f : IsLevels(f, s, m)
    BY <1>2
  <2> DEFINE g == [l \in 0..m + 1 |-> IF l <= m THEN f[l] ELSE Paired(f[m], m + 1)]
  <2>2. ASSUME NEW l \in 0..m + 1
        PROVE  g[l] = IF l = 0 THEN Padded(s) ELSE Paired(g[l - 1], l)
    <3>1. CASE l <= m
      BY <2>1, <3>1 DEF IsLevels
    <3>2. CASE l = m + 1
      BY <3>2
    <3>3. QED
      BY <3>1, <3>2
  <2>3. g = [l \in 0..m + 1 |-> g[l]]
    OBVIOUS
  <2> HIDE DEF g
  <2>4. IsLevels(g, s, m + 1)
    BY <2>2, <2>3 DEF IsLevels
  <2>5. QED
    BY <1>0, <1>2, <2>4
<1>3. Depth \in S
  <2> HIDE DEF S
  <2>1. QED
    BY <1>0, <1>1, <1>2, UpTo
<1>4. PICK f : IsLevels(f, s, Depth)
  BY <1>3
<1> DEFINE Level(g, l) ==
             [i \in 0..Width[Depth - l] - 1 |->
                IF l > 0 THEN poseidon(g[l - 1][2 * i], g[l - 1][2 * i + 1])
                ELSE IF i < Len(s) THEN s[i + 1] ELSE EmptyLeaf]
<1>5. ASSUME NEW g, NEW l \in 0..Depth
      PROVE  Level(g, l) = IF l = 0 THEN Padded(s) ELSE Paired(g[l - 1], l)
  <2>1. CASE l = 0
    <3>1. Depth - l = Depth /\ ~(l > 0)
      BY <1>0, <2>1
    <3>2. QED
      BY <2>1, <3>1 DEF Padded
  <2>2. CASE l # 0
    <3>1. l > 0
      BY <1>0, <2>2
    <3>2. QED
      BY <2>2, <3>1 DEF Paired
  <2>3. QED
    BY <2>1, <2>2
<1>6. levelsOf(s) = CHOOSE g : g = [l \in 0..Depth |-> Level(g, l)]
  BY DEF levelsOf
<1> HIDE DEF Level
<1>7. f = [l \in 0..Depth |-> Level(f, l)]
  BY <1>4, <1>5 DEF IsLevels
<1>8. levelsOf(s) = [l \in 0..Depth |-> Level(levelsOf(s), l)]
  BY <1>6, <1>7
<1>9. \A l \in 0..Depth :
        levelsOf(s)[l] = IF l = 0 THEN Padded(s) ELSE Paired(levelsOf(s)[l - 1], l)
  BY <1>5, <1>8
<1>10. QED
  BY <1>0, <1>9

IsStacks(f, s, h) == f = [n \in 0..h |-> IF n = 0 THEN <<>> ELSE Carried(f[n - 1], s[n])]

LEMMA StacksFacts ==
  ASSUME NEW s, Len(s) \in Nat
  PROVE  /\ CarryStacks(s)[0] = <<>>
         /\ \A n \in 1..Len(s) : CarryStacks(s)[n] = Carried(CarryStacks(s)[n - 1], s[n])
<1> DEFINE N == Len(s)
           S == {m \in 0..N : \E f : IsStacks(f, s, m)}
<1>1. 0 \in S
  <2>1. IsStacks([n \in 0..0 |-> <<>>], s, 0)
    BY DEF IsStacks
  <2>2. QED
    BY <2>1
<1>2. ASSUME NEW m \in 0..N, m \in S, m < N PROVE m + 1 \in S
  <2>1. PICK f : IsStacks(f, s, m)
    BY <1>2
  <2> DEFINE g == [n \in 0..m + 1 |-> IF n <= m THEN f[n] ELSE Carried(f[m], s[m + 1])]
  <2>2. ASSUME NEW n \in 0..m + 1
        PROVE  g[n] = IF n = 0 THEN <<>> ELSE Carried(g[n - 1], s[n])
    <3>1. CASE n <= m
      BY <2>1, <3>1 DEF IsStacks
    <3>2. CASE n = m + 1
      BY <3>2
    <3>3. QED
      BY <3>1, <3>2
  <2>3. g = [n \in 0..m + 1 |-> g[n]]
    OBVIOUS
  <2> HIDE DEF g
  <2>4. IsStacks(g, s, m + 1)
    BY <2>2, <2>3 DEF IsStacks
  <2>5. QED
    BY <1>2, <2>4
<1>3. N \in S
  <2>1. N \in Nat
    OBVIOUS
  <2> HIDE DEF S, N
  <2>2. \A n \in 0..N : n \in S /\ n < N => n + 1 \in S
    BY <1>2
  <2>3. \A n \in 0..N : n \in S
    BY <1>1, <2>1, <2>2, UpTo
  <2>4. QED
    BY <2>1, <2>3
<1>4. IsStacks(CarryStacks(s), s, N)
  BY <1>3 DEF CarryStacks, IsStacks
<1>5. \A n \in 0..N :
        CarryStacks(s)[n] = IF n = 0 THEN <<>> ELSE Carried(CarryStacks(s)[n - 1], s[n])
  BY <1>4 DEF IsStacks
<1>6. QED
  BY <1>5

-----------------------------------------------------------------------------
(* Positions and the nodes above them.                                      *)

(* A position in the tree is under a node of every level. *)
LEMMA AboveInTree ==
  ASSUME DepthAssumption, NEW n \in Nat, n < capacity
  PROVE  \A l \in 0..Depth : above(n)[l] < Width[Depth - l]
<1> DEFINE S == {l \in 0..Depth : above(n)[l] < Width[Depth - l]}
<1>1. Depth \in Nat
  BY DEF DepthAssumption
<1>2. 0 \in S
  <2>1. above(n)[0] = n /\ Depth - 0 = Depth
    BY <1>1, AboveFacts
  <2>2. QED
    BY <1>1, <2>1 DEF capacity
<1>3. ASSUME NEW l \in 0..Depth, l \in S, l < Depth PROVE l + 1 \in S
  <2> DEFINE a == above(n)[l]
             b == above(n)[l + 1]
             w == Width[Depth - l]
             v == Width[Depth - (l + 1)]
  <2>1. a = 2 * b + bit(n, l) /\ bit(n, l) \in {0, 1} /\ a \in Nat /\ b \in Nat
    <3>1. l + 1 \in 1..Depth /\ (l + 1) - 1 = l /\ l + 1 \in 0..Depth
      BY <1>1, <1>3
    <3>2. QED
      BY <3>1, AboveFacts
  <2>2. w = 2 * v /\ v \in Nat /\ w \in Nat
    <3>1. Depth - l \in 1..Depth /\ (Depth - l) - 1 = Depth - (l + 1)
          /\ Depth - (l + 1) \in 0..Depth /\ Depth - l \in 0..Depth
      BY <1>1, <1>3
    <3>2. QED
      BY <3>1, WidthFacts
  <2>3. a < w
    BY <1>3
  <2> HIDE DEF a, b, w, v
  <2>4. b < v
    BY <2>1, <2>2, <2>3
  <2>5. l + 1 \in 0..Depth
    BY <1>1, <1>3
  <2>6. QED
    BY <2>4, <2>5 DEF b, v
<1> HIDE DEF S
<1>4. \A l \in 0..Depth : l \in S
  BY <1>1, <1>2, <1>3, UpTo
<1>5. QED
  BY <1>4 DEF S

(* The next position is under the same node or the next one; a node is left
   behind when all bits below it were ones. *)
LEMMA AboveNext ==
  ASSUME DepthAssumption, NEW n \in Nat
  PROVE  /\ \A l \in 0..Depth : \/ above(n + 1)[l] = above(n)[l]
                                \/ above(n + 1)[l] = above(n)[l] + 1
         /\ \A l \in 1..Depth :
              IF above(n + 1)[l - 1] = above(n)[l - 1] + 1 /\ bit(n, l - 1) = 1
                THEN above(n + 1)[l] = above(n)[l] + 1
                ELSE above(n + 1)[l] = above(n)[l]
<1> DEFINE a == above(n)
           b == above(n + 1)
           S == {l \in 0..Depth : b[l] = a[l] \/ b[l] = a[l] + 1}
<1>1. Depth \in Nat /\ n + 1 \in Nat
  BY DEF DepthAssumption
<1>2. 0 \in S
  BY <1>1, AboveFacts
<1>3. ASSUME NEW l \in 0..Depth, l \in S, l < Depth
      PROVE  /\ l + 1 \in S
             /\ IF b[l] = a[l] + 1 /\ bit(n, l) = 1 THEN b[l + 1] = a[l + 1] + 1
                                                   ELSE b[l + 1] = a[l + 1]
  <2>0. l + 1 \in 1..Depth /\ (l + 1) - 1 = l /\ l + 1 \in 0..Depth
    BY <1>1, <1>3
  <2>1. a[l] = 2 * a[l + 1] + bit(n, l) /\ bit(n, l) \in {0, 1} /\ a[l] \in Nat /\ a[l + 1] \in Nat
    BY <2>0, AboveFacts
  <2>2. /\ b[l] = 2 * b[l + 1] + bit(n + 1, l) /\ bit(n + 1, l) \in {0, 1}
        /\ b[l] \in Nat /\ b[l + 1] \in Nat
    BY <1>1, <2>0, AboveFacts
  <2>3. b[l] = a[l] \/ b[l] = a[l] + 1
    BY <1>3
  <2> DEFINE x == bit(n, l)
             y == bit(n + 1, l)
             p == a[l]
             q == b[l]
             pp == a[l + 1]
             qq == b[l + 1]
  <2>4. /\ p = 2 * pp + x /\ x \in {0, 1} /\ p \in Nat /\ pp \in Nat
        /\ q = 2 * qq + y /\ y \in {0, 1} /\ q \in Nat /\ qq \in Nat
        /\ q = p \/ q = p + 1
    BY <2>1, <2>2, <2>3
  <2> HIDE DEF x, y, p, q, pp, qq
  <2>5. IF q = p + 1 /\ x = 1 THEN qq = pp + 1 ELSE qq = pp
    BY <2>4
  <2>6. IF b[l] = a[l] + 1 /\ bit(n, l) = 1 THEN b[l + 1] = a[l + 1] + 1
                                           ELSE b[l + 1] = a[l + 1]
    BY <2>5 DEF x, y, p, q, pp, qq
  <2>7. QED
    BY <2>0, <2>6
<1>4. \A l \in 0..Depth : l \in S
  <2>1. \A l \in 0..Depth : l \in S /\ l < Depth => l + 1 \in S
    BY <1>3
  <2> HIDE DEF S
  <2>2. QED
    BY <1>1, <1>2, <2>1, UpTo
<1>5. ASSUME NEW l \in 1..Depth
      PROVE  IF b[l - 1] = a[l - 1] + 1 /\ bit(n, l - 1) = 1 THEN b[l] = a[l] + 1
                                                            ELSE b[l] = a[l]
  <2>1. l - 1 \in 0..Depth /\ l - 1 < Depth /\ (l - 1) + 1 = l
    BY <1>1
  <2>2. l - 1 \in S
    BY <1>4, <2>1
  <2> HIDE DEF a, b, S
  <2>3. QED
    BY <1>3, <2>1, <2>2
<1>6. QED
  BY <1>4, <1>5

(* The position behind a full tree. *)
LEMMA AboveFull ==
  ASSUME DepthAssumption
  PROVE  /\ capacity \in Nat
         /\ \A l \in 0..Depth : above(capacity)[l] = Width[Depth - l]
<1> DEFINE S == {l \in 0..Depth : above(capacity)[l] = Width[Depth - l]}
<1>1. Depth \in Nat /\ capacity \in Nat
  BY WidthFacts DEF DepthAssumption, capacity
<1>2. 0 \in S
  <2>1. above(capacity)[0] = capacity /\ Depth - 0 = Depth
    BY <1>1, AboveFacts
  <2>2. QED
    BY <1>1, <2>1 DEF capacity
<1>3. ASSUME NEW l \in 0..Depth, l \in S, l < Depth PROVE l + 1 \in S
  <2> DEFINE a == above(capacity)[l]
             b == above(capacity)[l + 1]
             w == Width[Depth - l]
             v == Width[Depth - (l + 1)]
             x == bit(capacity, l)
  <2>1. a = 2 * b + x /\ x \in {0, 1} /\ a \in Nat /\ b \in Nat
    <3>1. l + 1 \in 1..Depth /\ (l + 1) - 1 = l /\ l + 1 \in 0..Depth
      BY <1>1, <1>3
    <3>2. QED
      BY <1>1, <3>1, AboveFacts
  <2>2. w = 2 * v /\ v \in Nat /\ w \in Nat
    <3>1. Depth - l \in 1..Depth /\ (Depth - l) - 1 = Depth - (l + 1)
          /\ Depth - (l + 1) \in 0..Depth /\ Depth - l \in 0..Depth
      BY <1>1, <1>3
    <3>2. QED
      BY <3>1, WidthFacts
  <2>3. a = w
    BY <1>3
  <2> HIDE DEF a, b, w, v, x
  <2>4. b = v
    BY <2>1, <2>2, <2>3
  <2>5. l + 1 \in 0..Depth
    BY <1>1, <1>3
  <2>6. QED
    BY <2>4, <2>5 DEF b, v
<1> HIDE DEF S
<1>4. \A l \in 0..Depth : l \in S
  BY <1>1, <1>2, <1>3, UpTo
<1>5. QED
  BY <1>1, <1>4 DEF S

-----------------------------------------------------------------------------
(* The nodes of the full build.                                             *)

Node(s, l, i) == levelsOf(s)[l][i]

(* The places of a level. *)
PlacesAt(l) == 0..Width[Depth - l] - 1

LEMMA NodeFacts ==
  ASSUME DepthAssumption, NEW s
  PROVE  /\ \A i \in PlacesAt(0) : Node(s, 0, i) = IF i < Len(s) THEN s[i + 1] ELSE EmptyLeaf
         /\ \A l \in 1..Depth : \A i \in PlacesAt(l) :
              /\ 2 * i \in PlacesAt(l - 1) /\ 2 * i + 1 \in PlacesAt(l - 1)
              /\ Node(s, l, i) = poseidon(Node(s, l - 1, 2 * i), Node(s, l - 1, 2 * i + 1))
<1>1. Depth \in Nat
  BY DEF DepthAssumption
<1>2. \A i \in PlacesAt(0) : Node(s, 0, i) = IF i < Len(s) THEN s[i + 1] ELSE EmptyLeaf
  <2>1. Depth - 0 = Depth
    BY <1>1
  <2>2. QED
    BY <2>1, LevelsFacts DEF Node, PlacesAt, Padded
<1>3. ASSUME NEW l \in 1..Depth, NEW i \in PlacesAt(l)
      PROVE  /\ 2 * i \in PlacesAt(l - 1) /\ 2 * i + 1 \in PlacesAt(l - 1)
             /\ Node(s, l, i) = poseidon(Node(s, l - 1, 2 * i), Node(s, l - 1, 2 * i + 1))
  <2> DEFINE w == Width[Depth - (l - 1)]
             v == Width[Depth - l]
  <2>1. w = 2 * v /\ v \in Nat /\ w \in Nat
    <3>1. Depth - (l - 1) \in 1..Depth /\ (Depth - (l - 1)) - 1 = Depth - l
          /\ Depth - l \in 0..Depth /\ Depth - (l - 1) \in 0..Depth
      BY <1>1
    <3>2. QED
      BY <3>1, WidthFacts
  <2>2. i \in 0..v - 1
    BY DEF PlacesAt
  <2> HIDE DEF w, v
  <2>3. 2 * i \in 0..w - 1 /\ 2 * i + 1 \in 0..w - 1
    BY <2>1, <2>2
  <2>4. levelsOf(s)[l] = Paired(levelsOf(s)[l - 1], l)
    BY LevelsFacts
  <2>5. Node(s, l, i) = poseidon(Node(s, l - 1, 2 * i), Node(s, l - 1, 2 * i + 1))
    BY <2>4 DEF Node, Paired, PlacesAt
  <2>6. QED
    BY <2>3, <2>5 DEF PlacesAt, w
<1>4. QED
  BY <1>2, <1>3

(* Right of the last leaf there are only empty subtrees. *)
LEMMA EmptyNodes ==
  ASSUME DepthAssumption, NEW s, NEW n \in Nat, Len(s) \in Nat, Len(s) <= n + 1
  PROVE  \A l \in 0..Depth : \A i \in PlacesAt(l) :
           i > above(n)[l] => Node(s, l, i) = zeros[l]
<1> DEFINE Empty(l) == \A i \in PlacesAt(l) : i > above(n)[l] => Node(s, l, i) = zeros[l]
           S == {l \in 0..Depth : Empty(l)}
<1>1. Depth \in Nat
  BY DEF DepthAssumption
<1>2. 0 \in S
  <2>1. ASSUME NEW i \in PlacesAt(0), i > above(n)[0] PROVE Node(s, 0, i) = zeros[0]
    <3>1. above(n)[0] = n /\ zeros[0] = EmptyLeaf
      BY AboveFacts, ZerosFacts
    <3>2. i \in Int
      BY <1>1 DEF PlacesAt
    <3>3. ~(i < Len(s))
      BY <2>1, <3>1, <3>2
    <3>4. QED
      BY <3>1, <3>3, NodeFacts
  <2>2. QED
    BY <1>1, <2>1
<1>3. ASSUME NEW l \in 0..Depth, l \in S, l < Depth PROVE l + 1 \in S
  <2>0. l + 1 \in 1..Depth /\ (l + 1) - 1 = l /\ l + 1 \in 0..Depth
    BY <1>1, <1>3
  <2>1. ASSUME NEW i \in PlacesAt(l + 1), i > above(n)[l + 1]
        PROVE  Node(s, l + 1, i) = zeros[l + 1]
    <3> DEFINE a == above(n)[l]
               b == above(n)[l + 1]
               x == bit(n, l)
    <3>1. a = 2 * b + x /\ x \in {0, 1} /\ a \in Nat /\ b \in Nat
      BY <2>0, AboveFacts
    <3>2. i \in Int /\ i > b
      BY <2>1 DEF PlacesAt
    <3> HIDE DEF a, b, x
    <3>3. 2 * i > a /\ 2 * i + 1 > a
      BY <3>1, <3>2
    <3>4. /\ 2 * i \in PlacesAt(l) /\ 2 * i + 1 \in PlacesAt(l)
          /\ Node(s, l + 1, i) = poseidon(Node(s, l, 2 * i), Node(s, l, 2 * i + 1))
      BY <2>0, NodeFacts
    <3>5. Empty(l)
      BY <1>3
    <3>6. Node(s, l, 2 * i) = zeros[l] /\ Node(s, l, 2 * i + 1) = zeros[l]
      BY <3>3, <3>4, <3>5 DEF a
    <3>7. zeros[l + 1] = poseidon(zeros[l], zeros[l])
      BY <2>0, ZerosFacts
    <3>8. QED
      BY <3>4, <3>6, <3>7
  <2>2. QED
    BY <2>0, <2>1
<1> HIDE DEF S
<1>4. \A l \in 0..Depth : l \in S
  BY <1>1, <1>2, <1>3, UpTo
<1>5. QED
  BY <1>4 DEF S

(* A subtree that is complete stays what it is as leaves follow. *)
LEMMA NodesStay ==
  ASSUME DepthAssumption, NEW s, NEW t, Len(s) \in Nat, Len(t) \in Nat, Len(s) <= Len(t),
         \A i \in 1..Len(s) : t[i] = s[i]
  PROVE  \A l \in 0..Depth : \A i \in PlacesAt(l) :
           i < above(Len(s))[l] => Node(t, l, i) = Node(s, l, i)
<1> DEFINE n == Len(s)
           Same(l) == \A i \in PlacesAt(l) : i < above(n)[l] => Node(t, l, i) = Node(s, l, i)
           S == {l \in 0..Depth : Same(l)}
<1>1. Depth \in Nat /\ n \in Nat
  BY DEF DepthAssumption
<1>2. 0 \in S
  <2>1. ASSUME NEW i \in PlacesAt(0), i < above(n)[0] PROVE Node(t, 0, i) = Node(s, 0, i)
    <3>1. above(n)[0] = n
      BY <1>1, AboveFacts
    <3>2. i \in Nat
      BY <1>1 DEF PlacesAt
    <3>3. i < Len(s) /\ i < Len(t) /\ i + 1 \in 1..Len(s)
      BY <2>1, <3>1, <3>2
    <3>4. QED
      BY <3>3, NodeFacts
  <2>2. QED
    BY <1>1, <2>1
<1>3. ASSUME NEW l \in 0..Depth, l \in S, l < Depth PROVE l + 1 \in S
  <2>0. l + 1 \in 1..Depth /\ (l + 1) - 1 = l /\ l + 1 \in 0..Depth
    BY <1>1, <1>3
  <2>1. ASSUME NEW i \in PlacesAt(l + 1), i < above(n)[l + 1]
        PROVE  Node(t, l + 1, i) = Node(s, l + 1, i)
    <3> DEFINE a == above(n)[l]
               b == above(n)[l + 1]
               x == bit(n, l)
    <3>1. a = 2 * b + x /\ x \in {0, 1} /\ a \in Nat /\ b \in Nat
      BY <1>1, <2>0, AboveFacts
    <3>2. i \in Int /\ i < b
      BY <2>1 DEF PlacesAt
    <3> HIDE DEF a, b, x
    <3>3. 2 * i < a /\ 2 * i + 1 < a
      BY <3>1, <3>2
    <3>4. /\ 2 * i \in PlacesAt(l) /\ 2 * i + 1 \in PlacesAt(l)
          /\ Node(s, l + 1, i) = poseidon(Node(s, l, 2 * i), Node(s, l, 2 * i + 1))
          /\ Node(t, l + 1, i) = poseidon(Node(t, l, 2 * i), Node(t, l, 2 * i + 1))
      BY <2>0, NodeFacts
    <3>5. Same(l)
      BY <1>3
    <3>6. Node(t, l, 2 * i) = Node(s, l, 2 * i) /\ Node(t, l, 2 * i + 1) = Node(s, l, 2 * i + 1)
      BY <3>3, <3>4, <3>5 DEF a
    <3>7. QED
      BY <3>4, <3>6
  <2>2. QED
    BY <2>0, <2>1
<1>4. \A l \in 0..Depth : l \in S
  <2>1. \A l \in 0..Depth : l \in S /\ l < Depth => l + 1 \in S
    BY <1>3
  <2> HIDE DEF S
  <2>2. QED
    BY <1>1, <1>2, <2>1, UpTo
<1>5. QED
  BY <1>4

(* What stands beside the way up from position n. *)
Beside(s, n, k, sides, left, right) ==
  \A l \in 0..k - 1 :
    /\ sides[l] = bit(n, l)
    /\ bit(n, l) = 0 => right[l] = Node(s, l, above(n)[l] + 1)
    /\ bit(n, l) = 1 => left[l] = Node(s, l, above(n)[l] - 1)

(* A climb from a leaf beside the nodes of the full build passes its nodes. *)
LEMMA ClimbsTheTree ==
  ASSUME DepthAssumption, NEW s, NEW n \in Nat, n < capacity,
         NEW h \in Nat, NEW k \in 0..h, k <= Depth,
         NEW start, start = Node(s, 0, n), NEW sides, NEW left, NEW right,
         Beside(s, n, k, sides, left, right)
  PROVE  \A l \in 0..k : Climb(start, h, sides, left, right)[l] = Node(s, l, above(n)[l])
<1> DEFINE node == Climb(start, h, sides, left, right)
           S == {l \in 0..k : node[l] = Node(s, l, above(n)[l])}
<1>1. Depth \in Nat /\ k \in Nat
  BY DEF DepthAssumption
<1>2. 0 \in S
  <2>1. above(n)[0] = n /\ node[0] = start
    BY AboveFacts, ClimbFacts
  <2>2. QED
    BY <1>1, <2>1
<1>3. ASSUME NEW l \in 0..k, l \in S, l < k PROVE l + 1 \in S
  <2>0. /\ l + 1 \in 1..Depth /\ (l + 1) - 1 = l /\ l + 1 \in 0..Depth /\ l \in 0..k - 1
        /\ l + 1 \in 1..h /\ l + 1 \in 0..k /\ l \in 0..Depth
    BY <1>1, <1>3
  <2> DEFINE a == above(n)[l]
             b == above(n)[l + 1]
             x == bit(n, l)
  <2>1. a = 2 * b + x /\ x \in {0, 1} /\ a \in Nat /\ b \in Nat
    BY <2>0, AboveFacts
  <2>2. b \in PlacesAt(l + 1)
    <3>1. b < Width[Depth - (l + 1)]
      BY <2>0, AboveInTree
    <3>2. Width[Depth - (l + 1)] \in Nat
      BY <1>1, <2>0, WidthFacts
    <3> HIDE DEF b
    <3>3. QED
      BY <2>1, <3>1, <3>2 DEF PlacesAt
  <2>3. Node(s, l + 1, b) = poseidon(Node(s, l, 2 * b), Node(s, l, 2 * b + 1))
    BY <2>0, <2>2, NodeFacts
  <2>4. node[l + 1] = IF sides[l] = 0 THEN poseidon(node[l], right[l])
                                      ELSE poseidon(left[l], node[l])
    BY <2>0, ClimbFacts
  <2>5. node[l] = Node(s, l, a)
    BY <1>3
  <2>6. sides[l] = x /\ (x = 0 => right[l] = Node(s, l, a + 1))
                     /\ (x = 1 => left[l] = Node(s, l, a - 1))
    BY <2>0 DEF Beside
  <2> HIDE DEF a, b, x, node
  <2>7. CASE x = 0
    <3>1. a = 2 * b
      BY <2>1, <2>7
    <3>2. QED
      BY <2>0, <2>3, <2>4, <2>5, <2>6, <2>7, <3>1 DEF b
  <2>8. CASE x = 1
    <3>1. a = 2 * b + 1 /\ a - 1 = 2 * b
      BY <2>1, <2>8
    <3>2. QED
      BY <2>0, <2>3, <2>4, <2>5, <2>6, <2>8, <3>1 DEF b
  <2>9. QED
    BY <2>1, <2>7, <2>8
<1>4. \A l \in 0..k : l \in S
  <2>1. \A l \in 0..k : l \in S /\ l < k => l + 1 \in S
    BY <1>3
  <2> HIDE DEF S
  <2>2. QED
    BY <1>1, <1>2, <2>1, UpTo
<1>5. QED
  BY <1>4

-----------------------------------------------------------------------------
(* What a tree must hold.                                                   *)

\* The frontier remembers every left sibling that a later leaf will need.
FrontierHolds(frontier, s) ==
  \A l \in Levels : bit(Len(s), l) = 1 => frontier[l] = Node(s, l, above(Len(s))[l] - 1)

TreeHolds(t) ==
  /\ Len(t.commitments) <= capacity
  /\ FrontierHolds(t.frontier, t.commitments)
  /\ t.root = rootFromFullBuild(t.commitments)

(* A left child of the way up has a place on its right. *)
LEMMA RightPlace ==
  ASSUME DepthAssumption, NEW n \in Nat, n < capacity, NEW l \in Levels, bit(n, l) = 0
  PROVE  above(n)[l] + 1 \in PlacesAt(l) /\ above(n)[l] \in PlacesAt(l)
<1> DEFINE a == above(n)[l]
           b == above(n)[l + 1]
           w == Width[Depth - l]
           v == Width[Depth - (l + 1)]
<1>1. Depth \in Nat /\ l + 1 \in 1..Depth /\ (l + 1) - 1 = l /\ l \in 0..Depth
      /\ l + 1 \in 0..Depth
  BY DEF DepthAssumption, Levels
<1>2. a = 2 * b + 0 /\ a \in Nat /\ b \in Nat
  BY <1>1, AboveFacts
<1>3. w = 2 * v /\ v \in Nat /\ w \in Nat
  <2>1. Depth - l \in 1..Depth /\ (Depth - l) - 1 = Depth - (l + 1)
        /\ Depth - (l + 1) \in 0..Depth /\ Depth - l \in 0..Depth
    BY <1>1
  <2>2. QED
    BY <2>1, WidthFacts
<1>4. a < w
  BY <1>1, AboveInTree
<1> HIDE DEF a, b, w, v
<1>5. a + 1 \in 0..w - 1 /\ a \in 0..w - 1
  BY <1>2, <1>3, <1>4
<1>6. QED
  BY <1>5 DEF PlacesAt, a, w

(* The root is above every position. *)
LEMMA RootIsAbove ==
  ASSUME DepthAssumption, NEW n \in Nat, n < capacity
  PROVE  above(n)[Depth] = 0 /\ bit(n, Depth) = 0
<1>1. Depth \in 0..Depth /\ Depth - Depth = 0
  BY DEF DepthAssumption
<1>2. above(n)[Depth] < 1 /\ above(n)[Depth] \in Nat
  BY <1>1, AboveInTree, AboveFacts, WidthFacts
<1>3. above(n)[Depth] = 0
  BY <1>2
<1>4. QED
  BY <1>3 DEF bit

(* The climb beside the frontier and empty subtrees, from a position that at most
   one leaf has reached. *)
LEMMA FrontierClimb ==
  ASSUME DepthAssumption, NEW s, NEW n \in Nat, n < capacity,
         Len(s) \in Nat, Len(s) <= n + 1,
         NEW start, start = Node(s, 0, n), NEW frontier,
         \A l \in Levels : bit(n, l) = 1 => frontier[l] = Node(s, l, above(n)[l] - 1)
  PROVE  LET node == Climb(start, Depth, bits(n), frontier, zeros)
         IN /\ \A l \in 0..Depth : node[l] = Node(s, l, above(n)[l])
            /\ node[Depth] = rootFromFullBuild(s)
<1>1. Depth \in Nat /\ Depth \in 0..Depth
  BY DEF DepthAssumption
<1>2. ASSUME NEW l \in 0..Depth - 1
      PROVE  /\ bits(n)[l] = bit(n, l)
             /\ bit(n, l) = 0 => zeros[l] = Node(s, l, above(n)[l] + 1)
             /\ bit(n, l) = 1 => frontier[l] = Node(s, l, above(n)[l] - 1)
  <2>1. l \in Levels /\ l \in 0..Depth
    BY <1>1 DEF Levels
  <2>2. bits(n)[l] = bit(n, l)
    BY <2>1 DEF bits
  <2>3. ASSUME bit(n, l) = 0 PROVE zeros[l] = Node(s, l, above(n)[l] + 1)
    <3>1. above(n)[l] + 1 \in PlacesAt(l) /\ above(n)[l] \in Nat
      BY <2>1, <2>3, RightPlace, AboveFacts
    <3>2. above(n)[l] + 1 > above(n)[l]
      BY <3>1
    <3>3. QED
      BY <2>1, <3>1, <3>2, EmptyNodes
  <2>4. QED
    BY <2>1, <2>2, <2>3
<1>3. Beside(s, n, Depth, bits(n), frontier, zeros)
  BY <1>2 DEF Beside
<1>4. \A l \in 0..Depth :
        Climb(start, Depth, bits(n), frontier, zeros)[l] = Node(s, l, above(n)[l])
  BY <1>1, <1>3, ClimbsTheTree
<1>5. above(n)[Depth] = 0
  BY RootIsAbove
<1>6. QED
  BY <1>1, <1>4, <1>5 DEF Node, rootFromFullBuild

(* append() (core/members_tree.js:157) touches one node per level: of a tree
   that holds root and frontier of its leaves it makes one that holds those of
   the longer list. *)
THEOREM AppendHolds ==
  ASSUME DepthAssumption, NEW S, NEW t, t.commitments \in Seq(S), NEW leaf \in S,
         TreeHolds(t), size(t) < capacity
  PROVE  TreeHolds(append(t, leaf))
<1> DEFINE s == t.commitments
           n == Len(s)
           u == Append(s, leaf)
           node == NodesUp(t, leaf)
           new == append(t, leaf)
<1>1. /\ n \in Nat /\ n < capacity /\ size(t) = n
      /\ u \in Seq(S) /\ Len(u) = n + 1 /\ u[n + 1] = leaf
      /\ \A i \in 1..n : u[i] = s[i]
  <2>1. n \in Nat /\ n < capacity /\ size(t) = n
    BY LenProperties DEF size
  <2>2. QED
    BY <2>1, AppendProperties
<1>2. /\ new.commitments = u /\ new.root = node[Depth]
      /\ \A l \in Levels : new.frontier[l] = IF bit(n, l) = 0 THEN node[l] ELSE t.frontier[l]
  BY <1>1 DEF append
<1>3. node = Climb(leaf, Depth, bits(n), t.frontier, zeros)
  BY <1>1 DEF NodesUp
<1>4. FrontierHolds(t.frontier, s)
  BY DEF TreeHolds
<1> HIDE DEF u, node, new, n
<1>5. leaf = Node(u, 0, n)
  <2>1. n \in PlacesAt(0)
    <3>1. Depth - 0 = Depth /\ capacity \in Nat
      BY AboveFull DEF DepthAssumption
    <3>2. QED
      BY <1>1, <3>1 DEF PlacesAt, capacity
  <2>2. QED
    BY <1>1, <2>1, NodeFacts
<1>6. ASSUME NEW l \in Levels, bit(n, l) = 1
      PROVE  t.frontier[l] = Node(u, l, above(n)[l] - 1)
  <2> DEFINE a == above(n)[l]
  <2>1. l \in 0..Depth
    BY DEF Levels, DepthAssumption
  <2>2. a \in Nat /\ a < Width[Depth - l] /\ a % 2 = 1
    BY <1>1, <1>6, <2>1, AboveFacts, AboveInTree DEF bit
  <2>3. Width[Depth - l] \in Nat
    BY <2>1, WidthFacts DEF DepthAssumption
  <2> HIDE DEF a
  <2>4. a - 1 \in 0..Width[Depth - l] - 1 /\ a - 1 < a
    BY <2>2, <2>3
  <2>5. a - 1 \in PlacesAt(l) /\ a - 1 < above(Len(s))[l]
    BY <2>4 DEF PlacesAt, a, n
  <2>6. Len(s) \in Nat /\ Len(u) \in Nat /\ Len(s) <= Len(u) /\ \A i \in 1..Len(s) : u[i] = s[i]
    BY <1>1 DEF n
  <2>7. Node(u, l, a - 1) = Node(s, l, a - 1)
    BY <2>1, <2>5, <2>6, NodesStay
  <2>8. t.frontier[l] = Node(s, l, a - 1)
    BY <1>4, <1>6 DEF FrontierHolds, a, n
  <2>9. QED
    BY <2>7, <2>8 DEF a
<1>7. /\ \A l \in 0..Depth : node[l] = Node(u, l, above(n)[l])
      /\ node[Depth] = rootFromFullBuild(u)
  <2>1. Len(u) \in Nat /\ Len(u) <= n + 1
    BY <1>1
  <2>2. QED
    BY <1>1, <1>3, <1>5, <1>6, <2>1, FrontierClimb
<1>8. ASSUME NEW l \in Levels, bit(n + 1, l) = 1
      PROVE  new.frontier[l] = Node(u, l, above(n + 1)[l] - 1)
  <2> DEFINE a == above(n)[l]
             b == above(n + 1)[l]
  <2>1. l \in 0..Depth /\ n + 1 \in Nat
    BY <1>1 DEF Levels, DepthAssumption
  <2>2. a \in Nat /\ b \in Nat /\ (b = a \/ b = a + 1)
    BY <1>1, <2>1, AboveFacts, AboveNext
  <2>3. b % 2 = 1 /\ bit(n, l) = a % 2 /\ bit(n, l) \in {0, 1}
    BY <1>1, <1>8, <2>1, AboveFacts DEF bit
  <2> HIDE DEF a, b
  <2>4. CASE bit(n, l) = 0
    <3>1. b - 1 = a
      BY <2>2, <2>3, <2>4
    <3>2. new.frontier[l] = Node(u, l, a)
      BY <1>2, <1>7, <2>1, <2>4 DEF a
    <3>3. QED
      BY <3>1, <3>2 DEF b
  <2>5. CASE bit(n, l) = 1
    <3>1. b = a
      BY <2>2, <2>3, <2>5
    <3>2. new.frontier[l] = Node(u, l, a - 1)
      BY <1>2, <1>6, <2>5 DEF a
    <3>3. QED
      BY <3>1, <3>2 DEF b
  <2>6. QED
    BY <2>3, <2>4, <2>5
<1>9. FrontierHolds(new.frontier, u)
  BY <1>1, <1>8 DEF FrontierHolds
<1>10. Len(u) <= capacity
  BY <1>1, AboveFull
<1>11. QED
  BY <1>2, <1>7, <1>9, <1>10 DEF TreeHolds, new

(* The path pathFor() (core/members_tree.js:241) gives a member, climbed the way
   the circuit climbs it, ends in the root of rootFromFullBuild(). *)
THEOREM PathsLeadToRoot ==
  ASSUME DepthAssumption, NEW s, Len(s) \in Nat, Len(s) <= capacity, NEW i \in 1..Len(s)
  PROVE  RootOfPath(s[i], pathFor(s, i - 1)) = rootFromFullBuild(s)
<1> DEFINE n == i - 1
           path == pathFor(s, n)
           sides == [l \in Levels |-> path[l].bit]
           elements == [l \in Levels |-> path[l].element]
<1>1. Depth \in Nat /\ Depth \in 0..Depth
  BY DEF DepthAssumption
<1>2. capacity \in Nat
  BY AboveFull
<1>3. n \in Nat /\ n < capacity /\ n < Len(s) /\ n + 1 = i
  BY <1>2
<1>4. s[i] = Node(s, 0, n)
  <2>1. n \in PlacesAt(0)
    <3>1. Depth - 0 = Depth
      BY <1>1
    <3>2. QED
      BY <1>2, <1>3, <3>1 DEF PlacesAt, capacity
  <2> HIDE DEF n
  <2>2. QED
    BY <1>3, <2>1, NodeFacts
<1>5. ASSUME NEW l \in 0..Depth - 1
      PROVE  /\ sides[l] = bit(n, l)
             /\ bit(n, l) = 0 => elements[l] = Node(s, l, above(n)[l] + 1)
             /\ bit(n, l) = 1 => elements[l] = Node(s, l, above(n)[l] - 1)
  <2>1. l \in Levels
    BY DEF Levels
  <2> HIDE DEF n
  <2>2. QED
    BY <2>1 DEF pathFor, Node
<1> HIDE DEF n, path, sides, elements
<1>6. Beside(s, n, Depth, sides, elements, elements)
  BY <1>5 DEF Beside
<1>7. Climb(s[i], Depth, sides, elements, elements)[Depth] = Node(s, Depth, above(n)[Depth])
  BY <1>1, <1>3, <1>4, <1>6, ClimbsTheTree
<1>8. above(n)[Depth] = 0
  BY <1>3, RootIsAbove
<1>9. RootOfPath(s[i], path) = rootFromFullBuild(s)
  BY <1>7, <1>8 DEF RootOfPath, Node, rootFromFullBuild, sides, elements
<1>10. QED
  BY <1>9 DEF path, n

-----------------------------------------------------------------------------
(* The carry stack.                                                         *)

\* The nodes of the full build.
NodesOf(s) == {Node(s, l, i) : l \in 0..Depth, i \in Nat}
Entries(s) == [level : 0..Depth, node : NodesOf(s)]

\* One completed subtree for each bit of n, the highest at the bottom.
StackHolds(stack, s, n) ==
  /\ stack \in Seq(Entries(s))
  /\ \A i, j \in 1..Len(stack) : i < j => stack[i].level > stack[j].level
  /\ \A i \in 1..Len(stack) :
       /\ bit(n, stack[i].level) = 1
       /\ stack[i].node = Node(s, stack[i].level, above(n)[stack[i].level] - 1)
  /\ \A l \in 0..Depth : bit(n, l) = 1 => \E i \in 1..Len(stack) : stack[i].level = l

\* Where the combining of a new leaf stops.
StopsAt(stack, k) ==
  /\ k \in 0..Len(stack)
  /\ \A j \in 0..k - 1 : stack[Len(stack) - j].level = j
  /\ k < Len(stack) => stack[Len(stack) - k].level # k

Stop(stack) == CHOOSE k \in 0..Len(stack) :
                 /\ \A j \in 0..k - 1 : stack[Len(stack) - j].level = j
                 /\ k < Len(stack) => stack[Len(stack) - k].level # k

LEMMA StopStops ==
  ASSUME NEW stack, Len(stack) \in Nat
  PROVE  StopsAt(stack, Stop(stack))
<1> DEFINE N == Len(stack)
           S == {k \in 0..N : k < N => stack[N - k].level # k}
<1>1. N \in S /\ S \in SUBSET Nat
  OBVIOUS
<1>2. PICK k \in S : \A j \in S : k <= j
  <2> HIDE DEF S
  <2>1. QED
    BY <1>1, NatMin
<1>3. ASSUME NEW j \in 0..k - 1 PROVE stack[N - j].level = j
  <2>1. j \in 0..N /\ j < N /\ ~(k <= j)
    BY <1>2
  <2>2. j \notin S
    BY <1>2, <2>1
  <2>3. QED
    BY <2>1, <2>2
<1>4. StopsAt(stack, k)
  BY <1>2, <1>3 DEF StopsAt
<1>5. QED
  BY <1>4 DEF StopsAt, Stop

\* The stack after one more leaf, as Carried makes it.
Combined(stack, leaf) ==
  LET waiting == [k \in 0..Len(stack) - 1 |-> stack[Len(stack) - k].node]
      allRight == [k \in 0..Len(stack) - 1 |-> 1]
  IN Climb(leaf, Len(stack), allRight, waiting, waiting)

LEMMA CarriedIs ==
  ASSUME NEW stack, NEW leaf
  PROVE  Carried(stack, leaf) =
           Append(SubSeq(stack, 1, Len(stack) - Stop(stack)),
                  [level |-> Stop(stack), node |-> Combined(stack, leaf)[Stop(stack)]])
BY DEF Carried, Stop, Combined

LowestZero(stack, s, n, k) ==
  /\ k \in Nat /\ k <= Len(stack) /\ Len(stack) \in Nat /\ k <= Depth
  /\ \A j \in 0..k - 1 : /\ bit(n, j) = 1
                         /\ stack[Len(stack) - j].node = Node(s, j, above(n)[j] - 1)
  /\ bit(n, k) = 0
  /\ \A i \in 1..Len(stack) - k : stack[i].level > k
  /\ \A i \in 1..Len(stack) : i > Len(stack) - k => stack[i].level < k

(* What stops the combining is the lowest bit of n that is not set. *)
LEMMA StopIsLowestZero ==
  ASSUME DepthAssumption, NEW s, NEW n \in Nat, n < capacity, NEW stack,
         StackHolds(stack, s, n)
  PROVE  LowestZero(stack, s, n, Stop(stack))
<1> DEFINE k == Stop(stack)
           N == Len(stack)
<1>1. N \in Nat /\ Depth \in Nat /\ \A i \in 1..N : stack[i].level \in 0..Depth
  <2>1. \A e \in Entries(s) : e.level \in 0..Depth
    BY DEF Entries
  <2>2. stack \in Seq(Entries(s))
    BY DEF StackHolds
  <2>3. QED
    BY <2>1, <2>2, LenProperties, ElementOfSeq DEF DepthAssumption
<1>2. /\ k \in 0..N
      /\ \A j \in 0..k - 1 : stack[N - j].level = j
      /\ k < N => stack[N - k].level # k
  BY <1>1, StopStops DEF StopsAt
<1>3. \A i, j \in 1..N : i < j => stack[i].level > stack[j].level
  BY DEF StackHolds
<1> HIDE DEF k, N
<1>4. ASSUME NEW j \in 0..k - 1
      PROVE  /\ N - j \in 1..N /\ j \in 0..Depth
             /\ bit(n, j) = 1
             /\ stack[N - j].node = Node(s, j, above(n)[j] - 1)
  <2>1. N - j \in 1..N /\ stack[N - j].level = j
    BY <1>1, <1>2
  <2>2. QED
    BY <1>1, <2>1 DEF StackHolds, N
<1>5. ASSUME NEW i \in 1..N, i > N - k PROVE stack[i].level < k
  <2>1. N - i \in 0..k - 1 /\ N - (N - i) = i
    BY <1>1, <1>2, <1>5
  <2>2. stack[i].level = N - i
    BY <1>2, <2>1
  <2>3. QED
    BY <1>1, <1>2, <2>1, <2>2
<1>6. ASSUME NEW i \in 1..N - k PROVE stack[i].level > k
  <2>1. k < N /\ N - k \in 1..N /\ i \in 1..N
    BY <1>1, <1>2
  <2>2. stack[N - k].level \in 0..Depth /\ stack[i].level \in 0..Depth /\ stack[N - k].level # k
    BY <1>1, <1>2, <2>1
  <2>3. stack[N - k].level > k
    <3>1. CASE k = 0
      BY <2>2, <3>1
    <3>2. CASE k # 0
      <4>1. k - 1 \in 0..k - 1 /\ N - (k - 1) \in 1..N /\ N - k < N - (k - 1)
        BY <1>1, <1>2, <2>1, <3>2
      <4>2. stack[N - (k - 1)].level = k - 1
        BY <1>2, <4>1
      <4>3. stack[N - k].level > stack[N - (k - 1)].level
        BY <1>3, <2>1, <4>1
      <4>4. QED
        BY <1>2, <2>2, <4>2, <4>3
    <3>3. QED
      BY <3>1, <3>2
  <2>4. i = N - k \/ stack[i].level > stack[N - k].level
    <3>1. i = N - k \/ i < N - k
      BY <1>1, <1>2, <2>1
    <3>2. QED
      BY <1>3, <2>1, <3>1
  <2>5. QED
    BY <1>2, <2>2, <2>3, <2>4
<1>7. k <= Depth
  <2>1. CASE k = 0
    BY <1>1, <2>1
  <2>2. CASE k # 0
    <3>1. k - 1 \in 0..k - 1
      BY <1>2, <2>2
    <3>2. k - 1 \in 0..Depth /\ bit(n, k - 1) = 1
      BY <1>4, <3>1
    <3>3. bit(n, Depth) = 0
      BY RootIsAbove
    <3>4. k - 1 # Depth
      BY <3>2, <3>3
    <3>5. QED
      BY <1>1, <1>2, <3>2, <3>4
  <2>3. QED
    BY <2>1, <2>2
<1>8. bit(n, k) = 0
  <2>1. \A i \in 1..N : stack[i].level # k
    <3>1. \A i \in 1..N : i > N - k \/ i \in 1..N - k
      BY <1>1, <1>2
    <3>2. QED
      BY <1>1, <1>2, <1>5, <1>6, <3>1
  <2>2. k \in 0..Depth
    BY <1>1, <1>2, <1>7
  <2>3. bit(n, k) # 1
    BY <2>1, <2>2 DEF StackHolds, N
  <2>4. QED
    BY <2>2, <2>3, AboveFacts
<1>9. k \in Nat /\ k <= N
  BY <1>1, <1>2
<1>10. /\ \A j \in 0..k - 1 : bit(n, j) = 1 /\ stack[N - j].node = Node(s, j, above(n)[j] - 1)
       /\ \A i \in 1..N - k : stack[i].level > k
       /\ \A i \in 1..N : i > N - k => stack[i].level < k
  BY <1>4, <1>5, <1>6
<1>11. QED
  BY <1>1, <1>7, <1>8, <1>9, <1>10 DEF k, N, LowestZero

(* The carry: the bits below the lowest zero fall, it rises, the others stay. *)
LEMMA CarryOfBits ==
  ASSUME DepthAssumption, NEW n \in Nat, NEW k \in 0..Depth,
         \A j \in 0..k - 1 : bit(n, j) = 1, bit(n, k) = 0
  PROVE  /\ \A j \in 0..k : above(n + 1)[j] = above(n)[j] + 1
         /\ \A l \in 0..Depth : l > k => above(n + 1)[l] = above(n)[l]
         /\ \A j \in 0..k - 1 : bit(n + 1, j) = 0
         /\ bit(n + 1, k) = 1
         /\ \A l \in 0..Depth : l > k => bit(n + 1, l) = bit(n, l)
<1> DEFINE a == above(n)
           b == above(n + 1)
           S == {j \in 0..k : b[j] = a[j] + 1}
           T == {l \in 0..Depth : l > k => b[l] = a[l]}
<1>1. Depth \in Nat /\ k \in Nat /\ n + 1 \in Nat
  BY DEF DepthAssumption
<1>2. \A l \in 1..Depth :
        IF b[l - 1] = a[l - 1] + 1 /\ bit(n, l - 1) = 1 THEN b[l] = a[l] + 1
                                                        ELSE b[l] = a[l]
  BY AboveNext
<1>3. \A l \in 0..Depth : a[l] \in Nat /\ b[l] \in Nat
  BY <1>1, AboveFacts
<1>4. 0 \in S
  BY <1>1, AboveFacts
<1>5. ASSUME NEW j \in 0..k, j \in S, j < k PROVE j + 1 \in S
  <2>1. j + 1 \in 1..Depth /\ (j + 1) - 1 = j /\ j \in 0..k - 1 /\ j + 1 \in 0..k
    BY <1>1, <1>5
  <2>2. b[j] = a[j] + 1 /\ bit(n, j) = 1
    BY <1>5, <2>1
  <2> HIDE DEF a, b
  <2>3. b[j + 1] = a[j + 1] + 1
    BY <1>2, <2>1, <2>2
  <2>4. QED
    BY <2>1, <2>3
<1>6. \A j \in 0..k : j \in S
  <2> HIDE DEF S
  <2>1. QED
    BY <1>1, <1>4, <1>5, UpTo
<1>7. 0 \in T
  BY <1>1
<1>8. ASSUME NEW l \in 0..Depth, l \in T, l < Depth PROVE l + 1 \in T
  <2>1. l + 1 \in 1..Depth /\ (l + 1) - 1 = l /\ l + 1 \in 0..Depth
    BY <1>1, <1>8
  <2>2. CASE l < k
    BY <1>1, <2>1, <2>2
  <2>3. CASE l = k
    <3>1. bit(n, l) # 1
      BY <2>3
    <3> HIDE DEF a, b
    <3>2. b[l + 1] = a[l + 1]
      BY <1>2, <2>1, <3>1
    <3>3. QED
      BY <2>1, <3>2
  <2>4. CASE l > k
    <3>1. b[l] = a[l] /\ a[l] \in Nat
      BY <1>3, <1>8, <2>4
    <3>2. b[l] # a[l] + 1
      BY <3>1
    <3> HIDE DEF a, b
    <3>3. b[l + 1] = a[l + 1]
      BY <1>2, <2>1, <3>2
    <3>4. QED
      BY <2>1, <3>3
  <2>5. QED
    BY <1>1, <2>2, <2>3, <2>4
<1>9. \A l \in 0..Depth : l \in T
  <2> HIDE DEF T
  <2>1. QED
    BY <1>1, <1>7, <1>8, UpTo
<1>10. \A j \in 0..k : b[j] = a[j] + 1
  BY <1>6
<1>11. \A l \in 0..Depth : l > k => b[l] = a[l]
  BY <1>9
<1>12. ASSUME NEW j \in 0..k - 1 PROVE bit(n + 1, j) = 0
  <2>1. a[j] \in Nat /\ b[j] = a[j] + 1 /\ a[j] % 2 = 1
    BY <1>1, <1>3, <1>10 DEF bit
  <2> HIDE DEF a, b
  <2>2. b[j] % 2 = 0
    BY <2>1
  <2>3. QED
    BY <2>2 DEF bit, b
<1>13. bit(n + 1, k) = 1
  <2>1. a[k] \in Nat /\ b[k] = a[k] + 1 /\ a[k] % 2 = 0
    BY <1>1, <1>3, <1>10 DEF bit
  <2> HIDE DEF a, b
  <2>2. b[k] % 2 = 1
    BY <2>1
  <2>3. QED
    BY <2>2 DEF bit, b
<1>14. \A l \in 0..Depth : l > k => bit(n + 1, l) = bit(n, l)
  BY <1>11 DEF bit
<1>15. QED
  BY <1>10, <1>11, <1>12, <1>13, <1>14

(* A new leaf combines up to the lowest zero, into a node of the full build. *)
LEMMA CombinedIsNode ==
  ASSUME DepthAssumption, NEW s, NEW n \in Nat, n < capacity, Len(s) \in Nat, n < Len(s),
         NEW stack, StackHolds(stack, s, n)
  PROVE  LET k == Stop(stack)
         IN Combined(stack, s[n + 1])[k] = Node(s, k, above(n)[k])
<1> DEFINE k == Stop(stack)
           N == Len(stack)
           waiting == [j \in 0..N - 1 |-> stack[N - j].node]
           allRight == [j \in 0..N - 1 |-> 1]
<1>1. /\ k \in Nat /\ k <= N /\ N \in Nat /\ k <= Depth
      /\ \A j \in 0..k - 1 : bit(n, j) = 1 /\ stack[N - j].node = Node(s, j, above(n)[j] - 1)
  <2>1. LowestZero(stack, s, n, k)
    BY StopIsLowestZero
  <2> HIDE DEF k, waiting, allRight
  <2>2. QED
    BY <2>1 DEF LowestZero
<1>2. Combined(stack, s[n + 1]) = Climb(s[n + 1], N, allRight, waiting, waiting)
  BY DEF Combined
<1> HIDE DEF k, N
<1>3. ASSUME NEW j \in 0..k - 1
      PROVE  allRight[j] = 1 /\ waiting[j] = stack[N - j].node
  BY <1>1
<1> HIDE DEF waiting, allRight
<1>4. ASSUME NEW j \in 0..k - 1
      PROVE  /\ allRight[j] = bit(n, j)
             /\ bit(n, j) = 0 => waiting[j] = Node(s, j, above(n)[j] + 1)
             /\ bit(n, j) = 1 => waiting[j] = Node(s, j, above(n)[j] - 1)
  BY <1>1, <1>3
<1>5. Beside(s, n, k, allRight, waiting, waiting)
  BY <1>4 DEF Beside
<1>6. s[n + 1] = Node(s, 0, n)
  <2>1. n \in PlacesAt(0)
    <3>1. Depth - 0 = Depth /\ capacity \in Nat
      BY AboveFull DEF DepthAssumption
    <3>2. QED
      BY <3>1 DEF PlacesAt, capacity
  <2>2. QED
    BY <2>1, NodeFacts
<1>7. k \in 0..k /\ k \in 0..N
  BY <1>1
<1>8. Climb(s[n + 1], N, allRight, waiting, waiting)[k] = Node(s, k, above(n)[k])
  BY <1>1, <1>5, <1>6, <1>7, ClimbsTheTree
<1>9. QED
  BY <1>2, <1>8 DEF k

(* One more leaf on the stack. *)
LEMMA CarriedHolds ==
  ASSUME DepthAssumption, NEW s, NEW n \in Nat, n < capacity, Len(s) \in Nat, n < Len(s),
         NEW stack, StackHolds(stack, s, n)
  PROVE  StackHolds(Carried(stack, s[n + 1]), s, n + 1)
<1> DEFINE k == Stop(stack)
           N == Len(stack)
           m == N - k
           entry == [level |-> k, node |-> Combined(stack, s[n + 1])[k]]
           low == SubSeq(stack, 1, m)
           new == Append(low, entry)
<1>1. /\ k \in Nat /\ k <= N /\ N \in Nat /\ k <= Depth
      /\ \A j \in 0..k - 1 : bit(n, j) = 1
      /\ bit(n, k) = 0
      /\ \A i \in 1..m : stack[i].level > k
      /\ \A i \in 1..N : i > m => stack[i].level < k
  <2>1. LowestZero(stack, s, n, k)
    BY ONLY DepthAssumption, n \in Nat, n < capacity, StackHolds(stack, s, n), StopIsLowestZero
  <2>2. QED
    BY ONLY <2>1 DEF LowestZero
<1>2. Carried(stack, s[n + 1]) = new
  BY CarriedIs
<1>3. entry.level = k /\ entry.node = Node(s, k, above(n)[k])
  BY CombinedIsNode
<1>4. k \in 0..Depth /\ Depth \in Nat /\ m \in Nat
  BY <1>1 DEF DepthAssumption
<1>5. entry \in Entries(s)
  <2>1. above(n)[k] \in Nat
    BY <1>4, AboveFacts
  <2>2. Node(s, k, above(n)[k]) \in NodesOf(s)
    BY <1>4, <2>1 DEF NodesOf
  <2>3. QED
    BY <1>3, <1>4, <2>2 DEF Entries
<1> HIDE DEF k, entry
<1>6. /\ low \in Seq(Entries(s)) /\ Len(low) = m /\ \A i \in 1..m : low[i] = stack[i]
  <2>1. stack \in Seq(Entries(s))
    BY DEF StackHolds
  <2>2. \A i \in 1..m : stack[i] \in Entries(s) /\ i \in 1..N
    BY <1>1, <1>4, <2>1, ElementOfSeq
  <2> HIDE DEF N, m
  <2>3. QED
    BY <1>4, <2>2, SubSeqProperties
<1> HIDE DEF low, m, N
<1>7. /\ new \in Seq(Entries(s)) /\ Len(new) = m + 1 /\ new[m + 1] = entry
      /\ \A i \in 1..m : new[i] = stack[i]
  BY <1>4, <1>5, <1>6, AppendProperties
<1> HIDE DEF new
<1>8. /\ \A j \in 0..k : above(n + 1)[j] = above(n)[j] + 1
      /\ \A l \in 0..Depth : l > k => above(n + 1)[l] = above(n)[l]
      /\ \A j \in 0..k - 1 : bit(n + 1, j) = 0
      /\ bit(n + 1, k) = 1
      /\ \A l \in 0..Depth : l > k => bit(n + 1, l) = bit(n, l)
  BY <1>1, <1>4, CarryOfBits
<1>9. \A i \in 1..m : /\ i \in 1..N /\ stack[i].level \in 0..Depth /\ stack[i].level > k
  <2>1. \A i \in 1..m : i \in 1..N
    BY <1>1, <1>4 DEF m
  <2>2. \A e \in Entries(s) : e.level \in 0..Depth
    BY DEF Entries
  <2>3. \A i \in 1..N : stack[i] \in Entries(s)
    BY ElementOfSeq DEF StackHolds, N
  <2>4. QED
    BY <1>1, <2>1, <2>2, <2>3
<1>10. ASSUME NEW i \in 1..Len(new), NEW j \in 1..Len(new), i < j
       PROVE  new[i].level > new[j].level
  <2>1. i \in 1..m
    BY <1>4, <1>7, <1>10
  <2>2. CASE j \in 1..m
    <3>1. stack[i].level > stack[j].level
      BY <1>9, <1>10, <2>1, <2>2 DEF StackHolds, N
    <3>2. QED
      BY <1>7, <2>1, <2>2, <3>1
  <2>3. CASE j = m + 1
    BY <1>3, <1>7, <1>9, <2>1, <2>3
  <2>4. QED
    BY <1>4, <1>7, <2>2, <2>3
<1>11. ASSUME NEW i \in 1..Len(new)
       PROVE  /\ bit(n + 1, new[i].level) = 1
              /\ new[i].node = Node(s, new[i].level, above(n + 1)[new[i].level] - 1)
  <2>1. CASE i \in 1..m
    <3>1. /\ bit(n, stack[i].level) = 1
          /\ stack[i].node = Node(s, stack[i].level, above(n)[stack[i].level] - 1)
      BY <1>9, <2>1 DEF StackHolds, N
    <3>2. QED
      BY <1>7, <1>8, <1>9, <2>1, <3>1
  <2>2. CASE i = m + 1
    <3>1. above(n + 1)[k] - 1 = above(n)[k]
      <4>1. above(n)[k] \in Nat /\ above(n + 1)[k] = above(n)[k] + 1
        BY <1>1, <1>4, <1>8, AboveFacts
      <4>2. QED
        BY <4>1
    <3>2. QED
      BY <1>3, <1>7, <1>8, <2>2, <3>1
  <2>3. QED
    BY <1>4, <1>7, <2>1, <2>2
<1>12. ASSUME NEW l \in 0..Depth, bit(n + 1, l) = 1
       PROVE  \E i \in 1..Len(new) : new[i].level = l
  <2>1. l >= k
    BY <1>1, <1>8, <1>12
  <2>2. CASE l = k
    BY <1>3, <1>4, <1>7, <2>2
  <2>3. CASE l > k
    <3>1. bit(n, l) = 1
      BY <1>8, <1>12, <2>3
    <3>2. PICK i \in 1..N : stack[i].level = l
      BY <3>1 DEF StackHolds, N
    <3>3. ~(i > m)
      BY <1>1, <1>4, <2>3, <3>2
    <3>4. i \in 1..m /\ i \in 1..Len(new)
      BY <1>4, <1>7, <3>3
    <3>5. QED
      BY <1>7, <3>2, <3>4
  <2>4. QED
    BY <1>1, <2>1, <2>2, <2>3
<1>13. StackHolds(new, s, n + 1)
  BY <1>7, <1>10, <1>11, <1>12 DEF StackHolds
<1>14. QED
  BY <1>2, <1>13

LEMMA StackOfLeaves ==
  ASSUME DepthAssumption, NEW s, Len(s) \in Nat, Len(s) <= capacity
  PROVE  StackHolds(CarryStack(s), s, Len(s))
<1> DEFINE N == Len(s)
           S == {n \in 0..N : StackHolds(CarryStacks(s)[n], s, n)}
<1>1. N \in Nat /\ capacity \in Nat /\ Depth \in Nat
  BY AboveFull DEF DepthAssumption
<1>2. 0 \in S
  <2>1. CarryStacks(s)[0] = <<>>
    BY StacksFacts
  <2>2. <<>> \in Seq(Entries(s)) /\ Len(<<>>) = 0
    OBVIOUS
  <2>3. \A l \in 0..Depth : bit(0, l) = 0
    <3> DEFINE Z == {l \in 0..Depth : above(0)[l] = 0}
    <3>1. 0 \in Z
      BY <1>1, AboveFacts
    <3>2. ASSUME NEW l \in 0..Depth, l \in Z, l < Depth PROVE l + 1 \in Z
      <4>1. l + 1 \in 1..Depth /\ (l + 1) - 1 = l /\ l + 1 \in 0..Depth
        BY <1>1, <3>2
      <4>2. /\ above(0)[l] = 2 * above(0)[l + 1] + bit(0, l) /\ above(0)[l + 1] \in Nat
            /\ bit(0, l) \in {0, 1} /\ above(0)[l] = 0
        BY <3>2, <4>1, AboveFacts
      <4>3. above(0)[l + 1] = 0
        BY <4>2
      <4>4. QED
        BY <4>1, <4>3
    <3> HIDE DEF Z
    <3>3. \A l \in 0..Depth : l \in Z
      BY <1>1, <3>1, <3>2, UpTo
    <3>4. QED
      BY <3>3 DEF Z, bit
  <2>4. StackHolds(<<>>, s, 0)
    <3>1. \A i \in 1..Len(<<>>) : FALSE
      BY <2>2
    <3>2. QED
      BY <2>2, <2>3, <3>1 DEF StackHolds
  <2>5. QED
    BY <1>1, <2>1, <2>4
<1>3. ASSUME NEW n \in 0..N, n \in S, n < N PROVE n + 1 \in S
  <2>1. /\ n \in Nat /\ n < capacity /\ n + 1 \in 1..Len(s) /\ (n + 1) - 1 = n
        /\ n + 1 \in 0..N
    BY <1>1, <1>3
  <2>2. CarryStacks(s)[n + 1] = Carried(CarryStacks(s)[n], s[n + 1])
    BY <2>1, StacksFacts
  <2>3. StackHolds(CarryStacks(s)[n], s, n)
    BY <1>3
  <2>4. StackHolds(CarryStacks(s)[n + 1], s, n + 1)
    BY <1>3, <2>1, <2>2, <2>3, CarriedHolds
  <2>5. QED
    BY <2>1, <2>4
<1>4. N \in S
  <2>1. \A n \in 0..N : n \in S /\ n < N => n + 1 \in S
    BY <1>3
  <2> HIDE DEF S, N
  <2>2. \A n \in 0..N : n \in S
    BY <1>1, <1>2, <2>1, UpTo
  <2>3. QED
    BY <1>1, <2>2
<1>5. QED
  BY <1>4 DEF CarryStack

(* fromCommitments() (core/members_tree.js:92), one pass over the log with a
   carry stack, holds the root and the frontier of its leaves, an exactly full
   tree too. *)
THEOREM RebuildHolds ==
  ASSUME DepthAssumption, NEW s, Len(s) \in Nat, Len(s) <= capacity
  PROVE  TreeHolds(fromCommitments(s))
<1> DEFINE n == Len(s)
           stack == CarryStack(s)
           frontier == FrontierOf(stack)
           t == fromCommitments(s)
<1>1. StackHolds(stack, s, n) /\ n \in Nat /\ capacity \in Nat /\ Depth \in Nat
  BY StackOfLeaves, AboveFull DEF DepthAssumption
<1>2. /\ t.commitments = s /\ t.frontier = frontier
      /\ t.root = IF n = capacity THEN stack[1].node ELSE FoldedRoot(frontier, n)
  BY DEF fromCommitments
<1>3. Len(stack) \in Nat /\ DOMAIN stack = 1..Len(stack)
      /\ \A i \in 1..Len(stack) : stack[i].level \in 0..Depth
  <2>1. stack \in Seq(Entries(s))
    BY <1>1 DEF StackHolds
  <2>2. \A e \in Entries(s) : e.level \in 0..Depth
    BY DEF Entries
  <2> HIDE DEF stack
  <2>3. QED
    BY <2>1, <2>2, LenProperties, ElementOfSeq
<1> HIDE DEF stack, t
<1>4. ASSUME NEW l \in Levels, bit(n, l) = 1
      PROVE  frontier[l] = Node(s, l, above(n)[l] - 1)
  <2>1. l \in 0..Depth
    BY <1>1 DEF Levels
  <2>2. \E i \in DOMAIN stack : stack[i].level = l
    BY <1>1, <1>3, <1>4, <2>1 DEF StackHolds
  <2> DEFINE i == CHOOSE j \in DOMAIN stack : stack[j].level = l
  <2>3. i \in DOMAIN stack /\ stack[i].level = l
    BY <2>2
  <2>4. frontier[l] = stack[i].node
    BY <2>2 DEF FrontierOf
  <2> HIDE DEF i
  <2>5. stack[i].node = Node(s, l, above(n)[l] - 1)
    BY <1>1, <1>3, <2>3 DEF StackHolds
  <2>6. QED
    BY <2>4, <2>5
<1> HIDE DEF frontier
<1>5. t.root = rootFromFullBuild(s)
  <2>1. CASE n = capacity
    <3>1. \A l \in 0..Depth : above(n)[l] = Width[Depth - l]
      BY <2>1, AboveFull
    <3>2. above(n)[Depth] = 1 /\ bit(n, Depth) = 1
      <4>1. Depth \in 0..Depth /\ Depth - Depth = 0
        BY <1>1
      <4>2. above(n)[Depth] = 1
        BY <3>1, <4>1, WidthFacts
      <4>3. QED
        BY <4>2 DEF bit
    <3>3. ASSUME NEW l \in Levels PROVE bit(n, l) = 0
      <4>1. /\ l \in 0..Depth /\ Depth - l \in 1..Depth /\ Depth - l \in 0..Depth
            /\ (Depth - l) - 1 \in 0..Depth
        BY <1>1 DEF Levels
      <4>2. /\ Width[Depth - l] = 2 * Width[(Depth - l) - 1]
            /\ Width[(Depth - l) - 1] \in Nat /\ above(n)[l] = Width[Depth - l]
        BY <3>1, <4>1, WidthFacts
      <4> DEFINE a == above(n)[l]
                 w == Width[(Depth - l) - 1]
      <4>3. a = 2 * w /\ w \in Nat
        BY <4>2
      <4> HIDE DEF a, w
      <4>4. a % 2 = 0
        BY <4>3
      <4>5. QED
        BY <4>4 DEF bit, a
    <3>4. \E i \in 1..Len(stack) : stack[i].level = Depth
      BY <1>1, <3>2 DEF StackHolds
    <3>5. 1 \in 1..Len(stack)
      BY <1>3, <3>4
    <3>6. stack[1].level = Depth
      <4>1. bit(n, stack[1].level) = 1
        BY <1>1, <3>5 DEF StackHolds
      <4>2. stack[1].level \notin Levels
        BY <3>3, <4>1
      <4>3. QED
        BY <1>1, <1>3, <3>5, <4>2 DEF Levels
    <3>7. stack[1].node = Node(s, Depth, above(n)[Depth] - 1)
      BY <1>1, <3>5, <3>6 DEF StackHolds
    <3>8. above(n)[Depth] - 1 = 0
      BY <3>2
    <3>9. QED
      BY <1>2, <2>1, <3>7, <3>8 DEF Node, rootFromFullBuild
  <2>2. CASE n # capacity
    <3>1. n < capacity
      BY <1>1, <2>2
    <3>2. EmptyLeaf = Node(s, 0, n)
      <4>1. n \in PlacesAt(0)
        <5>1. Depth - 0 = Depth
          BY <1>1
        <5>2. QED
          BY <1>1, <3>1, <5>1 DEF PlacesAt, capacity
      <4>2. QED
        BY <1>1, <4>1, NodeFacts
    <3>3. Len(s) <= n + 1
      BY <1>1
    <3> HIDE DEF n
    <3>4. Climb(EmptyLeaf, Depth, bits(n), frontier, zeros)[Depth] = rootFromFullBuild(s)
      BY <1>1, <1>4, <3>1, <3>2, <3>3, FrontierClimb
    <3>5. QED
      BY <1>2, <2>2, <3>4 DEF FoldedRoot
  <2>3. QED
    BY <2>1, <2>2
<1>6. FrontierHolds(t.frontier, s)
  BY <1>2, <1>4 DEF FrontierHolds
<1>7. QED
  BY <1>2, <1>5, <1>6 DEF TreeHolds, t

(* So is the tree a context starts with. *)
LEMMA EmptyTreeHolds == ASSUME DepthAssumption PROVE TreeHolds(EmptyTree)
<1>1. Depth \in Nat /\ <<>> \in Seq({}) /\ Len(<<>>) = 0
  BY EmptySeq DEF DepthAssumption
<1>2. \A l \in 0..Depth : above(0)[l] = 0
  <2> DEFINE S == {l \in 0..Depth : above(0)[l] = 0}
  <2>1. 0 \in S
    BY <1>1, AboveFacts
  <2>2. ASSUME NEW l \in 0..Depth, l \in S, l < Depth PROVE l + 1 \in S
    <3>1. l + 1 \in 1..Depth /\ l + 1 \in 0..Depth /\ (l + 1) - 1 = l
      BY <1>1, <2>2
    <3>2. /\ above(0)[l] = 2 * above(0)[l + 1] + bit(0, l)
          /\ above(0)[l + 1] \in Nat /\ bit(0, l) \in {0, 1}
      BY <3>1, AboveFacts
    <3>3. QED
      BY <2>2, <3>1, <3>2
  <2> HIDE DEF S
  <2>3. \A l \in 0..Depth : l \in S
    BY <1>1, <2>1, <2>2, UpTo
  <2>4. QED
    BY <2>3 DEF S
<1>3. \A l \in 0..Depth : \A i \in PlacesAt(l) : Node(<<>>, l, i) = zeros[l]
  <2> DEFINE S == {l \in 0..Depth : \A i \in PlacesAt(l) : Node(<<>>, l, i) = zeros[l]}
  <2>1. 0 \in S
    <3>1. ASSUME NEW i \in PlacesAt(0) PROVE Node(<<>>, 0, i) = zeros[0]
      <4>1. i \in Nat
        BY <1>1, WidthFacts DEF PlacesAt
      <4>2. QED
        BY <1>1, <4>1, NodeFacts, ZerosFacts
    <3>2. QED
      BY <1>1, <3>1
  <2>2. ASSUME NEW l \in 0..Depth, l \in S, l < Depth PROVE l + 1 \in S
    <3>1. l + 1 \in 1..Depth /\ l + 1 \in 0..Depth /\ (l + 1) - 1 = l
      BY <1>1, <2>2
    <3>2. ASSUME NEW i \in PlacesAt(l + 1) PROVE Node(<<>>, l + 1, i) = zeros[l + 1]
      <4>1. /\ 2 * i \in PlacesAt(l) /\ 2 * i + 1 \in PlacesAt(l)
            /\ Node(<<>>, l + 1, i) = poseidon(Node(<<>>, l, 2 * i), Node(<<>>, l, 2 * i + 1))
        BY <3>1, NodeFacts
      <4>2. zeros[l + 1] = poseidon(zeros[l], zeros[l])
        BY <3>1, ZerosFacts
      <4>3. QED
        BY <2>2, <4>1, <4>2
    <3>3. QED
      BY <3>1, <3>2
  <2> HIDE DEF S
  <2>3. \A l \in 0..Depth : l \in S
    BY <1>1, <2>1, <2>2, UpTo
  <2>4. QED
    BY <2>3 DEF S
<1>4. 0 \in PlacesAt(Depth) /\ Depth \in 0..Depth
  BY <1>1, WidthFacts DEF PlacesAt
<1>5. /\ EmptyTree.commitments = <<>> /\ EmptyTree.root = zeros[Depth]
  BY DEF EmptyTree
<1>6. rootFromFullBuild(<<>>) = zeros[Depth]
  BY <1>3, <1>4 DEF rootFromFullBuild, Node
<1>7. \A l \in Levels : bit(0, l) = 0
  BY <1>1, <1>2 DEF bit, Levels
<1>8. FrontierHolds(EmptyTree.frontier, <<>>)
  BY <1>1, <1>7 DEF FrontierHolds
<1> QED
  BY <1>1, <1>5, <1>6, <1>8, AboveFull DEF TreeHolds
-----------------------------------------------------------------------------
(* The inductive invariant.                                                *)

Leaf == Range(Earlier) \cup {LeafOf(r) : r \in Registrations}
Buckets == Seasons \X Contexts

\* t begins with the leaves of s.
Begins(s, t) == Len(s) <= Len(t) /\ \A i \in 1..Len(s) : t[i] = s[i]

\* A root of as many leaves of the log as it claims.
RootOfLog(entry, log) == entry.root = rootFromFullBuild(SubSeq(log, 1, entry.height))

\* Every root of a window is one that the first n leaves of the log have had.
WindowHolds(roots, log, n) ==
  /\ roots \in Seq(Range(roots))
  /\ \A i \in 1..Len(roots) : roots[i].height \in 0..n /\ RootOfLog(roots[i], log)

\* A cached tree and root window beside the log they were made from.
FitsLog(cached, log) ==
  /\ cached.tree.commitments \in Seq(Leaf)
  /\ Begins(cached.tree.commitments, log)
  /\ TreeHolds(cached.tree)
  /\ WindowHolds(cached.roots, log, size(cached.tree))

LogInv ==
  /\ leaves \in [Buckets -> Seq(Leaf)]
  /\ \A b \in Buckets : Len(leaves[b]) <= capacity

CacheInv ==
  /\ current \in Seasons
  /\ DOMAIN trees = Contexts
  /\ \A c \in Contexts : trees[c] = Unbuilt \/ FitsLog(trees[c], LogOf(c))

\* Every roll was asked for by a handler that had observed the season.
ClockInv ==
  /\ clock \in Clock /\ marks \in Marks /\ file \in Marks
  /\ current <= marks.season

Writing == {"write", "append"}
RegisterPcs ==
  {"idle", "registerBody", "ensure", "has", "proof", "hasAgain", "recover", "commit", "done"}
    \cup Writing

\* A season a handler has read from the guard.
Observed(s) == s \in Seasons /\ s <= marks.season

\* From its capacity check to its write a commit is the head of the queue: the
\* season is the cache's and the log has room.
RegisterInv(r) ==
  /\ pc[r] \in RegisterPcs
  /\ pc[r] \notin {"idle", "done"} => job[r] \in [ctx : Contexts, season : Seasons \cup {NoMark}]
  /\ pc[r] \notin {"idle", "done", "registerBody"} => Observed(job[r].season)
  /\ pc[r] = "recover" => Has(r)
  /\ pc[r] \in Writing => /\ ops # <<>> /\ Head(ops) = r
                          /\ job[r].season = current
                          /\ Len(leaves[Bucket(r)]) < capacity

TimerInv(t) ==
  /\ pc[t] \in {"idle", "ensure"}
  /\ pc[t] = "ensure" => job[t] \in [season : Seasons] /\ Observed(job[t].season)

\* A member's job from the challenge on; a root is any value.
MemberJob(j) ==
  j \in [ctx : Contexts, season : Seasons \cup {NoMark}, epoch : Epochs \cup {NoMark},
         roll : Seasons \cup {NoMark}, root : {j.root}, window : Seasons \cup {NoMark}]

Browsing == {"membersEnsure", "membersRead"}
Rolling == {"challengeEnsure", "verifyEnsure"}
Rolled == {"mint", "challenged", "verifyBody", "verifyEnsure", "window"}
Proving == {"proof", "spend"}
MemberPcs == {"idle", "done", "challengeBody"} \cup Browsing \cup Rolling \cup Rolled \cup Proving

\* The cache has reached the season of the challenge when the challenge is
\* minted, and the window a proof is checked against had a leaf of its key.
MemberInv(v) ==
  /\ pc[v] \in MemberPcs
  /\ pc[v] \in Browsing => job[v] \in [ctx : Contexts, roll : Seasons] /\ Observed(job[v].roll)
  /\ pc[v] \in {"challengeBody"} \cup Rolling \cup Rolled \cup Proving => MemberJob(job[v])
  /\ pc[v] \in Rolling => Observed(job[v].roll)
  /\ pc[v] = "challengeEnsure" => job[v].season = job[v].roll
  /\ pc[v] \in Rolled \cup Proving => job[v].season \in Seasons /\ job[v].season <= current
  /\ pc[v] \in Proving => /\ job[v].window \in Seasons
                          /\ KeyOf[v] \in KeysOf(leaves[<<job[v].window, job[v].ctx>>])

HandlerInv(h) ==
  /\ h \in Registrations => RegisterInv(h)
  /\ h \in Members => MemberInv(h)
  /\ h \in Timers => TimerInv(h)

FlowInv ==
  /\ ops \in Seq(Handlers)
  /\ DOMAIN pc = Handlers /\ DOMAIN job = Handlers
  /\ \A h \in Handlers : HandlerInv(h)

Answer == [kind : {"ok", "already-registered"}, request : Registrations, bucket : Buckets,
           index : Nat]
AnswerHolds(a) == IF a.kind = "ok" THEN OkKeepsItsLeaf(a) ELSE AlreadyIsServed(a)

\* AlreadyIsServed speaks of the season of the cache only: a later process may
\* come back to an earlier season, so the log keeps the key there too.
ToldInv ==
  /\ told \subseteq Answer
  /\ \A a \in told : KeyOf[a.request] \in KeysOf(leaves[a.bucket]) /\ AnswerHolds(a)

Grant == [key : Keys, ctx : Contexts, season : Seasons]
GrantInv == granted \subseteq Grant /\ GrantNeedsRegistration

SeasonInv == LogInv /\ CacheInv /\ ClockInv /\ FlowInv /\ ToldInv /\ GrantInv
-----------------------------------------------------------------------------
(* Trees and logs.                                                         *)

LEMMA CapacityIsInt == capacity \in Int
  BY DepthAssumption, AboveFull

LEMMA LeafTypes ==
  /\ Earlier \in Seq(Leaf)
  /\ \A r \in Registrations : LeafOf(r) \in Leaf /\ LeafOf(r).key = KeyOf[r]
<1>1. Earlier \in Seq(Range(Earlier)) /\ Range(Earlier) \subseteq Leaf
  BY SeasonAssumption DEF Leaf
<1>2. QED
  BY <1>1, SeqMonotonic DEF Leaf, LeafOf

LEMMA BeginsTransitively ==
  ASSUME NEW s \in Seq(Leaf), NEW t \in Seq(Leaf), NEW u \in Seq(Leaf),
         Begins(s, t), Begins(t, u)
  PROVE  Begins(s, u)
  BY DEF Begins

LEMMA BeginsItself == \A s \in Seq(Leaf) : Begins(s, s)
  BY DEF Begins

(* What a log holds stays in a longer one. *)
LEMMA KeysStay ==
  ASSUME NEW s \in Seq(Leaf), NEW t \in Seq(Leaf), Begins(s, t)
  PROVE  KeysOf(s) \subseteq KeysOf(t)
  BY DEF Begins, KeysOf

LEMMA SameIfAsLong ==
  ASSUME NEW s \in Seq(Leaf), NEW t \in Seq(Leaf), Begins(s, t), Len(t) <= Len(s)
  PROVE  s = t
  BY SeqEqual DEF Begins

LEMMA AppendBegins ==
  ASSUME NEW s \in Seq(Leaf), NEW e \in Leaf
  PROVE  /\ Append(s, e) \in Seq(Leaf)
         /\ Len(Append(s, e)) = Len(s) + 1
         /\ Append(s, e)[Len(s) + 1] = e
         /\ Begins(s, Append(s, e))
         /\ e.key \in KeysOf(Append(s, e))
<1>1. /\ Append(s, e) \in Seq(Leaf) /\ Len(Append(s, e)) = Len(s) + 1
      /\ \A i \in 1..Len(s) : Append(s, e)[i] = s[i]
      /\ Append(s, e)[Len(s) + 1] = e
  BY AppendProperties
<1>2. Len(s) \in Nat /\ DOMAIN Append(s, e) = 1..Len(s) + 1
  BY <1>1, LenProperties
<1>3. Begins(s, Append(s, e))
  BY <1>1, <1>2 DEF Begins
<1>4. e.key \in KeysOf(Append(s, e))
  BY <1>1, <1>2 DEF KeysOf
<1> QED
  BY <1>1, <1>3, <1>4

LEMMA TreeLeaves ==
  /\ \A s : fromCommitments(s).commitments = s
  /\ \A t, e : append(t, e).commitments = Append(t.commitments, e)
  /\ EmptyTree.commitments = <<>>
  BY DEF fromCommitments, append, EmptyTree

LEMMA PrefixStays ==
  ASSUME NEW s \in Seq(Leaf), NEW t \in Seq(Leaf), Begins(s, t), NEW h \in 0..Len(s)
  PROVE  SubSeq(t, 1, h) = SubSeq(s, 1, h)
<1>1. Len(s) \in Nat /\ Len(t) \in Nat /\ h \in Nat /\ h <= Len(s) /\ h <= Len(t)
  BY LenProperties DEF Begins
<1>2. \A i \in 1..h : i \in 1..Len(s) /\ i \in 1..Len(t) /\ t[i] = s[i]
  BY <1>1 DEF Begins
<1>3. \A i \in 1..h : s[i] \in Leaf /\ t[i] \in Leaf
  BY <1>2, ElementOfSeq
<1>4. /\ SubSeq(s, 1, h) \in Seq(Leaf) /\ Len(SubSeq(s, 1, h)) = h
      /\ \A i \in 1..h : SubSeq(s, 1, h)[i] = s[i]
  BY <1>1, <1>3, SubSeqProperties
<1>5. /\ SubSeq(t, 1, h) \in Seq(Leaf) /\ Len(SubSeq(t, 1, h)) = h
      /\ \A i \in 1..h : SubSeq(t, 1, h)[i] = t[i]
  BY <1>1, <1>3, SubSeqProperties
<1> QED
  BY <1>2, <1>4, <1>5, SeqEqual

(* A longer log, or one leaf more, leaves a window as true as it was. *)
LEMMA WindowStays ==
  ASSUME NEW s \in Seq(Leaf), NEW t \in Seq(Leaf), Begins(s, t),
         NEW n \in Nat, n <= Len(s), NEW m \in Nat, n <= m,
         NEW roots, WindowHolds(roots, s, n)
  PROVE  WindowHolds(roots, t, m)
<1>1. ASSUME NEW i \in 1..Len(roots) PROVE roots[i].height \in 0..m /\ RootOfLog(roots[i], t)
  <2>1. roots[i].height \in 0..n /\ RootOfLog(roots[i], s)
    BY DEF WindowHolds
  <2>2. roots[i].height \in 0..m /\ roots[i].height \in 0..Len(s)
    BY <2>1, LenProperties
  <2>3. SubSeq(t, 1, roots[i].height) = SubSeq(s, 1, roots[i].height)
    BY <2>2, PrefixStays
  <2>4. QED
    BY <2>1, <2>2, <2>3 DEF RootOfLog
<1> QED
  BY <1>1 DEF WindowHolds

(* The root of a sound tree is the root of its leaves. *)
LEMMA RootedIsOfLog ==
  ASSUME NEW t, t.commitments \in Seq(Leaf), TreeHolds(t)
  PROVE  RootOfLog(Rooted(t), t.commitments)
<1>1. SubSeq(t.commitments, 1, Len(t.commitments)) = t.commitments
  BY SubSeqFull
<1>2. Rooted(t).height = Len(t.commitments) /\ Rooted(t).root = t.root
  BY DEF Rooted, size
<1> QED
  BY <1>1, <1>2 DEF RootOfLog, TreeHolds

(* RootStore.update() with a root above all others: it comes last, and nothing
   of its height is replaced. *)
LEMMA UpdatedRoots ==
  ASSUME NEW roots, NEW log, NEW n \in Nat, WindowHolds(roots, log, n),
         NEW root, root.height = n + 1, RootOfLog(root, log)
  PROVE  WindowHolds(Updated(roots, root), log, n + 1)
<1> DEFINE all == Append(roots, root)
           low == IF Len(all) > RootWindow THEN Len(all) - RootWindow + 1 ELSE 1
           any == Range(roots) \cup {root}
           new == Updated(roots, root)
           Sound(entry) == entry.height \in 0..n + 1 /\ RootOfLog(entry, log)
<1>1. roots \in Seq(any) /\ root \in any /\ roots \in Seq(Range(roots))
  BY SeqMonotonic DEF WindowHolds
<1>2. Len(roots) \in Nat /\ DOMAIN roots = 1..Len(roots)
  BY <1>1, LenProperties
<1>3. SameHeight(roots, root) = {}
  BY <1>2 DEF SameHeight, WindowHolds
<1>4. /\ all \in Seq(any) /\ Len(all) = Len(roots) + 1
      /\ \A i \in 1..Len(roots) : all[i] = roots[i]
      /\ all[Len(roots) + 1] = root
  BY <1>1, AppendProperties
<1>5. new = SubSeq(all, low, Len(all))
  BY <1>3 DEF Updated, Window
<1>6. low \in 1..Len(all) + 1 /\ low \in Int
  BY <1>2, <1>4, SeasonAssumption
<1>7. \A i \in 1..Len(all) : all[i] \in any /\ Sound(all[i])
  <2>1. \A i \in 1..Len(roots) : roots[i] \in any
    BY <1>1, ElementOfSeq
  <2>2. \A i \in 1..Len(all) : i \in 1..Len(roots) \/ i = Len(roots) + 1
    BY <1>2, <1>4
  <2>3. ASSUME NEW i \in 1..Len(all) PROVE all[i] \in any /\ Sound(all[i])
    <3>1. CASE i \in 1..Len(roots)
      <4>1. roots[i].height \in 0..n /\ RootOfLog(roots[i], log)
        BY <3>1 DEF WindowHolds
      <4>2. QED
        BY <1>4, <2>1, <3>1, <4>1
    <3>2. CASE i = Len(roots) + 1
      BY <1>1, <1>4, <3>2
    <3>3. QED
      BY <2>2, <3>1, <3>2
  <2>4. QED
    BY <2>3
<1> HIDE DEF all, low, any, new, Sound
<1>8. \A i \in low..Len(all) : all[i] \in any
  BY <1>6, <1>7
<1>9. /\ new \in Seq(any)
      /\ Len(new) = IF low <= Len(all) THEN Len(all) - low + 1 ELSE 0
      /\ \A i \in 1..Len(all) - low + 1 : new[i] = all[low + i - 1]
  BY <1>2, <1>4, <1>5, <1>6, <1>8, SubSeqProperties
<1>10. ASSUME NEW i \in 1..Len(new) PROVE Sound(new[i])
  <2>1. Len(all) \in Nat
    BY <1>2, <1>4
  <2>2. low <= Len(all) /\ i \in 1..Len(all) - low + 1
    BY <1>6, <1>9, <2>1
  <2>3. low + i - 1 \in 1..Len(all) /\ new[i] = all[low + i - 1]
    BY <1>6, <1>9, <2>1, <2>2
  <2>4. QED
    BY <1>7, <2>3
<1>11. new \in Seq(Range(new))
  BY <1>9, SeqOfRange
<1>12. \A i \in 1..Len(new) : new[i].height \in 0..n + 1 /\ RootOfLog(new[i], log)
  BY <1>10 DEF Sound
<1> QED
  BY <1>11, <1>12 DEF WindowHolds, new

(* The window of a context that starts with one root. *)
LEMMA WindowOfOne ==
  ASSUME NEW t, t.commitments \in Seq(Leaf), TreeHolds(t), NEW log \in Seq(Leaf),
         Begins(t.commitments, log)
  PROVE  WindowHolds(<<Rooted(t)>>, log, size(t))
<1> DEFINE root == Rooted(t)
           roots == <<root>>
<1>1. size(t) = Len(t.commitments) /\ size(t) \in Nat /\ root.height = size(t)
  BY LenProperties DEF size, Rooted
<1>2. RootOfLog(root, t.commitments)
  BY RootedIsOfLog
<1> HIDE DEF root
<1>3. roots \in Seq({root}) /\ Len(roots) = 1 /\ roots[1] = root
  OBVIOUS
<1>4. roots \in Seq(Range(roots))
  BY <1>3, SeqOfRange
<1> HIDE DEF roots
<1>5. \A i \in 1..Len(roots) : roots[i].height \in 0..size(t) /\ RootOfLog(roots[i], t.commitments)
  BY <1>1, <1>2, <1>3
<1>6. WindowHolds(roots, t.commitments, size(t))
  BY <1>4, <1>5 DEF WindowHolds
<1>7. WindowHolds(roots, log, size(t))
  BY <1>1, <1>6, WindowStays
<1> QED
  BY <1>7 DEF roots, root

(* A tree made from the log alone. *)
LEMMA BuiltFits ==
  ASSUME NEW s \in Seq(Leaf), Len(s) <= capacity
  PROVE  LET cached == Built(fromCommitments(s))
         IN FitsLog(cached, s) /\ cached.tree.commitments = s
<1> DEFINE t == fromCommitments(s)
           cached == Built(t)
<1>1. t.commitments = s
  BY TreeLeaves
<1>2. TreeHolds(t)
  BY RebuildHolds, DepthAssumption, LenProperties
<1>3. cached.tree = t /\ cached.roots = <<Rooted(t)>>
  BY DEF Built
<1> HIDE DEF t, cached
<1>4. WindowHolds(<<Rooted(t)>>, s, size(t))
  BY <1>1, <1>2, WindowOfOne, BeginsItself
<1>5. FitsLog(cached, s)
  BY <1>1, <1>2, <1>3, <1>4, BeginsItself DEF FitsLog
<1> QED
  BY <1>1, <1>3, <1>5 DEF t, cached

LEMMA LogIsThere ==
  ASSUME LogInv, CacheInv, NEW c \in Contexts
  PROVE  /\ <<current, c>> \in Buckets
         /\ LogOf(c) \in Seq(Leaf) /\ Len(LogOf(c)) \in Nat /\ Len(LogOf(c)) <= capacity
  BY LenProperties DEF LogInv, CacheInv, Buckets, LogOf

(* What the views show of a context, built or not, fits its log. *)
LEMMA ViewsFit ==
  ASSUME LogInv, CacheInv, NEW c \in Contexts
  PROVE  /\ treeOf(c).commitments \in Seq(Leaf)
         /\ Begins(treeOf(c).commitments, LogOf(c))
         /\ sizeOf(c) = Len(treeOf(c).commitments) /\ sizeOf(c) \in Nat
         /\ TreeHolds(treeOf(c))
         /\ WindowHolds(rootStore(c), LogOf(c), sizeOf(c))
<1>1. LogOf(c) \in Seq(Leaf) /\ Len(LogOf(c)) \in Nat
  BY LogIsThere
<1>2. CASE trees[c] = Unbuilt
  <2>1. /\ treeOf(c) = EmptyTree /\ rootStore(c) = <<Rooted(EmptyTree)>>
        /\ sizeOf(c) = size(EmptyTree)
    BY <1>2 DEF treeOf, rootStore, sizeOf
  <2>2. /\ EmptyTree.commitments = <<>> /\ <<>> \in Seq(Leaf) /\ Len(<<>>) = 0
        /\ Begins(<<>>, LogOf(c))
    BY <1>1, TreeLeaves, EmptySeq DEF Begins
  <2>3. WindowHolds(<<Rooted(EmptyTree)>>, LogOf(c), size(EmptyTree))
    BY <1>1, <2>2, EmptyTreeHolds, WindowOfOne, DepthAssumption
  <2>4. size(EmptyTree) = Len(EmptyTree.commitments) /\ size(EmptyTree) \in Nat
    BY <2>2 DEF size
  <2>5. QED
    BY <2>1, <2>2, <2>3, <2>4, EmptyTreeHolds, DepthAssumption
<1>3. CASE trees[c] # Unbuilt
  <2>1. FitsLog(trees[c], LogOf(c))
    BY <1>3 DEF CacheInv
  <2>2. treeOf(c) = trees[c].tree /\ rootStore(c) = trees[c].roots
        /\ sizeOf(c) = size(trees[c].tree)
    BY <1>3 DEF treeOf, rootStore, sizeOf
  <2>3. QED
    BY <2>1, <2>2, LenProperties DEF FitsLog, size
<1> QED
  BY <1>2, <1>3

(* A tree made again keeps the window of the context. *)
LEMMA RebuiltFits ==
  ASSUME LogInv, CacheInv, NEW c \in Contexts, Len(LogOf(c)) > sizeOf(c)
  PROVE  LET cached == RebuiltTree(c, fromCommitments(LogOf(c)))
         IN FitsLog(cached, LogOf(c)) /\ cached.tree.commitments = LogOf(c)
<1> DEFINE log == LogOf(c)
           t == fromCommitments(log)
           n == Len(log) - 1
           cached == RebuiltTree(c, t)
<1>1. log \in Seq(Leaf) /\ Len(log) \in Nat /\ Len(log) <= capacity
  BY LogIsThere
<1>2. CASE trees[c] = Unbuilt
  BY <1>1, <1>2, BuiltFits DEF RebuiltTree
<1>3. CASE trees[c] # Unbuilt
  <2>1. FitsLog(trees[c], log) /\ sizeOf(c) = size(trees[c].tree)
    BY <1>3 DEF CacheInv, sizeOf, treeOf
  <2>2. size(trees[c].tree) \in Nat /\ n \in Nat /\ size(trees[c].tree) <= n
    BY <1>1, <2>1, LenProperties DEF FitsLog, size
  <2>3. cached.tree = t /\ cached.roots = Updated(trees[c].roots, Rooted(t))
    BY <1>3 DEF RebuiltTree
  <2>4. t.commitments = log /\ size(t) = n + 1 /\ Rooted(t).height = n + 1
    BY <1>1, TreeLeaves DEF size, Rooted
  <2>5. TreeHolds(t)
    BY <1>1, RebuildHolds, DepthAssumption
  <2>6. WindowHolds(trees[c].roots, log, size(trees[c].tree)) /\ size(trees[c].tree) <= Len(log)
    BY <1>1, <2>1, <2>2 DEF FitsLog
  <2> HIDE DEF n, t, log, cached
  <2>7. WindowHolds(trees[c].roots, log, n)
    BY <1>1, <2>2, <2>6, BeginsItself, WindowStays
  <2>8. RootOfLog(Rooted(t), log)
    BY <1>1, <2>4, <2>5, RootedIsOfLog
  <2>9. WindowHolds(cached.roots, log, n + 1)
    BY <2>2, <2>3, <2>4, <2>7, <2>8, UpdatedRoots
  <2>10. FitsLog(cached, log)
    BY <1>1, <2>3, <2>4, <2>5, <2>9, BeginsItself DEF FitsLog
  <2>11. QED
    BY <2>3, <2>4, <2>10 DEF cached, t, log
<1> QED
  BY <1>2, <1>3

\* A cached tree holds the whole log; it may be missing when the log is empty.
HoldsLog(cached, log) == FitsLog(cached, log) /\ cached.tree.commitments = log
CaughtUp(cached, log) == HoldsLog(cached, log) \/ (cached = Unbuilt /\ log = <<>>)

LEMMA ReconciledCatchesUp ==
  ASSUME LogInv, CacheInv, NEW c \in Contexts
  PROVE  /\ DOMAIN Reconciled(c) = Contexts
         /\ CaughtUp(Reconciled(c)[c], LogOf(c))
         /\ trees[c] # Unbuilt => HoldsLog(Reconciled(c)[c], LogOf(c))
         /\ \A d \in Contexts \ {c} : Reconciled(c)[d] = trees[d]
<1>1. LogOf(c) \in Seq(Leaf) /\ Len(LogOf(c)) \in Nat
  BY LogIsThere
<1>2. DOMAIN trees = Contexts
  BY DEF CacheInv
<1>3. CASE Len(LogOf(c)) > sizeOf(c)
  BY <1>2, <1>3, RebuiltFits DEF Reconciled, CaughtUp, HoldsLog
<1>4. CASE ~(Len(LogOf(c)) > sizeOf(c))
  <2>1. Reconciled(c) = trees
    BY <1>4 DEF Reconciled
  <2>2. /\ treeOf(c).commitments \in Seq(Leaf)
        /\ Begins(treeOf(c).commitments, LogOf(c))
        /\ sizeOf(c) = Len(treeOf(c).commitments) /\ sizeOf(c) \in Nat
    BY ViewsFit
  <2>3. treeOf(c).commitments = LogOf(c)
    BY <1>1, <1>4, <2>2, SameIfAsLong
  <2>4. CASE trees[c] = Unbuilt
    BY <1>2, <2>1, <2>3, <2>4, TreeLeaves DEF treeOf, CaughtUp
  <2>5. CASE trees[c] # Unbuilt
    BY <1>2, <2>1, <2>3, <2>5 DEF treeOf, CaughtUp, HoldsLog, CacheInv
  <2>6. QED
    BY <2>4, <2>5
<1> QED
  BY <1>3, <1>4

LEMMA MaterializedCatchesUp ==
  ASSUME LogInv, CacheInv, NEW c \in Contexts
  PROVE  /\ DOMAIN Materialized(c) = Contexts
         /\ HoldsLog(Materialized(c)[c], LogOf(c))
         /\ \A d \in Contexts \ {c} : Materialized(c)[d] = trees[d]
<1>1. LogOf(c) \in Seq(Leaf) /\ Len(LogOf(c)) <= capacity /\ DOMAIN trees = Contexts
  BY LogIsThere DEF CacheInv
<1>2. CASE trees[c] = Unbuilt
  <2>1. Materialized(c) = [trees EXCEPT ![c] = Built(fromCommitments(LogOf(c)))]
    BY <1>2 DEF Materialized
  <2>2. HoldsLog(Built(fromCommitments(LogOf(c))), LogOf(c))
    BY <1>1, BuiltFits DEF HoldsLog
  <2>3. QED
    BY <1>1, <2>1, <2>2
<1>3. CASE trees[c] # Unbuilt
  BY <1>3, ReconciledCatchesUp DEF Materialized
<1> QED
  BY <1>2, <1>3

(* ensureContext() on a cache that may roll. *)
LEMMA OpenedCatchesUp ==
  ASSUME LogInv, CacheInv, NEW s \in Seasons, NEW c \in Contexts
  PROVE  /\ DOMAIN Opened(s, c) = Contexts
         /\ \A d \in Contexts : \/ Opened(s, c)[d] = Unbuilt
                                \/ s = current /\ Opened(s, c)[d] = trees[d]
                                \/ d = c /\ HoldsLog(Opened(s, c)[d], leaves[<<s, c>>])
<1> DEFINE log == leaves[<<s, c>>]
           rolled == RolledTrees(s)
<1>1. log \in Seq(Leaf) /\ Len(log) <= capacity
  BY DEF LogInv, Buckets
<1>2. HoldsLog(Built(fromCommitments(log)), log)
  BY <1>1, BuiltFits DEF HoldsLog
<1>3. /\ DOMAIN rolled = Contexts
      /\ \A d \in Contexts : rolled[d] = Unbuilt \/ (s = current /\ rolled[d] = trees[d])
  BY DEF RolledTrees, CacheInv
<1>4. Opened(s, c) = rolled
      \/ Opened(s, c) = [rolled EXCEPT ![c] = Built(fromCommitments(log))]
  BY DEF Opened
<1> HIDE DEF log, rolled
<1>5. QED
  BY <1>2, <1>3, <1>4 DEF log
-----------------------------------------------------------------------------
(* What every step does to the log, the cache, the guard and the queue.    *)

LogGrows ==
  /\ leaves' \in [Buckets -> Seq(Leaf)]
  /\ \A b \in Buckets : Begins(leaves[b], leaves'[b]) /\ Len(leaves'[b]) <= capacity

\* A tree is dropped, left alone in its season, or made to hold the whole log.
CacheStep ==
  /\ current' \in Seasons /\ DOMAIN trees' = Contexts
  /\ \A c \in Contexts : \/ trees'[c] = Unbuilt
                         \/ current' = current /\ trees'[c] = trees[c]
                         \/ HoldsLog(trees'[c], LogOf(c)')

MarksStep ==
  /\ clock' \in Clock /\ marks' \in Marks /\ file' \in Marks
  /\ marks.season <= marks'.season

\* One handler moves.
Moves(h) ==
  /\ DOMAIN pc' = Handlers /\ DOMAIN job' = Handlers
  /\ \A k \in Handlers \ {h} : pc'[k] = pc[k] /\ job'[k] = job[k]

\* Log and season change under the head of the queue only.
QueueStep(h) ==
  \/ ops' \in {ops, Append(ops, h)} /\ leaves' = leaves /\ current' = current
  \/ ops # <<>> /\ Head(ops) = h /\ ops' \in {ops, Tail(ops)}

LEMMA SeasonsAreInts == Seasons \subseteq Int /\ NoMark \in Int
  BY PeriodTypes DEF NoMark

LEMMA LogStays == ASSUME LogInv, leaves' = leaves PROVE LogGrows
  BY BeginsItself DEF LogInv, LogGrows

LEMMA CacheStays ==
  ASSUME CacheInv, UNCHANGED cache PROVE CacheStep
  BY DEF CacheInv, CacheStep, cache

LEMMA CacheFits ==
  ASSUME LogInv, CacheInv, LogGrows, CacheStep PROVE CacheInv' /\ LogInv'
<1>1. ASSUME NEW c \in Contexts PROVE trees'[c] = Unbuilt \/ FitsLog(trees'[c], LogOf(c)')
  <2>1. CASE current' = current /\ trees'[c] = trees[c] /\ trees[c] # Unbuilt
    <3>1. FitsLog(trees[c], LogOf(c)) /\ <<current, c>> \in Buckets
      BY <2>1, LogIsThere DEF CacheInv
    <3>2. /\ LogOf(c) \in Seq(Leaf) /\ LogOf(c)' \in Seq(Leaf)
          /\ Begins(LogOf(c), LogOf(c)')
      BY <2>1, <3>1 DEF LogOf, LogGrows, LogInv
    <3>3. Begins(trees[c].tree.commitments, LogOf(c)')
      BY <3>1, <3>2, BeginsTransitively DEF FitsLog
    <3>4. size(trees[c].tree) \in Nat /\ size(trees[c].tree) <= Len(LogOf(c))
      BY <3>1, LenProperties DEF FitsLog, Begins, size
    <3>5. WindowHolds(trees[c].roots, LogOf(c)', size(trees[c].tree))
      BY <3>1, <3>2, <3>4, WindowStays DEF FitsLog
    <3>6. FitsLog(trees[c], LogOf(c)')
      BY <3>1, <3>3, <3>5 DEF FitsLog
    <3>7. QED
      BY <2>1, <3>6
  <2>2. QED
    BY <2>1 DEF CacheStep, HoldsLog
<1> QED
  BY <1>1 DEF CacheInv, CacheStep, LogInv, LogGrows

(* Whatever was answered stays true. *)
LEMMA AnswersStay ==
  ASSUME LogInv, CacheInv, ToldInv, LogGrows, CacheStep
  PROVE  \A a \in told : KeyOf[a.request] \in KeysOf(leaves[a.bucket])' /\ AnswerHolds(a)'
<1> SUFFICES ASSUME NEW a \in told
             PROVE  KeyOf[a.request] \in KeysOf(leaves[a.bucket])' /\ AnswerHolds(a)'
  OBVIOUS
<1> DEFINE b == a.bucket
           c == b[2]
           k == KeyOf[a.request]
           log == leaves[b]
           log2 == leaves'[b]
<1>1. /\ a \in Answer /\ k \in KeysOf(log) /\ AnswerHolds(a)
      /\ b \in Buckets /\ c \in Contexts /\ b = <<b[1], c>>
  BY DEF ToldInv, Answer, Buckets
<1>2. /\ log \in Seq(Leaf) /\ log2 \in Seq(Leaf) /\ Begins(log, log2)
      /\ Len(log) \in Nat /\ Len(log2) \in Nat
  BY <1>1, LenProperties DEF LogInv, LogGrows
<1>3. k \in KeysOf(log2)
  BY <1>1, <1>2, KeysStay
<1>4. b[1] = current => LogOf(c) = log
  BY <1>1 DEF LogOf
<1>5. b[1] = current' => LogOf(c)' = log2
  BY <1>1 DEF LogOf
<1>6. /\ trees[c] # Unbuilt => FitsLog(trees[c], LogOf(c))
      /\ trees'[c] # Unbuilt => FitsLog(trees'[c], LogOf(c)')
  BY <1>1, CacheFits DEF CacheInv
<1>7. CASE a.kind = "ok"
  <2>1. /\ a.index < Len(log) /\ a.index \in Nat
        /\ log[a.index + 1] = [key |-> KeyOf[a.request], com |-> a.request]
        /\ b[1] = current /\ trees[c] # Unbuilt => a.index < sizeOf(c)
    BY <1>1, <1>7 DEF AnswerHolds, OkKeepsItsLeaf, Answer
  <2>2. /\ a.index < Len(log2)
        /\ log2[a.index + 1] = [key |-> KeyOf[a.request], com |-> a.request]
    BY <1>2, <2>1 DEF Begins
  <2>3. ASSUME b[1] = current', trees'[c] # Unbuilt PROVE a.index < sizeOf(c)'
    <3>1. sizeOf(c)' = Len(trees'[c].tree.commitments)
      BY <2>3 DEF sizeOf, treeOf, size
    <3>2. CASE current' = current /\ trees'[c] = trees[c]
      BY <2>1, <2>3, <3>2 DEF sizeOf, treeOf
    <3>3. CASE HoldsLog(trees'[c], LogOf(c)')
      BY <1>5, <2>2, <2>3, <3>1, <3>3 DEF HoldsLog
    <3>4. QED
      BY <1>1, <2>3, <3>2, <3>3 DEF CacheStep
  <2>4. QED
    BY <1>3, <1>7, <2>2, <2>3 DEF AnswerHolds, OkKeepsItsLeaf
<1>8. CASE a.kind # "ok"
  <2>1. ASSUME b[1] = current'
        PROVE  k \in KeysOf(IF trees'[c] = Unbuilt THEN log2 ELSE trees'[c].tree.commitments)
    <3>1. CASE trees'[c] = Unbuilt
      BY <1>3, <3>1
    <3>2. CASE HoldsLog(trees'[c], LogOf(c)')
      BY <1>3, <1>5, <2>1, <3>2 DEF HoldsLog
    <3>3. CASE current' = current /\ trees'[c] = trees[c] /\ trees[c] # Unbuilt
      BY <1>1, <1>8, <2>1, <3>3 DEF AnswerHolds, AlreadyIsServed, treeOf
    <3>4. QED
      BY <1>1, <3>1, <3>2, <3>3 DEF CacheStep
  <2>2. QED
    BY <1>3, <1>5, <1>8, <2>1 DEF AnswerHolds, AlreadyIsServed, treeOf
<1> QED
  BY <1>7, <1>8

LEMMA GrantsStay ==
  ASSUME LogInv, GrantInv, LogGrows, granted' = granted
  PROVE  GrantInv'
<1>1. ASSUME NEW g \in granted PROVE g.key \in KeysOf(leaves[<<g.season, g.ctx>>])'
  <2>1. <<g.season, g.ctx>> \in Buckets /\ g.key \in KeysOf(leaves[<<g.season, g.ctx>>])
    BY DEF GrantInv, GrantNeedsRegistration, Grant, Buckets
  <2>2. QED
    BY <2>1, KeysStay DEF LogInv, LogGrows
<1> QED
  BY <1>1 DEF GrantInv, GrantNeedsRegistration

(* A handler that does not move keeps its invariant. *)
LEMMA OthersKeep ==
  ASSUME SeasonInv, NEW h \in Handlers, LogGrows, CacheStep, MarksStep, Moves(h), QueueStep(h),
         current <= current', NEW k \in Handlers \ {h}
  PROVE  HandlerInv(k)'
<1>1. pc'[k] = pc[k] /\ job'[k] = job[k] /\ HandlerInv(k)
  BY DEF Moves, SeasonInv, FlowInv
<1>2. /\ marks.season \in Int /\ marks'.season \in Int /\ marks.season <= marks'.season
      /\ current \in Int /\ current' \in Int
  BY MarkIsInt, SeasonsAreInts DEF MarksStep, SeasonInv, ClockInv, CacheInv, CacheStep
<1>3. \A s : Observed(s) => Observed(s)'
  BY <1>2, SeasonsAreInts DEF Observed
<1>4. \A b \in Buckets : KeysOf(leaves[b]) \subseteq KeysOf(leaves'[b])
  BY KeysStay DEF SeasonInv, LogInv, LogGrows
<1>5. ASSUME k \in Registrations PROVE RegisterInv(k)'
  <2>1. RegisterInv(k)
    BY <1>1, <1>5 DEF HandlerInv
  <2>2. pc[k] \notin {"idle", "done", "registerBody"} => Bucket(k) \in Buckets
    BY <2>1 DEF RegisterInv, RegisterPcs, Observed, Bucket, Buckets
  <2>3. Bucket(k)' = Bucket(k) /\ (Has(k) /\ Bucket(k) \in Buckets => Has(k)')
    BY <1>1, <1>4 DEF Bucket, Has
  <2>4. ASSUME pc[k] \in Writing
        PROVE  ops' # <<>> /\ Head(ops') = k /\ leaves' = leaves /\ current' = current
    <3>1. ops # <<>> /\ Head(ops) = k /\ ops \in Seq(Handlers)
      BY <2>1, <2>4 DEF RegisterInv, SeasonInv, FlowInv
    <3>2. Append(ops, h) # <<>> /\ Head(Append(ops, h)) = k
      BY <3>1, HeadTailAppend, AppendProperties
    <3>3. QED
      BY <3>1, <3>2 DEF QueueStep
  <2>5. QED
    BY <1>1, <1>3, <2>1, <2>2, <2>3, <2>4 DEF RegisterInv, Writing
<1>6. ASSUME k \in Members PROVE MemberInv(k)'
  <2>1. MemberInv(k)
    BY <1>1, <1>6 DEF HandlerInv
  <2>2. pc[k] \in Proving => <<job[k].window, job[k].ctx>> \in Buckets
    BY <2>1 DEF MemberInv, MemberJob, Proving, Buckets
  <2>3. pc[k] \in Proving => KeyOf[k] \in KeysOf(leaves'[<<job[k].window, job[k].ctx>>])
    BY <1>4, <2>1, <2>2 DEF MemberInv
  <2>4. pc[k] \in Rolled \cup Proving => job[k].season \in Seasons /\ job[k].season <= current'
    <3>1. ASSUME NEW s \in Seasons, s <= current PROVE s <= current'
      BY <1>2, <3>1, SeasonsAreInts
    <3>2. QED
      BY <2>1, <3>1 DEF MemberInv
  <2>5. QED
    BY <1>1, <1>3, <2>1, <2>3, <2>4 DEF MemberInv
<1>7. ASSUME k \in Timers PROVE TimerInv(k)'
  BY <1>1, <1>3, <1>7 DEF HandlerInv, TimerInv
<1> QED
  BY <1>5, <1>6, <1>7 DEF HandlerInv

LEMMA QueueTyped ==
  ASSUME FlowInv, NEW h \in Handlers, QueueStep(h) PROVE ops' \in Seq(Handlers)
<1>1. Append(ops, h) \in Seq(Handlers)
  BY AppendProperties DEF FlowInv
<1>2. ops # <<>> => Tail(ops) \in Seq(Handlers)
  BY HeadTailProperties DEF FlowInv
<1> QED
  BY <1>1, <1>2 DEF FlowInv, QueueStep

(* A step of one handler, put together. *)
LEMMA HandlerStep ==
  ASSUME SeasonInv, NEW h \in Handlers, LogGrows, CacheStep, MarksStep, Moves(h), QueueStep(h),
         current <= current', current' <= marks'.season,
         HandlerInv(h)', ToldInv', GrantInv'
  PROVE  SeasonInv'
<1>1. CacheInv' /\ LogInv'
  BY CacheFits DEF SeasonInv
<1>2. ClockInv'
  BY DEF MarksStep, ClockInv
<1>3. FlowInv'
  BY OthersKeep, QueueTyped DEF FlowInv, Moves, SeasonInv
<1> QED
  BY <1>1, <1>2, <1>3 DEF SeasonInv

(* Most steps leave log, cache and histories alone. *)
LEMMA QuietStep ==
  ASSUME SeasonInv, NEW h \in Handlers, UNCHANGED <<leaves, cache, history>>,
         MarksStep, Moves(h), ops' \in {ops, Append(ops, h)}, HandlerInv(h)'
  PROVE  SeasonInv'
<1>1. LogGrows /\ CacheStep /\ QueueStep(h)
  BY LogStays, CacheStays DEF SeasonInv, QueueStep, cache
<1>2. ToldInv' /\ GrantInv'
  BY <1>1, AnswersStay, GrantsStay DEF SeasonInv, ToldInv, history
<1>3. current' = current /\ current \in Int /\ current <= marks.season
      /\ marks.season \in Int /\ marks'.season \in Int
  BY MarkIsInt, SeasonsAreInts DEF MarksStep, SeasonInv, ClockInv, CacheInv, cache
<1>4. current <= current' /\ current' <= marks'.season
  BY <1>3 DEF MarksStep
<1> QED
  BY <1>1, <1>2, <1>4, HandlerStep

(* The season mark never falls behind the clock or itself. *)
LEMMA SeasonObserved ==
  ASSUME NEW m \in Marks, NEW t \in Clock
  PROVE  LET n == ObservedSeason(m, t)
         IN /\ n \in Marks /\ m.season <= n.season /\ seasonNow(t) <= n.season
            /\ ~n.regressed => seasonNow(t) = n.season
<1> DEFINE n == ObservedSeason(m, t)
<1>1. seasonNow(t) \in Int /\ m.season \in Int /\ m.regressed \in BOOLEAN
  BY PeriodTypes, SeasonsAreInts, MarkIsInt DEF Marks
<1>2. n \in Marks
  BY ObservedTypes
<1>3. CASE seasonNow(t) > m.season
  <2>1. n = [m EXCEPT !.season = seasonNow(t)]
    BY <1>3 DEF ObservedSeason
  <2>2. n.season = seasonNow(t)
    BY <2>1 DEF Marks
  <2> HIDE DEF n
  <2>3. QED
    BY <1>1, <1>2, <1>3, <2>2 DEF n
<1>4. CASE ~(seasonNow(t) > m.season)
  <2>1. n = [m EXCEPT !.regressed = m.regressed \/ seasonNow(t) < m.season]
    BY <1>4 DEF ObservedSeason
  <2>2. n.season = m.season /\ n.regressed = (m.regressed \/ seasonNow(t) < m.season)
    BY <2>1 DEF Marks
  <2>3. ~n.regressed => ~(seasonNow(t) < m.season)
    BY <2>2, Zenon
  <2> HIDE DEF n
  <2>4. QED
    BY <1>1, <1>2, <1>4, <2>2, <2>3 DEF n
<1> QED
  BY <1>3, <1>4

(* epoch() and season(), in this process or in a new one. *)
LEMMA BothObserved ==
  ASSUME NEW m \in Marks, NEW d \in Marks, NEW t \in Clock
  PROVE  LET n == MarksAfter(m, t, "none")
         IN /\ n \in Marks /\ FileAfter(m, d, t, "none") \in Marks
            /\ m.season <= n.season /\ seasonNow(t) <= n.season
            /\ ~n.regressed => seasonNow(t) = n.season
<1> DEFINE m1 == ObservedEpoch(m, t)
<1>1. m1 \in Marks /\ FileAfter(m, d, t, "none") \in Marks
  BY ObservedTypes, ObserveTypes
<1>2. m1.season = m.season
  BY DEF ObservedEpoch, Marks
<1>3. MarksAfter(m, t, "none") = ObservedSeason(m1, t)
  BY DEF MarksAfter, EpochThrows
<1> HIDE DEF m1
<1> QED
  BY <1>1, <1>2, <1>3, SeasonObserved

(* What a handler learns from the guard. *)
LEMMA GuardObserved ==
  ASSUME ClockInv, clock' = clock, ObserveBoth \/ ObserveSeason
  PROVE  /\ MarksStep /\ Now \in Seasons /\ Now <= marks'.season
         /\ ~marks'.regressed => Now = marks'.season
<1>1. clock \in Clock /\ marks \in Marks /\ file \in Marks /\ Now \in Seasons
  BY PeriodTypes DEF ClockInv, Now
<1>2. CASE ObserveSeason
  BY <1>1, <1>2, SeasonObserved DEF ObserveSeason, Persisted, MarksStep, Now
<1>3. CASE ObserveBoth
  BY <1>1, <1>3, BothObserved DEF ObserveBoth, MarksStep, Now
<1> QED
  BY <1>2, <1>3
-----------------------------------------------------------------------------
(* Moving one handler.                                                     *)

LEMMA KindsOfHandler ==
  /\ \A r \in Registrations : r \in Handlers /\ r \notin Members /\ r \notin Timers
  /\ \A v \in Members : v \in Handlers /\ v \notin Registrations /\ v \notin Timers
  /\ \A t \in Timers : t \in Handlers /\ t \notin Registrations /\ t \notin Members
  BY SeasonAssumption DEF Handlers

LEMMA GoneTo ==
  ASSUME FlowInv, NEW h \in Handlers, NEW p, NEW j, Goto(h, p),
         job' = [job EXCEPT ![h] = j] \/ (job' = job /\ j = job[h])
  PROVE  Moves(h) /\ pc'[h] = p /\ job'[h] = j
  BY DEF FlowInv, Goto, Moves

LEMMA DoneRests ==
  ASSUME FlowInv, NEW h \in Handlers, Done(h)
  PROVE  Moves(h) /\ HandlerInv(h)'
<1>1. Moves(h) /\ pc'[h] = Rest(h)
  BY GoneTo DEF Done
<1>2. CASE h \in Timers
  BY <1>1, <1>2, KindsOfHandler DEF HandlerInv, TimerInv, Rest
<1>3. CASE h \notin Timers
  <2>1. pc'[h] = "done"
    BY <1>1, <1>3 DEF Rest
  <2>2. RegisterInv(h)' /\ MemberInv(h)'
    BY <2>1 DEF RegisterInv, RegisterPcs, Writing, MemberInv, MemberPcs, Browsing, Rolling,
                Rolled, Proving
  <2>3. QED
    BY <1>1, <1>3, <2>2 DEF HandlerInv
<1> QED
  BY <1>2, <1>3

LEMMA StepKinds ==
  ASSUME SeasonInv, NEW h \in Handlers
  PROVE  /\ FlowInv /\ LogInv /\ CacheInv /\ ClockInv /\ ToldInv /\ GrantInv /\ HandlerInv(h)
         /\ h \in Registrations => RegisterInv(h)
         /\ h \in Members => MemberInv(h)
         /\ h \in Timers => TimerInv(h)
  BY DEF SeasonInv, FlowInv, HandlerInv

LEMMA MarksStay == ASSUME ClockInv, UNCHANGED timeVars PROVE MarksStep
  BY MarkIsInt DEF ClockInv, MarksStep, timeVars

LEMMA Dispatched ==
  ASSUME SeasonInv, NEW h \in Handlers, NEW p, NEW j, Dispatch(h, p, j),
         pc'[h] = p /\ job'[h] = j /\ MarksStep => HandlerInv(h)'
  PROVE  SeasonInv'
<1>1. FlowInv /\ ClockInv
  BY StepKinds
<1>2. MarksStep
  BY <1>1, GuardObserved DEF Dispatch
<1>3. Moves(h) /\ HandlerInv(h)'
  BY <1>1, <1>2, GoneTo, DoneRests DEF Dispatch
<1> QED
  BY <1>2, <1>3, QuietStep DEF Dispatch
-----------------------------------------------------------------------------
(* The steps of a registration.                                            *)

LEMMA RegisterKeeps ==
  ASSUME SeasonInv, NEW r \in Registrations, NEW c \in Contexts, Register(r, c)
  PROVE  SeasonInv'
<1> DEFINE j == [ctx |-> c, season |-> NoMark]
<1>1. r \in Handlers /\ r \notin Members /\ r \notin Timers
  BY KindsOfHandler
<1>2. ASSUME pc'[r] = "registerBody", job'[r] = j PROVE HandlerInv(r)'
  BY <1>1, <1>2 DEF HandlerInv, RegisterInv, RegisterPcs, Writing
<1>3. Dispatch(r, "registerBody", j)
  BY DEF Register
<1> HIDE DEF j
<1> QED
  BY <1>1, <1>2, <1>3, Dispatched

LEMMA RegisterBodyKeeps ==
  ASSUME SeasonInv, NEW r \in Registrations, RegisterBody(r)
  PROVE  SeasonInv'
<1> DEFINE j == [job[r] EXCEPT !.season = Now]
<1>1. r \in Handlers /\ r \notin Members /\ r \notin Timers
  BY KindsOfHandler
<1>2. FlowInv /\ ClockInv /\ RegisterInv(r) /\ UNCHANGED <<clock, leaves, cache, history>>
  BY <1>1, StepKinds DEF RegisterBody
<1>3. CASE ObserveSeason /\ job' = [job EXCEPT ![r].season = Now] /\ Enqueue(r, "ensure")
  <2>1. MarksStep /\ Now \in Seasons /\ Now <= marks'.season
    BY <1>2, <1>3, GuardObserved
  <2>2. job[r] \in [ctx : Contexts, season : Seasons \cup {NoMark}]
    BY <1>2 DEF RegisterBody, RegisterInv
  <2>3. Moves(r) /\ pc'[r] = "ensure" /\ job'[r] = j
    BY <1>1, <1>2, <1>3, GoneTo DEF Enqueue
  <2>4. j \in [ctx : Contexts, season : Seasons] /\ j.season = Now
    BY <2>1, <2>2
  <2>5. HandlerInv(r)'
    BY <1>1, <2>1, <2>3, <2>4 DEF HandlerInv, RegisterInv, RegisterPcs, Writing, Observed
  <2>6. QED
    BY <1>1, <1>2, <1>3, <2>1, <2>3, <2>5, QuietStep DEF Enqueue
<1>4. CASE Done(r) /\ UNCHANGED <<marks, file, ops>>
  BY <1>1, <1>2, <1>4, DoneRests, MarksStay, QuietStep DEF timeVars
<1> QED
  BY <1>3, <1>4 DEF RegisterBody

LEMMA TimerFiresKeeps ==
  ASSUME SeasonInv, NEW t \in Timers, TimerFires(t)
  PROVE  SeasonInv'
<1>1. t \in Handlers /\ t \notin Members /\ t \notin Registrations
  BY KindsOfHandler
<1>2. FlowInv /\ ClockInv /\ UNCHANGED <<clock, leaves, cache, history>>
  BY <1>1, StepKinds DEF TimerFires
<1>3. MarksStep /\ Now \in Seasons /\ Now <= marks'.season
  BY <1>2, GuardObserved DEF TimerFires
<1>4. Moves(t) /\ pc'[t] = "ensure" /\ job'[t] = [season |-> Now]
  BY <1>1, <1>2, GoneTo DEF TimerFires, Enqueue
<1>5. HandlerInv(t)'
  BY <1>1, <1>3, <1>4 DEF HandlerInv, TimerInv, Observed
<1> QED
  BY <1>1, <1>2, <1>3, <1>4, <1>5, QuietStep DEF TimerFires, Enqueue

(* A roll that is not refused, by a handler at the head of the queue. *)
LEMMA RollStep ==
  ASSUME SeasonInv, NEW h \in Handlers, NEW s, Observed(s), ~RollRefused(s),
         current' = s, trees' = RolledTrees(s)
  PROVE  CacheStep /\ current <= current'
  BY SeasonsAreInts DEF SeasonInv, CacheInv, CacheStep, RolledTrees, RollRefused, Observed

LEMMA EnsureKeeps ==
  ASSUME SeasonInv, NEW h \in Registrations \cup Timers, Ensure(h)
  PROVE  SeasonInv'
<1> DEFINE s == job[h].season
<1>1. h \in Handlers /\ h \notin Members
  BY KindsOfHandler
<1>2. FlowInv /\ ClockInv /\ CacheInv /\ LogInv /\ ToldInv /\ GrantInv /\ HandlerInv(h)
  BY <1>1, StepKinds
<1>3. /\ pc[h] = "ensure" /\ QueueStep(h)
      /\ UNCHANGED <<timeVars, leaves, history>>
  BY DEF Ensure, Running, Settle, QueueStep
<1>4. Observed(s) /\ s \in Int /\ current \in Int
  BY <1>1, <1>2, <1>3, SeasonsAreInts
     DEF HandlerInv, RegisterInv, RegisterPcs, TimerInv, Observed, CacheInv
<1>5. MarksStep /\ LogGrows
  BY <1>2, <1>3, MarksStay, LogStays
<1>6. CASE RollRefused(s)
  <2>1. Done(h) /\ CacheStep /\ current' = current
    BY <1>2, <1>6, CacheStays DEF Ensure, cache
  <2>2. ToldInv' /\ GrantInv'
    BY <1>2, <1>3, <1>5, <2>1, AnswersStay, GrantsStay DEF ToldInv, history
  <2>3. Moves(h) /\ HandlerInv(h)'
    BY <1>1, <1>2, <2>1, DoneRests
  <2>4. current <= current' /\ current' <= marks'.season
    BY <1>2, <1>3, <1>4, <2>1 DEF ClockInv, timeVars
  <2>5. QED
    BY <1>1, <1>3, <1>5, <2>1, <2>2, <2>3, <2>4, HandlerStep
<1>7. CASE ~RollRefused(s)
  <2>1. current' = s /\ trees' = RolledTrees(s)
        /\ (Done(h) \/ (h \notin Timers /\ Goto(h, "has") /\ job' = job))
    BY <1>7 DEF Ensure
  <2>2. CacheStep /\ current <= current'
    BY <1>1, <1>4, <1>7, <2>1, RollStep
  <2>3. ToldInv' /\ GrantInv'
    BY <1>2, <1>3, <1>5, <2>2, AnswersStay, GrantsStay DEF ToldInv, history
  <2>4. Moves(h) /\ HandlerInv(h)'
    <3>1. CASE Done(h)
      BY <1>1, <1>2, <3>1, DoneRests
    <3>2. CASE h \notin Timers /\ Goto(h, "has") /\ job' = job
      <4>1. Moves(h) /\ pc'[h] = "has" /\ job'[h] = job[h]
        BY <1>1, <1>2, <3>2, GoneTo
      <4>2. RegisterInv(h)
        BY <1>1, <1>2, <3>2 DEF HandlerInv
      <4>3. RegisterInv(h)'
        BY <1>3, <1>4, <4>1, <4>2 DEF RegisterInv, RegisterPcs, Writing, Observed, timeVars
      <4>4. QED
        BY <1>1, <3>2, <4>1, <4>3 DEF HandlerInv
    <3>3. QED
      BY <2>1, <3>1, <3>2
  <2>5. current' <= marks'.season
    BY <1>3, <1>4, <2>1 DEF Observed, timeVars
  <2>6. QED
    BY <1>1, <1>3, <1>5, <2>2, <2>3, <2>4, <2>5, HandlerStep
<1> QED
  BY <1>6, <1>7

(* A step that changes neither log nor cache, whatever it does to the queue. *)
LEMMA ReadStep ==
  ASSUME SeasonInv, NEW h \in Handlers, UNCHANGED <<leaves, cache, history>>,
         MarksStep, Moves(h), QueueStep(h), HandlerInv(h)'
  PROVE  SeasonInv'
<1>1. LogGrows /\ CacheStep
  BY LogStays, CacheStays DEF SeasonInv, cache
<1>2. ToldInv' /\ GrantInv'
  BY <1>1, AnswersStay, GrantsStay DEF SeasonInv, ToldInv, history
<1>3. current' = current /\ current \in Int /\ current <= marks.season
      /\ marks.season \in Int /\ marks'.season \in Int
  BY MarkIsInt, SeasonsAreInts DEF MarksStep, SeasonInv, ClockInv, CacheInv, cache
<1>4. current <= current' /\ current' <= marks'.season
  BY <1>3 DEF MarksStep
<1> QED
  BY <1>1, <1>2, <1>4, HandlerStep

LEMMA ReadHasKeeps ==
  ASSUME SeasonInv, NEW r \in Registrations, ReadHas(r) \/ ReadHasAgain(r) \/ CheckProof(r)
  PROVE  SeasonInv'
<1>1. r \in Handlers /\ r \notin Members /\ r \notin Timers
  BY KindsOfHandler
<1>2. FlowInv /\ ClockInv /\ RegisterInv(r) /\ UNCHANGED <<timeVars, leaves, cache, history>>
  BY <1>1, StepKinds DEF ReadHas, ReadHasAgain, CheckProof
<1>3. MarksStep
  BY <1>2, MarksStay
<1>4. /\ job[r] \in [ctx : Contexts, season : Seasons \cup {NoMark}]
      /\ Observed(job[r].season)
  BY <1>2 DEF ReadHas, ReadHasAgain, CheckProof, RegisterInv, RegisterPcs
<1>5. \/ Done(r) /\ UNCHANGED ops
      \/ /\ \E p \in {"proof", "hasAgain"} : Goto(r, p)
         /\ UNCHANGED <<ops, job>>
      \/ \E p \in {"recover", "commit"} :
           Goto(r, p) /\ ops' = Append(ops, r) /\ job' = job /\ (p = "recover" => Has(r))
  BY DEF ReadHas, ReadHasAgain, CheckProof, Enqueue
<1>6. CASE Done(r) /\ UNCHANGED ops
  BY <1>1, <1>2, <1>3, <1>6, DoneRests, QuietStep
<1>7. ASSUME NEW p \in {"proof", "hasAgain", "recover", "commit"}, Goto(r, p), job' = job,
             p = "recover" => Has(r), ops' \in {ops, Append(ops, r)}
      PROVE  SeasonInv'
  <2>1. Moves(r) /\ pc'[r] = p /\ job'[r] = job[r]
    BY <1>1, <1>2, <1>7, GoneTo
  <2>2. Has(r)' = Has(r) /\ Observed(job[r].season)'
    BY <1>2, <1>4, <2>1 DEF Has, Bucket, Observed, timeVars
  <2>3. RegisterInv(r)'
    BY <1>4, <1>7, <2>1, <2>2 DEF RegisterInv, RegisterPcs, Writing
  <2>4. HandlerInv(r)'
    BY <1>1, <2>3 DEF HandlerInv
  <2>5. QED
    BY <1>1, <1>2, <1>3, <1>7, <2>1, <2>4, QuietStep
<1> QED
  BY <1>5, <1>6, <1>7

(* What a registration is told. *)
LEMMA AlreadyTold ==
  ASSUME LogInv, CacheInv, ToldInv, LogGrows, CacheStep, NEW r \in Registrations,
         NEW b \in Buckets, b = Bucket(r), Has(r), leaves' = leaves,
         Tell(r, "already-registered", 0),
         b[1] = current' => CaughtUp(trees'[b[2]], leaves'[b])
  PROVE  ToldInv'
<1> DEFINE a == [kind |-> "already-registered", request |-> r, bucket |-> b, index |-> 0]
           c == b[2]
<1>1. told' = told \cup {a} /\ a \in Answer
  BY DEF Tell, Answer
<1>2. KeyOf[r] \in KeysOf(leaves'[b])
  BY DEF Has
<1>3. b = <<b[1], c>>
  BY DEF Buckets
<1>4. b[1] = current' =>
        KeyOf[r] \in KeysOf(IF trees'[c] = Unbuilt THEN leaves'[b] ELSE trees'[c].tree.commitments)
  BY <1>2 DEF CaughtUp, HoldsLog
<1>5. LogOf(c)' = leaves'[<<current', c>>]
  BY DEF LogOf
<1>6. AnswerHolds(a)'
  BY <1>3, <1>4, <1>5 DEF AnswerHolds, AlreadyIsServed, treeOf
<1> HIDE DEF a
<1>7. \A x \in told : KeyOf[x.request] \in KeysOf(leaves[x.bucket])' /\ AnswerHolds(x)'
  BY AnswersStay
<1>8. a.request = r /\ a.bucket = b
  BY DEF a
<1> QED
  BY <1>1, <1>2, <1>6, <1>7, <1>8 DEF ToldInv

LEMMA RecoverKeeps ==
  ASSUME SeasonInv, NEW r \in Registrations, Recover(r)
  PROVE  SeasonInv'
<1>1. r \in Handlers /\ r \notin Members /\ r \notin Timers
  BY KindsOfHandler
<1>2. FlowInv /\ ClockInv /\ CacheInv /\ LogInv /\ ToldInv /\ GrantInv /\ RegisterInv(r)
  BY <1>1, StepKinds
<1>3. /\ QueueStep(r) /\ pc[r] = "recover" /\ Done(r)
      /\ Tell(r, "already-registered", 0)
      /\ UNCHANGED <<timeVars, leaves, current, granted>>
  BY DEF Recover, Running, Settle, QueueStep
<1>4. PICK s \in Seasons, c \in Contexts : s = job[r].season /\ c = job[r].ctx
  BY <1>2, <1>3 DEF RegisterInv, RegisterPcs, Observed
<1>5. PICK b \in Buckets : b = Bucket(r) /\ b = <<s, c>>
  BY <1>4 DEF Bucket, Buckets
<1>6. Has(r) /\ LogGrows /\ MarksStep
  BY <1>2, <1>3, LogStays, MarksStay DEF RegisterInv
<1>7. /\ DOMAIN Reconciled(c) = Contexts
      /\ CaughtUp(Reconciled(c)[c], LogOf(c))
      /\ \A d \in Contexts \ {c} : Reconciled(c)[d] = trees[d]
  BY <1>2, ReconciledCatchesUp
<1>8. trees' = IF current = s THEN Reconciled(c) ELSE trees
  BY <1>4 DEF Recover
<1>9. LogOf(c)' = LogOf(c)
  BY <1>3 DEF LogOf
<1>10. CacheStep
  BY <1>2, <1>3, <1>7, <1>8, <1>9 DEF CacheStep, CacheInv, CaughtUp
<1>11. b[1] = current' => CaughtUp(trees'[b[2]], leaves'[b])
  BY <1>3, <1>5, <1>7, <1>8, <1>9 DEF LogOf
<1>12. ToldInv'
  BY <1>2, <1>3, <1>5, <1>6, <1>10, <1>11, AlreadyTold
<1>13. GrantInv'
  BY <1>2, <1>3, <1>6, GrantsStay
<1>14. Moves(r) /\ HandlerInv(r)'
  BY <1>1, <1>2, <1>3, DoneRests
<1>15. current <= current' /\ current' <= marks'.season
  BY <1>2, <1>3, SeasonsAreInts DEF CacheInv, ClockInv, timeVars
<1> QED
  BY <1>1, <1>3, <1>6, <1>10, <1>12, <1>13, <1>14, <1>15, HandlerStep

LEMMA CommitChecksKeeps ==
  ASSUME SeasonInv, NEW r \in Registrations, CommitChecks(r)
  PROVE  SeasonInv'
<1>1. r \in Handlers /\ r \notin Members /\ r \notin Timers
  BY KindsOfHandler
<1>2. FlowInv /\ ClockInv /\ CacheInv /\ LogInv /\ ToldInv /\ GrantInv /\ RegisterInv(r)
  BY <1>1, StepKinds
<1>3. /\ ops # <<>> /\ Head(ops) = r /\ pc[r] = "commit"
      /\ UNCHANGED <<timeVars, leaves, current, granted>>
  BY DEF CommitChecks, Running
<1>4. PICK s \in Seasons, c \in Contexts : s = job[r].season /\ c = job[r].ctx
  BY <1>2, <1>3 DEF RegisterInv, RegisterPcs, Observed
<1>5. PICK b \in Buckets : b = Bucket(r) /\ b = <<s, c>>
  BY <1>4 DEF Bucket, Buckets
<1>6. LogGrows /\ MarksStep /\ LogOf(c)' = LogOf(c)
  BY <1>2, <1>3, LogStays, MarksStay DEF LogOf
<1>7. current <= current' /\ current' <= marks'.season
  BY <1>2, <1>3, SeasonsAreInts DEF CacheInv, ClockInv, timeVars
<1>8. GrantInv'
  BY <1>2, <1>3, <1>6, GrantsStay
<1>9. CASE current # s
  <2>1. Settle /\ Done(r) /\ UNCHANGED <<trees, told>>
    BY <1>4, <1>9 DEF CommitChecks
  <2>2. MarksStep /\ Moves(r) /\ QueueStep(r) /\ HandlerInv(r)'
    BY <1>1, <1>2, <1>3, <1>6, <2>1, DoneRests DEF QueueStep, Settle
  <2>3. QED
    BY <1>1, <1>3, <2>1, <2>2, ReadStep DEF cache, history
<1>10. CASE current = s
  <2>1. /\ trees' = Materialized(c)
        /\ \/ Has(r) /\ Tell(r, "already-registered", 0) /\ Settle /\ Done(r)
           \/ ~Has(r) /\ Full(c) /\ Settle /\ Done(r) /\ UNCHANGED told
           \/ ~Has(r) /\ ~Full(c) /\ Goto(r, "write") /\ UNCHANGED <<ops, job, told>>
    BY <1>4, <1>10 DEF CommitChecks
  <2>2. /\ DOMAIN trees' = Contexts
        /\ HoldsLog(trees'[c], LogOf(c))
        /\ \A d \in Contexts \ {c} : trees'[d] = trees[d]
    BY <1>2, <2>1, MaterializedCatchesUp
  <2>3. CacheStep
    BY <1>2, <1>3, <1>6, <2>2 DEF CacheStep, CacheInv
  <2>4. LogOf(c) = leaves[b]
    BY <1>5, <1>10 DEF LogOf
  <2>5. CASE Has(r) /\ Tell(r, "already-registered", 0) /\ Settle /\ Done(r)
    <3>1. CaughtUp(trees'[b[2]], leaves'[b])
      BY <1>3, <1>5, <2>2, <2>4 DEF CaughtUp
    <3>2. ToldInv'
      BY <1>2, <1>3, <1>5, <1>6, <2>3, <2>5, <3>1, AlreadyTold
    <3>3. Moves(r) /\ QueueStep(r) /\ HandlerInv(r)'
      BY <1>1, <1>2, <1>3, <2>5, DoneRests DEF QueueStep, Settle
    <3>4. QED
      BY <1>1, <1>6, <1>7, <1>8, <2>3, <3>2, <3>3, HandlerStep
  <2>6. CASE told' = told /\ Settle /\ Done(r)
    <3>1. ToldInv'
      BY <1>2, <1>6, <2>3, <2>6, AnswersStay DEF ToldInv
    <3>2. Moves(r) /\ QueueStep(r) /\ HandlerInv(r)'
      BY <1>1, <1>2, <1>3, <2>6, DoneRests DEF QueueStep, Settle
    <3>3. QED
      BY <1>1, <1>6, <1>7, <1>8, <2>3, <3>1, <3>2, HandlerStep
  <2>7. CASE ~Full(c) /\ Goto(r, "write") /\ UNCHANGED <<ops, job, told>>
    <3>1. ToldInv'
      BY <1>2, <1>6, <2>3, <2>7, AnswersStay DEF ToldInv
    <3>2. Moves(r) /\ pc'[r] = "write" /\ job'[r] = job[r]
      BY <1>1, <1>2, <2>7, GoneTo
    <3>3. Len(leaves[b]) < capacity
      <4>1. ~(Len(LogOf(c)) >= capacity)
        BY <2>1, <2>2, <2>7 DEF Full, full, size, HoldsLog
      <4>2. QED
        BY <1>2, <2>4, <4>1, LogIsThere, CapacityIsInt
    <3>4. Bucket(r)' = b
      BY <1>5, <3>2 DEF Bucket
    <3>5. RegisterInv(r)'
      BY <1>2, <1>3, <1>4, <1>5, <1>10, <2>7, <3>2, <3>3, <3>4
         DEF RegisterInv, RegisterPcs, Writing, Observed, timeVars
    <3>6. HandlerInv(r)' /\ QueueStep(r)
      BY <1>1, <1>3, <2>7, <3>5 DEF HandlerInv, QueueStep
    <3>7. QED
      BY <1>1, <1>6, <1>7, <1>8, <2>3, <3>1, <3>2, <3>6, HandlerStep
  <2>8. QED
    BY <2>1, <2>5, <2>6, <2>7
<1> QED
  BY <1>9, <1>10

LEMMA CommitWriteKeeps ==
  ASSUME SeasonInv, NEW r \in Registrations, CommitWrite(r)
  PROVE  SeasonInv'
<1>1. r \in Handlers /\ r \notin Members /\ r \notin Timers
  BY KindsOfHandler
<1>2. FlowInv /\ ClockInv /\ RegisterInv(r)
  BY <1>1, StepKinds
<1>3. /\ ops # <<>> /\ Head(ops) = r /\ pc[r] = "write"
      /\ UNCHANGED <<leaves, cache, history>>
      /\ \/ Goto(r, "append") /\ UNCHANGED <<ops, job>>
         \/ Settle /\ Done(r)
  BY DEF CommitWrite, Running
<1>4. MarksStep
  BY <1>2, GuardObserved DEF CommitWrite
<1>5. CASE Settle /\ Done(r)
  <2>1. Moves(r) /\ QueueStep(r) /\ HandlerInv(r)'
    BY <1>1, <1>2, <1>3, <1>5, DoneRests DEF QueueStep, Settle
  <2>2. QED
    BY <1>1, <1>3, <1>4, <2>1, ReadStep
<1>6. CASE Goto(r, "append") /\ UNCHANGED <<ops, job>>
  <2>1. Moves(r) /\ pc'[r] = "append" /\ job'[r] = job[r]
    BY <1>1, <1>2, <1>6, GoneTo
  <2>2. \A s \in Seasons : s <= marks.season => s <= marks'.season
    BY <1>2, <1>4, MarkIsInt, SeasonsAreInts DEF MarksStep, ClockInv
  <2>3. Bucket(r)' = Bucket(r)
    BY <2>1 DEF Bucket
  <2>4. RegisterInv(r)'
    BY <1>2, <1>3, <1>6, <2>1, <2>2, <2>3
       DEF RegisterInv, RegisterPcs, Writing, Observed, cache
  <2>5. HandlerInv(r)'
    BY <1>1, <2>4 DEF HandlerInv
  <2>6. QED
    BY <1>1, <1>3, <1>4, <1>6, <2>1, <2>5, QuietStep
<1> QED
  BY <1>3, <1>5, <1>6

(* The write of a commit, answered or not. *)
LEMMA LoggedGrows ==
  ASSUME SeasonInv, NEW r \in Registrations, pc[r] = "append", leaves' = Logged(r)
  PROVE  /\ LogGrows /\ Bucket(r) \in Buckets
         /\ leaves'[Bucket(r)] = Append(leaves[Bucket(r)], LeafOf(r))
         /\ \A b \in Buckets \ {Bucket(r)} : leaves'[b] = leaves[b]
<1>1. RegisterInv(r) /\ LogInv
  BY KindsOfHandler, StepKinds
<1>2. PICK b \in Buckets : b = Bucket(r)
  BY <1>1 DEF RegisterInv, RegisterPcs, Writing, Observed, Bucket, Buckets
<1>3. leaves[b] \in Seq(Leaf) /\ Len(leaves[b]) \in Nat /\ Len(leaves[b]) < capacity
  BY <1>1, <1>2, LenProperties DEF LogInv, RegisterInv, Writing
<1>4. /\ Append(leaves[b], LeafOf(r)) \in Seq(Leaf)
      /\ Begins(leaves[b], Append(leaves[b], LeafOf(r)))
      /\ Len(Append(leaves[b], LeafOf(r))) <= capacity
  BY <1>3, AppendBegins, LeafTypes, CapacityIsInt
<1>5. leaves' = [leaves EXCEPT ![b] = Append(leaves[b], LeafOf(r))]
  BY <1>2 DEF Logged
<1>6. LogGrows
  BY <1>1, <1>4, <1>5, BeginsItself DEF LogGrows, LogInv
<1> QED
  BY <1>1, <1>2, <1>5, <1>6 DEF LogInv

(* A commit whose leaf lands: the tree takes it or stays behind. *)
LEMMA AppendedHolds ==
  ASSUME SeasonInv, NEW r \in Registrations, RegistrationAppended(r),
         NEW c \in Contexts, c = job[r].ctx, Len(leaves[Bucket(r)]) = sizeOf(c)
  PROVE  /\ DOMAIN trees' = Contexts
         /\ HoldsLog(trees'[c], LogOf(c)')
         /\ \A d \in Contexts \ {c} : trees'[d] = trees[d]
<1> DEFINE leaf == LeafOf(r)
           tree == append(treeOf(c), leaf)
           cached == [tree |-> tree, roots |-> Updated(rootStore(c), Rooted(tree))]
           log == leaves[<<current, c>>]
<1>1. /\ CacheInv /\ LogInv /\ RegisterInv(r)
      /\ pc[r] = "append" /\ leaves' = Logged(r) /\ current' = current
  BY KindsOfHandler, StepKinds DEF RegistrationAppended, Running
<1>2. Bucket(r) = <<current, c>> /\ Bucket(r) \in Buckets
  BY <1>1, LogIsThere DEF RegisterInv, Writing, Bucket
<1>3. trees' = [trees EXCEPT ![c] = cached]
  BY DEF RegistrationAppended
<1>4. LogOf(c)' = Append(log, leaf) /\ log \in Seq(Leaf) /\ LogOf(c) = log
  BY <1>1, <1>2, LoggedGrows, LogIsThere DEF LogOf
<1>5. /\ treeOf(c).commitments \in Seq(Leaf)
      /\ Begins(treeOf(c).commitments, log)
      /\ sizeOf(c) = Len(treeOf(c).commitments) /\ sizeOf(c) \in Nat
      /\ TreeHolds(treeOf(c)) /\ WindowHolds(rootStore(c), log, sizeOf(c))
  BY <1>1, <1>4, ViewsFit
<1>6. treeOf(c).commitments = log /\ Len(log) = sizeOf(c)
  BY <1>2, <1>4, <1>5, SameIfAsLong
<1>7. leaf \in Leaf /\ Append(log, leaf) \in Seq(Leaf) /\ Len(Append(log, leaf)) = Len(log) + 1
  BY <1>4, LeafTypes, AppendBegins
<1>8. tree.commitments = Append(log, leaf)
  <2>1. tree.commitments = Append(treeOf(c).commitments, leaf)
    BY ONLY TreeLeaves
  <2>2. QED
    BY <1>6, <2>1
<1>9. size(tree) = sizeOf(c) + 1 /\ Rooted(tree).height = sizeOf(c) + 1
  BY <1>6, <1>7, <1>8 DEF size, Rooted
<1>10. cached.tree = tree /\ cached.roots = Updated(rootStore(c), Rooted(tree))
  OBVIOUS
<1>11. TreeHolds(tree)
  <2>1. size(treeOf(c)) < capacity
    BY <1>1, <1>2, <1>6 DEF RegisterInv, Writing, sizeOf
  <2>2. treeOf(c).commitments \in Seq(Leaf) /\ TreeHolds(treeOf(c)) /\ leaf \in Leaf
    BY <1>5, <1>7
  <2> HIDE DEF cached, leaf, log
  <2>3. TreeHolds(append(treeOf(c), leaf))
    BY <2>1, <2>2, AppendHolds, DepthAssumption
  <2>4. QED
    BY <2>3
<1> HIDE DEF cached, tree, leaf, log
<1>12. RootOfLog(Rooted(tree), Append(log, leaf))
  BY <1>7, <1>8, <1>11, RootedIsOfLog
<1>13. WindowHolds(rootStore(c), Append(log, leaf), sizeOf(c))
  <2>1. Begins(log, Append(log, leaf)) /\ sizeOf(c) <= Len(log)
    BY <1>4, <1>5, <1>6, <1>7, AppendBegins
  <2> DEFINE longer == Append(log, leaf)
             roots == rootStore(c)
             n == sizeOf(c)
  <2>2. /\ log \in Seq(Leaf) /\ longer \in Seq(Leaf) /\ Begins(log, longer)
        /\ n \in Nat /\ n <= Len(log) /\ n <= n /\ WindowHolds(roots, log, n)
    BY <1>4, <1>5, <1>7, <2>1
  <2> HIDE DEF longer, roots, n
  <2>3. WindowHolds(roots, longer, n)
    BY <2>2, WindowStays
  <2>4. QED
    BY <2>3 DEF longer, roots, n
<1>14. WindowHolds(cached.roots, Append(log, leaf), sizeOf(c) + 1)
  BY <1>5, <1>9, <1>10, <1>12, <1>13, UpdatedRoots
<1>15. HoldsLog(cached, Append(log, leaf))
  BY <1>7, <1>8, <1>9, <1>10, <1>11, <1>14, BeginsItself DEF HoldsLog, FitsLog
<1>16. DOMAIN trees = Contexts
  BY <1>1 DEF CacheInv
<1> QED
  BY <1>3, <1>4, <1>15, <1>16

LEMMA RegistrationAppendedKeeps ==
  ASSUME SeasonInv, NEW r \in Registrations, RegistrationAppended(r)
  PROVE  SeasonInv'
<1>1. r \in Handlers /\ r \notin Members /\ r \notin Timers
  BY KindsOfHandler
<1>2. FlowInv /\ ClockInv /\ CacheInv /\ LogInv /\ ToldInv /\ GrantInv /\ RegisterInv(r)
  BY <1>1, StepKinds
<1>3. /\ QueueStep(r) /\ pc[r] = "append" /\ Done(r) /\ leaves' = Logged(r)
      /\ UNCHANGED <<timeVars, current, granted>>
  BY DEF RegistrationAppended, Running, Settle, QueueStep
<1>4. PICK c \in Contexts : c = job[r].ctx
  BY <1>2, <1>3 DEF RegisterInv, RegisterPcs, Writing
<1>5. PICK b \in Buckets : b = Bucket(r) /\ b = <<current, c>>
  BY <1>2, <1>3, <1>4, LogIsThere DEF RegisterInv, Writing, Bucket
<1>6. /\ LogGrows /\ MarksStep
      /\ leaves'[b] = Append(leaves[b], LeafOf(r))
      /\ leaves[b] \in Seq(Leaf) /\ Len(leaves[b]) \in Nat
  BY <1>2, <1>3, <1>5, LoggedGrows, MarksStay, LenProperties DEF LogInv
<1>7. current <= current' /\ current' <= marks'.season
  BY <1>2, <1>3, SeasonsAreInts DEF CacheInv, ClockInv, timeVars
<1>8. GrantInv'
  BY <1>2, <1>3, <1>6, GrantsStay
<1>9. Moves(r) /\ HandlerInv(r)'
  BY <1>1, <1>2, <1>3, DoneRests
<1>10. CASE Len(leaves[b]) # sizeOf(c)
  <2>1. UNCHANGED <<trees, told>>
    BY <1>4, <1>5, <1>10 DEF RegistrationAppended
  <2>2. CacheStep
    BY <1>2, <1>3, <2>1, CacheStays DEF cache
  <2>3. ToldInv'
    BY <1>2, <1>6, <2>1, <2>2, AnswersStay DEF ToldInv
  <2>4. QED
    BY <1>1, <1>3, <1>6, <1>7, <1>8, <1>9, <2>2, <2>3, HandlerStep
<1>11. CASE Len(leaves[b]) = sizeOf(c)
  <2>1. /\ DOMAIN trees' = Contexts
        /\ HoldsLog(trees'[c], LogOf(c)')
        /\ \A d \in Contexts \ {c} : trees'[d] = trees[d]
    BY <1>4, <1>5, <1>11, AppendedHolds
  <2>2. CacheStep
    BY <1>2, <1>3, <2>1 DEF CacheStep, CacheInv
  <2>3. PICK n \in Nat : n = Len(leaves[b])
    BY <1>6
  <2>4. told' = told \cup {[kind |-> "ok", request |-> r, bucket |-> b, index |-> n]}
    BY <1>4, <1>5, <1>11, <2>3 DEF RegistrationAppended, Tell, IndexOf
  <2>5. /\ Len(leaves'[b]) = n + 1 /\ leaves'[b][n + 1] = LeafOf(r)
        /\ KeyOf[r] \in KeysOf(leaves'[b])
    BY <1>6, <2>3, LeafTypes, AppendBegins
  <2>6. LogOf(c)' = leaves'[b]
    BY <1>3, <1>5 DEF LogOf
  <2>7. trees'[c] # Unbuilt => sizeOf(c)' = n + 1
    BY <2>1, <2>5, <2>6 DEF HoldsLog, sizeOf, treeOf, size
  <2>8. ASSUME NEW x, x = [kind |-> "ok", request |-> r, bucket |-> b, index |-> n]
        PROVE  x \in Answer /\ KeyOf[x.request] \in KeysOf(leaves[x.bucket])' /\ AnswerHolds(x)'
    BY <1>5, <2>5, <2>7, <2>8 DEF Answer, AnswerHolds, OkKeepsItsLeaf, LeafOf
  <2>9. ToldInv'
    BY <1>2, <1>6, <2>2, <2>4, <2>8, AnswersStay DEF ToldInv
  <2>10. QED
    BY <1>1, <1>3, <1>6, <1>7, <1>8, <1>9, <2>2, <2>9, HandlerStep
<1> QED
  BY <1>10, <1>11

LEMMA AppendThrowsKeeps ==
  ASSUME SeasonInv, NEW r \in Registrations, AppendThrows(r)
  PROVE  SeasonInv'
<1>1. r \in Handlers /\ r \notin Members /\ r \notin Timers
  BY KindsOfHandler
<1>2. FlowInv /\ ClockInv /\ CacheInv /\ LogInv /\ ToldInv /\ GrantInv
  BY <1>1, StepKinds
<1>3. /\ QueueStep(r) /\ pc[r] = "append" /\ Done(r) /\ leaves' \in {leaves, Logged(r)}
      /\ UNCHANGED <<timeVars, cache, history>>
  BY DEF AppendThrows, Running, Settle, QueueStep
<1>4. LogGrows /\ CacheStep /\ MarksStep
  BY <1>2, <1>3, LoggedGrows, LogStays, CacheStays, MarksStay
<1>5. ToldInv' /\ GrantInv'
  BY <1>2, <1>3, <1>4, AnswersStay, GrantsStay DEF ToldInv, history
<1>6. current <= current' /\ current' <= marks'.season
  BY <1>2, <1>3, SeasonsAreInts DEF CacheInv, ClockInv, timeVars, cache
<1>7. Moves(r) /\ HandlerInv(r)'
  BY <1>1, <1>2, <1>3, DoneRests
<1> QED
  BY <1>1, <1>3, <1>4, <1>5, <1>6, <1>7, HandlerStep

LEMMA ReadThrowsKeeps ==
  ASSUME SeasonInv, NEW r \in Registrations, ReadThrows(r)
  PROVE  SeasonInv'
<1>1. r \in Handlers /\ r \notin Members /\ r \notin Timers
  BY KindsOfHandler
<1>2. FlowInv /\ ClockInv /\ CacheInv /\ LogInv /\ ToldInv /\ GrantInv /\ RegisterInv(r)
  BY <1>1, StepKinds
<1>3. QueueStep(r) /\ Done(r) /\ UNCHANGED <<timeVars, leaves, current, history>>
  BY DEF ReadThrows, Running, Settle, QueueStep
<1>4. LogGrows /\ MarksStep
  BY <1>2, <1>3, LogStays, MarksStay
<1>5. CacheStep
  <2>1. CASE trees' = trees
    BY <1>2, <1>3, <2>1, CacheStays DEF cache
  <2>2. CASE pc[r] = "commit" /\ trees' = Materialized(job[r].ctx)
    <3>1. PICK c \in Contexts : c = job[r].ctx
      BY <1>2, <2>2 DEF RegisterInv
    <3>2. /\ DOMAIN trees' = Contexts
          /\ HoldsLog(trees'[c], LogOf(c)) /\ LogOf(c)' = LogOf(c)
          /\ \A d \in Contexts \ {c} : trees'[d] = trees[d]
      BY <1>2, <1>3, <2>2, <3>1, MaterializedCatchesUp DEF LogOf
    <3>3. QED
      BY <1>2, <1>3, <3>2 DEF CacheStep, CacheInv
  <2>3. QED
    BY <2>1, <2>2 DEF ReadThrows, Running
<1>6. ToldInv' /\ GrantInv'
  BY <1>2, <1>3, <1>4, <1>5, AnswersStay, GrantsStay DEF ToldInv, history
<1>7. current <= current' /\ current' <= marks'.season
  BY <1>2, <1>3, SeasonsAreInts DEF CacheInv, ClockInv, timeVars
<1>8. Moves(r) /\ HandlerInv(r)'
  BY <1>1, <1>2, <1>3, DoneRests
<1> QED
  BY <1>1, <1>3, <1>4, <1>5, <1>6, <1>7, <1>8, HandlerStep
-----------------------------------------------------------------------------
(* The steps of a member.                                                  *)

LEMMA AskChallengeKeeps ==
  ASSUME SeasonInv, NEW v \in Members, NEW c \in Contexts, AskChallenge(v, c)
  PROVE  SeasonInv'
<1> DEFINE j == [ctx |-> c, season |-> NoMark, epoch |-> NoMark, roll |-> NoMark,
                 root |-> <<>>, window |-> NoMark]
<1>1. v \in Handlers /\ v \notin Registrations /\ v \notin Timers
  BY KindsOfHandler
<1>2. ASSUME pc'[v] = "challengeBody", job'[v] = j PROVE HandlerInv(v)'
  BY <1>1, <1>2 DEF HandlerInv, MemberInv, MemberPcs, MemberJob, Browsing, Rolling, Rolled, Proving
<1>3. Dispatch(v, "challengeBody", j)
  BY DEF AskChallenge
<1> HIDE DEF j
<1> QED
  BY <1>1, <1>2, <1>3, Dispatched

LEMMA AskVerifyKeeps ==
  ASSUME SeasonInv, NEW v \in Members, AskVerify(v)
  PROVE  SeasonInv'
<1>1. v \in Handlers /\ v \notin Registrations /\ v \notin Timers
  BY KindsOfHandler
<1>2. MemberInv(v) /\ pc[v] = "challenged" /\ UNCHANGED cache
  BY <1>1, StepKinds DEF AskVerify, Dispatch
<1>3. ASSUME pc'[v] = "verifyBody", job'[v] = job[v] PROVE HandlerInv(v)'
  BY <1>1, <1>2, <1>3
     DEF HandlerInv, MemberInv, MemberPcs, MemberJob, Browsing, Rolling, Rolled, Proving, cache
<1> QED
  BY <1>1, <1>3, Dispatched DEF AskVerify

LEMMA AskMembersKeeps ==
  ASSUME SeasonInv, NEW v \in Members, NEW c \in Contexts, AskMembers(v, c)
  PROVE  SeasonInv'
<1>1. v \in Handlers /\ v \notin Registrations /\ v \notin Timers
  BY KindsOfHandler
<1>2. FlowInv /\ ClockInv /\ UNCHANGED <<clock, leaves, cache, history>>
  BY <1>1, StepKinds DEF AskMembers
<1>3. MarksStep /\ Now \in Seasons /\ Now <= marks'.season
  BY <1>2, GuardObserved DEF AskMembers
<1>4. CASE Done(v) /\ UNCHANGED ops
  BY <1>1, <1>2, <1>3, <1>4, DoneRests, QuietStep
<1>5. CASE job' = [job EXCEPT ![v] = [ctx |-> c, roll |-> Now]] /\ Enqueue(v, "membersEnsure")
  <2>1. Moves(v) /\ pc'[v] = "membersEnsure" /\ job'[v] = [ctx |-> c, roll |-> Now]
    BY <1>1, <1>2, <1>5, GoneTo DEF Enqueue
  <2>2. HandlerInv(v)'
    BY <1>1, <1>3, <2>1
       DEF HandlerInv, MemberInv, MemberPcs, Browsing, Rolling, Rolled, Proving, Observed
  <2>3. QED
    BY <1>1, <1>2, <1>3, <1>5, <2>1, <2>2, QuietStep DEF Enqueue
<1> QED
  BY <1>4, <1>5 DEF AskMembers

LEMMA ReadMembersKeeps ==
  ASSUME SeasonInv, NEW v \in Members, ReadMembers(v)
  PROVE  SeasonInv'
<1>1. v \in Handlers
  BY KindsOfHandler
<1>2. FlowInv /\ ClockInv
  BY <1>1, StepKinds
<1> QED
  BY <1>1, <1>2, DoneRests, MarksStay, QuietStep DEF ReadMembers

LEMMA ChallengeBodyKeeps ==
  ASSUME SeasonInv, NEW v \in Members, ChallengeBody(v)
  PROVE  SeasonInv'
<1> DEFINE j == [[job[v] EXCEPT !.season = Now] EXCEPT !.roll = Now]
<1>1. v \in Handlers /\ v \notin Registrations /\ v \notin Timers
  BY KindsOfHandler
<1>2. /\ FlowInv /\ ClockInv /\ UNCHANGED <<clock, leaves, cache, history>>
      /\ MemberJob(job[v])
  BY <1>1, StepKinds DEF ChallengeBody, MemberInv
<1>3. MarksStep /\ Now \in Seasons /\ Now <= marks'.season
  BY <1>2, GuardObserved DEF ChallengeBody
<1>4. job' = [job EXCEPT ![v] = j]
  BY <1>2 DEF ChallengeBody, FlowInv
<1>5. MemberJob(j) /\ j.season = Now /\ j.roll = Now
  BY <1>2, <1>3 DEF MemberJob
<1> HIDE DEF j
<1>6. Moves(v) /\ pc'[v] = "challengeEnsure" /\ job'[v] = j
  BY <1>1, <1>2, <1>4, GoneTo DEF ChallengeBody, Enqueue
<1>7. HandlerInv(v)'
  BY <1>1, <1>3, <1>5, <1>6
     DEF HandlerInv, MemberInv, MemberPcs, Browsing, Rolling, Rolled, Proving, Observed
<1> QED
  BY <1>1, <1>2, <1>3, <1>6, <1>7, QuietStep DEF ChallengeBody, Enqueue

LEMMA MintKeeps ==
  ASSUME SeasonInv, NEW v \in Members, Mint(v)
  PROVE  SeasonInv'
<1> DEFINE j == [job[v] EXCEPT !.epoch = epochNow(clock)]
<1>1. v \in Handlers /\ v \notin Registrations /\ v \notin Timers
  BY KindsOfHandler
<1>2. /\ FlowInv /\ ClockInv /\ MemberInv(v) /\ pc[v] = "mint"
      /\ UNCHANGED <<clock, leaves, cache, ops, history>>
  BY <1>1, StepKinds DEF Mint
<1>3. MarksStep
  <2>1. marks' \in Marks /\ file' \in Marks /\ clock' \in Clock
    BY <1>2, ObservedTypes, ObserveTypes DEF Mint, ClockInv
  <2>2. marks'.season = marks.season /\ marks.season \in Int
    BY <1>2, MarkIsInt DEF Mint, ObservedEpoch, Marks, ClockInv
  <2>3. QED
    BY <2>1, <2>2 DEF MarksStep
<1>4. MemberJob(job[v]) /\ job[v].season \in Seasons /\ job[v].season <= current
  BY <1>2 DEF MemberInv, Rolled
<1>5. epochNow(clock) \in Epochs
  BY <1>2, PeriodTypes DEF ClockInv
<1>6. MemberJob(j) /\ j.season = job[v].season
  BY <1>4, <1>5 DEF MemberJob
<1> HIDE DEF j
<1>7. Moves(v) /\ pc'[v] = "challenged" /\ job'[v] = j
  BY <1>1, <1>2, GoneTo DEF Mint, j
<1>8. HandlerInv(v)'
  BY <1>1, <1>2, <1>4, <1>6, <1>7
     DEF HandlerInv, MemberInv, MemberPcs, Browsing, Rolling, Rolled, Proving, cache
<1> QED
  BY <1>1, <1>2, <1>3, <1>7, <1>8, QuietStep

LEMMA VerifyBodyKeeps ==
  ASSUME SeasonInv, NEW v \in Members, VerifyBody(v)
  PROVE  SeasonInv'
<1> DEFINE j == [job[v] EXCEPT !.roll = Now]
<1>1. v \in Handlers /\ v \notin Registrations /\ v \notin Timers
  BY KindsOfHandler
<1>2. /\ FlowInv /\ ClockInv /\ MemberInv(v) /\ pc[v] = "verifyBody"
      /\ UNCHANGED <<clock, leaves, cache, history>>
  BY <1>1, StepKinds DEF VerifyBody
<1>3. CASE Done(v) /\ UNCHANGED <<marks, file, ops>>
  BY <1>1, <1>2, <1>3, DoneRests, MarksStay, QuietStep DEF timeVars
<1>4. CASE ObserveSeason /\ job' = [job EXCEPT ![v].roll = Now] /\ Enqueue(v, "verifyEnsure")
  <2>1. MarksStep /\ Now \in Seasons /\ Now <= marks'.season
    BY <1>2, <1>4, GuardObserved
  <2>2. MemberJob(job[v]) /\ job[v].season \in Seasons /\ job[v].season <= current
    BY <1>2 DEF MemberInv, Rolled
  <2>3. MemberJob(j) /\ j.season = job[v].season /\ j.roll = Now
    BY <2>1, <2>2 DEF MemberJob
  <2>4. job' = [job EXCEPT ![v] = j]
    BY <1>4
  <2> HIDE DEF j
  <2>5. Moves(v) /\ pc'[v] = "verifyEnsure" /\ job'[v] = j
    BY <1>1, <1>2, <1>4, <2>4, GoneTo DEF Enqueue
  <2>6. HandlerInv(v)'
    BY <1>1, <1>2, <2>1, <2>2, <2>3, <2>5
       DEF HandlerInv, MemberInv, MemberPcs, Browsing, Rolling, Rolled, Proving, Observed, cache
  <2>7. QED
    BY <1>1, <1>2, <1>4, <2>1, <2>5, <2>6, QuietStep DEF Enqueue
<1> QED
  BY <1>3, <1>4 DEF VerifyBody

(* The three rolls of a member: /v1/members, the challenge, the verify. *)
Rolls == {<<"membersEnsure", "membersRead">>, <<"challengeEnsure", "mint">>,
          <<"verifyEnsure", "window">>}

LEMMA EnsureContextKeeps ==
  ASSUME SeasonInv, NEW v \in Members, NEW from, NEW to, <<from, to>> \in Rolls,
         EnsureContext(v, from, to)
  PROVE  SeasonInv'
<1>1. v \in Handlers /\ v \notin Registrations /\ v \notin Timers
  BY KindsOfHandler
<1>2. FlowInv /\ ClockInv /\ CacheInv /\ LogInv /\ ToldInv /\ GrantInv /\ MemberInv(v)
  BY <1>1, StepKinds
<1>3. /\ from \in {"membersEnsure", "challengeEnsure", "verifyEnsure"}
      /\ pc[v] = from /\ QueueStep(v) /\ UNCHANGED <<timeVars, leaves, history>>
  BY DEF EnsureContext, Rolls, Running, Settle, QueueStep
<1>4. PICK s \in Seasons, c \in Contexts :
        s = job[v].roll /\ c = job[v].ctx /\ Observed(s)
  BY <1>2, <1>3 DEF MemberInv, Browsing, Rolling, MemberJob, Observed
<1>5. MarksStep /\ LogGrows
  BY <1>2, <1>3, MarksStay, LogStays
<1>6. current \in Int /\ s \in Int /\ current <= marks.season /\ s <= marks.season
  BY <1>2, <1>4, SeasonsAreInts DEF CacheInv, ClockInv, Observed
<1>7. \/ RollRefused(s) /\ UNCHANGED cache /\ Done(v)
      \/ ~RollRefused(s) /\ current' = s /\ trees' = Opened(s, c) /\ Goto(v, to) /\ job' = job
      \/ ~RollRefused(s) /\ current' = s /\ trees' = RolledTrees(s) /\ Done(v)
  BY <1>4 DEF EnsureContext
<1>8. CASE RollRefused(s) /\ UNCHANGED cache /\ Done(v)
  <2>1. Moves(v) /\ HandlerInv(v)'
    BY <1>1, <1>2, <1>8, DoneRests
  <2>2. QED
    BY <1>1, <1>3, <1>5, <1>8, <2>1, ReadStep
<1>9. ASSUME ~RollRefused(s), current' = s, CacheStep, Moves(v), HandlerInv(v)'
      PROVE  SeasonInv'
  <2>1. ToldInv' /\ GrantInv'
    BY <1>2, <1>3, <1>5, <1>9, AnswersStay, GrantsStay DEF ToldInv, history
  <2>2. current <= current' /\ current' <= marks'.season
    BY <1>3, <1>6, <1>9 DEF RollRefused, timeVars
  <2>3. QED
    BY <1>1, <1>3, <1>5, <1>9, <2>1, <2>2, HandlerStep
<1>10. CASE ~RollRefused(s) /\ current' = s /\ trees' = RolledTrees(s) /\ Done(v)
  BY <1>1, <1>2, <1>4, <1>9, <1>10, DoneRests, RollStep
<1>11. CASE ~RollRefused(s) /\ current' = s /\ trees' = Opened(s, c) /\ Goto(v, to) /\ job' = job
  <2>1. LogOf(c)' = leaves[<<s, c>>]
    BY <1>3, <1>11 DEF LogOf
  <2>2. CacheStep
    BY <1>2, <1>4, <1>11, <2>1, OpenedCatchesUp DEF CacheStep
  <2>3. Moves(v) /\ pc'[v] = to /\ job'[v] = job[v]
    BY <1>1, <1>2, <1>11, GoneTo
  <2>4. \/ from = "membersEnsure" /\ to = "membersRead"
        \/ from = "challengeEnsure" /\ to = "mint"
        \/ from = "verifyEnsure" /\ to = "window"
    BY DEF Rolls
  <2>5. from \in Rolling => /\ MemberJob(job[v]) /\ job[v].season \in Seasons
                            /\ job[v].season <= current'
    <3>1. CASE from = "challengeEnsure"
      BY <1>2, <1>3, <1>4, <1>6, <1>11, <3>1 DEF MemberInv, Rolling
    <3>2. CASE from = "verifyEnsure"
      <4>1. MemberJob(job[v]) /\ job[v].season \in Seasons /\ job[v].season <= current
        BY <1>2, <1>3, <3>2 DEF MemberInv, Rolled
      <4>2. current <= current' /\ current' \in Int
        BY <1>6, <1>11 DEF RollRefused
      <4>3. QED
        BY <1>6, <4>1, <4>2, SeasonsAreInts
    <3>3. QED
      BY <3>1, <3>2 DEF Rolling
  <2>6. MemberInv(v)'
    <3>1. CASE from = "membersEnsure"
      <4>1. job[v] \in [ctx : Contexts, roll : Seasons] /\ Observed(job[v].roll)
        BY <1>2, <1>3, <3>1 DEF MemberInv, Browsing
      <4>2. pc'[v] = "membersRead"
        BY <2>3, <2>4, <3>1
      <4>3. QED
        BY <1>3, <2>3, <4>1, <4>2
           DEF MemberInv, MemberPcs, Browsing, Rolling, Rolled, Proving, Observed, timeVars
    <3>2. CASE from \in Rolling
      <4>1. pc'[v] \in {"mint", "window"}
        BY <2>3, <2>4, <3>2 DEF Rolling
      <4>2. QED
        BY <2>3, <2>5, <3>2, <4>1 DEF MemberInv, MemberPcs, Browsing, Rolling, Rolled, Proving
    <3>3. QED
      BY <1>3, <3>1, <3>2 DEF Rolling
  <2>7. QED
    BY <1>1, <1>9, <1>11, <2>2, <2>3, <2>6 DEF HandlerInv
<1> QED
  BY <1>7, <1>8, <1>10, <1>11

(* A root of the window has leaves of the log of its season only. *)
LEMMA TakeWindowKeeps ==
  ASSUME SeasonInv, NEW v \in Members, TakeWindow(v)
  PROVE  SeasonInv'
<1>1. v \in Handlers /\ v \notin Registrations /\ v \notin Timers
  BY KindsOfHandler
<1>2. FlowInv /\ ClockInv /\ CacheInv /\ LogInv /\ MemberInv(v) /\ MarksStep
      /\ pc[v] = "window" /\ UNCHANGED <<timeVars, leaves, cache, ops, history>>
  BY <1>1, StepKinds, MarksStay DEF TakeWindow
<1>3. CASE Done(v)
  BY <1>1, <1>2, <1>3, DoneRests, QuietStep
<1>4. ASSUME NEW root \in Provable(v), Goto(v, "proof"),
             job' = [job EXCEPT ![v].root = root, ![v].window = current]
      PROVE  SeasonInv'
  <2> DEFINE j == [[job[v] EXCEPT !.root = root] EXCEPT !.window = current]
  <2>1. MemberJob(job[v]) /\ job[v].season \in Seasons /\ job[v].season <= current
    BY <1>2 DEF MemberInv, Rolled
  <2>2. PICK c \in Contexts : c = job[v].ctx
    BY <2>1 DEF MemberJob
  <2>3. PICK m \in DOMAIN rootStore(c) :
          \E i \in 1..rootStore(c)[m].height : treeOf(c).commitments[i].key = KeyOf[v]
    BY <1>4, <2>2 DEF Provable
  <2>4. /\ treeOf(c).commitments \in Seq(Leaf) /\ LogOf(c) \in Seq(Leaf)
        /\ Begins(treeOf(c).commitments, LogOf(c))
        /\ sizeOf(c) = Len(treeOf(c).commitments) /\ sizeOf(c) \in Nat
        /\ rootStore(c) \in Seq(Range(rootStore(c)))
        /\ \A n \in 1..Len(rootStore(c)) : rootStore(c)[n].height \in 0..sizeOf(c)
    BY <1>2, ViewsFit, LogIsThere DEF WindowHolds
  <2>5. m \in 1..Len(rootStore(c))
    BY <2>4, LenProperties
  <2>6. rootStore(c)[m].height \in 0..sizeOf(c)
    BY <2>4, <2>5
  <2>7. PICK k \in DOMAIN treeOf(c).commitments : treeOf(c).commitments[k].key = KeyOf[v]
    BY <2>3, <2>4, <2>6, LenProperties
  <2>8. KeyOf[v] \in KeysOf(leaves[<<current, c>>])
    BY <2>4, <2>7, KeysStay DEF KeysOf, LogOf
  <2>9. current \in Seasons
    BY <1>2 DEF CacheInv
  <2>10. MemberJob(j) /\ j.season = job[v].season /\ j.ctx = c /\ j.window = current
    BY <2>1, <2>2, <2>9 DEF MemberJob
  <2>11. job' = [job EXCEPT ![v] = j]
    BY <1>1, <1>2, <1>4 DEF FlowInv
  <2> HIDE DEF j
  <2>12. Moves(v) /\ pc'[v] = "proof" /\ job'[v] = j
    BY <1>1, <1>2, <1>4, <2>11, GoneTo
  <2>13. MemberInv(v)'
    BY <1>2, <2>1, <2>8, <2>9, <2>10, <2>12
       DEF MemberInv, MemberPcs, Browsing, Rolling, Rolled, Proving, cache
  <2>14. QED
    BY <1>1, <1>2, <2>12, <2>13, QuietStep DEF HandlerInv
<1> QED
  BY <1>3, <1>4 DEF TakeWindow

LEMMA FinishProofKeeps ==
  ASSUME SeasonInv, NEW v \in Members, FinishProof(v)
  PROVE  SeasonInv'
<1>1. v \in Handlers /\ v \notin Registrations /\ v \notin Timers
  BY KindsOfHandler
<1>2. /\ FlowInv /\ ClockInv /\ MemberInv(v) /\ pc[v] = "proof"
      /\ UNCHANGED <<clock, leaves, cache, ops, history>>
  BY <1>1, StepKinds DEF FinishProof
<1>3. MarksStep
  BY <1>2, GuardObserved, MarksStay DEF FinishProof, timeVars
<1>4. CASE Done(v)
  BY <1>1, <1>2, <1>3, <1>4, DoneRests, QuietStep
<1>5. CASE Goto(v, "spend") /\ UNCHANGED job
  <2>1. Moves(v) /\ pc'[v] = "spend" /\ job'[v] = job[v]
    BY <1>1, <1>2, <1>5, GoneTo
  <2>2. MemberInv(v)'
    BY <1>2, <2>1 DEF MemberInv, MemberPcs, Browsing, Rolling, Rolled, Proving, cache
  <2>3. QED
    BY <1>1, <1>2, <1>3, <2>1, <2>2, QuietStep DEF HandlerInv
<1> QED
  BY <1>4, <1>5 DEF FinishProof

(* The period a grant is made in is the season of the window its proof was
   checked against: the guard holds the clock at or above the cache, the cache
   has not gone below the season of the challenge. *)
LEMMA FinishSpendKeeps ==
  ASSUME SeasonInv, NEW v \in Members, FinishSpend(v)
  PROVE  SeasonInv'
<1>1. v \in Handlers /\ v \notin Registrations /\ v \notin Timers
  BY KindsOfHandler
<1>2. /\ FlowInv /\ ClockInv /\ CacheInv /\ LogInv /\ ToldInv /\ GrantInv /\ MemberInv(v)
      /\ pc[v] = "spend" /\ Done(v) /\ UNCHANGED <<clock, leaves, cache, ops, told>>
  BY <1>1, StepKinds DEF FinishSpend
<1>3. /\ MarksStep /\ Now \in Seasons /\ Now <= marks'.season
      /\ ~marks'.regressed => Now = marks'.season
  BY <1>2, GuardObserved DEF FinishSpend
<1>4. LogGrows /\ CacheStep /\ QueueStep(v)
  BY <1>2, LogStays, CacheStays DEF QueueStep, cache
<1>5. ToldInv'
  BY <1>2, <1>4, AnswersStay DEF ToldInv
<1>6. /\ current' = current /\ current \in Int /\ Now \in Int
      /\ current <= marks.season /\ marks.season <= marks'.season
      /\ marks.season \in Int /\ marks'.season \in Int
  BY <1>2, <1>3, MarkIsInt, SeasonsAreInts DEF MarksStep, ClockInv, CacheInv, cache
<1>7. CASE ~PeriodHolds(v)
  <2>1. granted' = granted
    BY <1>7 DEF FinishSpend
  <2>2. GrantInv'
    BY <1>2, <1>4, <2>1, GrantsStay
  <2>3. QED
    BY <1>1, <1>2, <1>3, <1>4, <1>5, <1>6, <2>2, DoneRests, HandlerStep
<1>8. CASE PeriodHolds(v)
  <2>1. ~marks'.regressed /\ Now = job[v].season /\ current = job[v].window
    BY <1>8 DEF PeriodHolds
  <2>2. PICK c \in Contexts : c = job[v].ctx
    BY <1>2 DEF MemberInv, Proving, MemberJob
  <2>3. /\ job[v].season <= current
        /\ KeyOf[v] \in KeysOf(leaves[<<job[v].window, c>>])
    BY <1>2, <2>2 DEF MemberInv, Proving
  <2>4. current = Now
    BY <1>3, <1>6, <2>1, <2>3
  <2>5. KeyOf[v] \in KeysOf(leaves[<<Now, c>>]) /\ KeyOf[v] \in Keys
    BY <2>1, <2>3, <2>4, SeasonAssumption
  <2>6. PICK g \in Grant : g = [key |-> KeyOf[v], ctx |-> c, season |-> Now]
    BY <1>3, <2>5 DEF Grant
  <2>7. granted' = granted \cup {g}
    BY <1>8, <2>2, <2>6 DEF FinishSpend
  <2>8. g.key \in KeysOf(leaves'[<<g.season, g.ctx>>])
    BY <1>2, <2>5, <2>6
  <2>9. GrantInv'
    BY <1>2, <2>7, <2>8 DEF GrantInv, GrantNeedsRegistration
  <2>10. QED
    BY <1>1, <1>2, <1>3, <1>4, <1>5, <1>6, <2>9, DoneRests, HandlerStep
<1> QED
  BY <1>7, <1>8
-----------------------------------------------------------------------------
(* The environment, and the theorems.                                      *)

LEMMA ClockMoves ==
  ASSUME SeasonInv, clock' \in Clock,
         UNCHANGED <<marks, file, leaves, cache, ops, pc, job, history>>
  PROVE  SeasonInv'
<1>1. LogInv /\ CacheInv /\ ClockInv /\ FlowInv /\ ToldInv /\ GrantInv
  BY DEF SeasonInv
<1>2. LogGrows /\ CacheStep
  BY <1>1, LogStays, CacheStays DEF cache
<1>3. LogInv' /\ CacheInv' /\ ToldInv' /\ GrantInv'
  BY <1>1, <1>2, CacheFits, AnswersStay, GrantsStay DEF ToldInv, history
<1>4. ClockInv'
  BY <1>1 DEF ClockInv, cache
<1>5. ASSUME NEW h \in Handlers PROVE HandlerInv(h)'
  <2>1. HandlerInv(h)
    BY <1>1 DEF FlowInv
  <2>2. (RegisterInv(h) <=> RegisterInv(h)') /\ (TimerInv(h) <=> TimerInv(h)')
    BY DEF RegisterInv, TimerInv, Observed, Has, Bucket, cache
  <2>3. MemberInv(h) <=> MemberInv(h)'
    BY DEF MemberInv, Observed, cache
  <2>4. QED
    BY <2>1, <2>2, <2>3 DEF HandlerInv
<1>6. FlowInv'
  BY <1>1, <1>5 DEF FlowInv
<1> QED
  BY <1>3, <1>4, <1>6 DEF SeasonInv

(* A new process: nothing of the cache, and a season read from the clock. *)
LEMMA RestartKeeps ==
  ASSUME SeasonInv, Restart PROVE SeasonInv'
<1>1. LogInv /\ CacheInv /\ ClockInv /\ FlowInv /\ ToldInv /\ GrantInv
  BY DEF SeasonInv
<1>2. LogGrows
  <2>1. CASE leaves' = leaves
    BY <1>1, <2>1, LogStays
  <2>2. ASSUME NEW r \in Registrations, pc[r] = "append", leaves' = Logged(r)
        PROVE  LogGrows
    BY <2>2, LoggedGrows
  <2>3. QED
    BY <2>1, <2>2 DEF Restart
<1>3. /\ Now \in Seasons /\ marks' \in Marks /\ file' \in Marks /\ Now <= marks'.season
      /\ clock' \in Clock
  BY <1>1, NoMarksType, BothObserved, PeriodTypes DEF Restart, ClockInv, Now
<1>4. /\ CacheStep /\ current' = Now
      /\ \A h \in Handlers : pc'[h] = IF pc[h] = "idle" THEN "idle" ELSE Rest(h)
      /\ DOMAIN pc' = Handlers /\ DOMAIN job' = Handlers /\ ops' = <<>>
  BY <1>3 DEF Restart, CacheStep
<1>5. LogInv' /\ CacheInv' /\ ToldInv' /\ GrantInv' /\ ClockInv'
  BY <1>1, <1>2, <1>3, <1>4, CacheFits, AnswersStay, GrantsStay
     DEF Restart, ToldInv, ClockInv, history
<1>6. ASSUME NEW h \in Handlers PROVE HandlerInv(h)'
  <2>1. pc'[h] = "idle" \/ (h \notin Timers /\ pc'[h] = "done")
    BY <1>4 DEF Rest
  <2>2. RegisterInv(h)' /\ MemberInv(h)' /\ (h \in Timers => TimerInv(h)')
    BY <2>1 DEF RegisterInv, RegisterPcs, Writing, MemberInv, MemberPcs, Browsing, Rolling,
                Rolled, Proving, TimerInv
  <2>3. QED
    BY <2>2 DEF HandlerInv
<1>7. FlowInv'
  BY <1>4, <1>6, EmptySeq DEF FlowInv
<1> QED
  BY <1>5, <1>7 DEF SeasonInv

LEMMA InitHolds == Init => SeasonInv
<1> SUFFICES ASSUME Init PROVE SeasonInv
  OBVIOUS
<1>1. /\ clock \in Clock /\ Now \in Seasons /\ marks \in Marks /\ file \in Marks
      /\ Now <= marks.season /\ current = Now
  BY NoMarksType, BothObserved, PeriodTypes DEF Init, Now
<1>2. LogInv
  <2>1. Earlier \in Seq(Leaf) /\ Len(Earlier) <= capacity
    BY LeafTypes, SeasonAssumption
  <2>2. <<>> \in Seq(Leaf) /\ Len(<<>>) = 0
    BY EmptySeq
  <2>3. capacity >= 0
    BY <2>1, LenProperties, CapacityIsInt
  <2>4. leaves = [b \in Buckets |-> IF b[1] = Now THEN Earlier ELSE <<>>]
    BY DEF Init, Buckets
  <2>5. \A b \in Buckets : leaves[b] \in {Earlier, <<>>}
    BY <2>4
  <2>6. QED
    BY <2>1, <2>2, <2>3, <2>4, <2>5 DEF LogInv
<1>3. CacheInv
  BY <1>1 DEF Init, CacheInv
<1>4. ClockInv
  BY <1>1 DEF ClockInv
<1>5. FlowInv
  <2>1. ASSUME NEW h \in Handlers PROVE HandlerInv(h)
    BY DEF Init, HandlerInv, RegisterInv, RegisterPcs, Writing, MemberInv, MemberPcs, Browsing,
           Rolling, Rolled, Proving, TimerInv
  <2>2. QED
    BY <2>1, EmptySeq DEF Init, FlowInv
<1>6. ToldInv /\ GrantInv
  BY DEF Init, ToldInv, GrantInv, GrantNeedsRegistration
<1> QED
  BY <1>2, <1>3, <1>4, <1>5, <1>6 DEF SeasonInv

LEMMA NextKeeps == SeasonInv /\ [Next]_vars => SeasonInv'
<1> SUFFICES ASSUME SeasonInv, [Next]_vars PROVE SeasonInv'
  OBVIOUS
<1>1. ASSUME NEW r \in Registrations, NEW c \in Contexts, Register(r, c) PROVE SeasonInv'
  BY <1>1, RegisterKeeps
<1>2. ASSUME NEW r \in Registrations, RegisterStep(r) PROVE SeasonInv'
  BY <1>2, RegisterBodyKeeps, EnsureKeeps, ReadHasKeeps, RecoverKeeps, CommitChecksKeeps,
     CommitWriteKeeps, RegistrationAppendedKeeps, AppendThrowsKeeps, ReadThrowsKeeps
     DEF RegisterStep
<1>3. ASSUME NEW v \in Members, NEW c \in Contexts, AskChallenge(v, c) \/ AskMembers(v, c)
      PROVE  SeasonInv'
  BY <1>3, AskChallengeKeeps, AskMembersKeeps
<1>4. ASSUME NEW v \in Members, AskVerify(v) \/ MemberStep(v) PROVE SeasonInv'
  <2>1. CASE \E roll \in Rolls : EnsureContext(v, roll[1], roll[2])
    BY <2>1, EnsureContextKeeps DEF Rolls
  <2>2. CASE \/ AskVerify(v) \/ ReadMembers(v) \/ ChallengeBody(v) \/ Mint(v) \/ VerifyBody(v)
             \/ TakeWindow(v) \/ FinishProof(v) \/ FinishSpend(v)
    BY <2>2, AskVerifyKeeps, ReadMembersKeeps, ChallengeBodyKeeps, MintKeeps, VerifyBodyKeeps,
       TakeWindowKeeps, FinishProofKeeps, FinishSpendKeeps
  <2>3. QED
    BY <1>4, <2>1, <2>2 DEF MemberStep, Rolls
<1>5. ASSUME NEW t \in Timers, TimerFires(t) \/ Ensure(t) PROVE SeasonInv'
  BY <1>5, TimerFiresKeeps, EnsureKeeps
<1>6. CASE SetClock
  BY <1>6, ClockMoves DEF SetClock
<1>7. CASE Restart
  BY <1>7, RestartKeeps
<1>8. CASE UNCHANGED vars
  BY <1>8, ClockMoves DEF vars, timeVars, SeasonInv, ClockInv
<1> QED
  BY <1>1, <1>2, <1>3, <1>4, <1>5, <1>6, <1>7, <1>8 DEF Next

LEMMA SeasonInvHolds == Spec => []SeasonInv
  BY InitHolds, NextKeeps, PTL DEF Spec

(* No log outgrows the tree of its circuits (commit(), core/season.js:233),
   for any tree depth and any number of leaves an append stranded. *)
THEOREM LogsStayInCapacity == Spec => []CapacityHolds
<1>1. SeasonInv => CapacityHolds
  BY DEF SeasonInv, LogInv, CapacityHolds
<1> QED
  BY <1>1, SeasonInvHolds, PTL

(* What /v1/register answers (core/verifier.js:439) stays true of the log and
   of the tree served, across rollovers, rebuilds and restarts. *)
THEOREM AnswersStayTrue == Spec => []AnswersHold
<1>1. SeasonInv => AnswersHold
  BY DEF SeasonInv, ToldInv, AnswerHolds, AnswersHold
<1> QED
  BY <1>1, SeasonInvHolds, PTL

(* A grant of /v1/verify in the two-tier flow (stillCurrent(), core/gateway.js:1337)
   goes to a key registered in the season of the grant. *)
THEOREM GrantsAreRegistered == Spec => []GrantNeedsRegistration
<1>1. SeasonInv => GrantNeedsRegistration
  BY DEF SeasonInv, GrantInv
<1> QED
  BY <1>1, SeasonInvHolds, PTL

(* The cached tree lists leaves of the log of the season, in its order, and
   every root it accepts is one this log has had: an append and
   _rebuildTreePreservingRoots() (core/season.js:291, :135) keep no root of
   another season or of leaves the log does not begin with. *)
THEOREM CacheAlwaysFollowsLog == Spec => []CacheFollowsLog
<1>1. SeasonInv => CacheFollowsLog
  <2> SUFFICES ASSUME SeasonInv, NEW c \in Contexts, trees[c] # Unbuilt
               PROVE  /\ IsPrefix(trees[c].tree.commitments, LogOf(c))
                      /\ \A n \in DOMAIN trees[c].roots :
                           /\ trees[c].roots[n].height <= sizeOf(c)
                           /\ RootOfLog(trees[c].roots[n], LogOf(c))
    BY DEF CacheFollowsLog, RootOfLog
  <2> DEFINE s == trees[c].tree.commitments
             t == LogOf(c)
  <2>1. FitsLog(trees[c], t) /\ sizeOf(c) = size(trees[c].tree) /\ t \in Seq(Leaf)
    BY LogIsThere DEF SeasonInv, CacheInv, sizeOf, treeOf
  <2>2. s \in Seq(Leaf) /\ Begins(s, t) /\ Len(s) \in Nat
    BY <2>1, LenProperties DEF FitsLog
  <2> HIDE DEF s, t
  <2>3. SubSeq(t, 1, Len(s)) = SubSeq(s, 1, Len(s))
    BY <2>1, <2>2, PrefixStays
  <2>4. IsPrefix(s, t)
    BY <2>2, <2>3 DEF IsPrefix, Begins
  <2>5. DOMAIN trees[c].roots = 1..Len(trees[c].roots) /\ size(trees[c].tree) \in Nat
    BY <2>1, <2>2, LenProperties DEF FitsLog, WindowHolds, size, s
  <2>6. QED
    BY <2>1, <2>4, <2>5 DEF FitsLog, WindowHolds, s, t
<1> QED
  BY <1>1, SeasonInvHolds, PTL

(* Whatever mixture of fromCommitments() and append() (core/members_tree.js)
   made a cached tree of any depth, the path of each of its leaves leads to
   the root the gateway holds. *)
THEOREM MembersAlwaysProve == Spec => []MembersCanProve
<1>1. SeasonInv => MembersCanProve
  <2> SUFFICES ASSUME SeasonInv, NEW c \in Contexts, trees[c] # Unbuilt
               PROVE  EveryPathLeadsToRoot(trees[c].tree)
    BY DEF MembersCanProve
  <2> DEFINE t == trees[c].tree
             s == t.commitments
  <2>1. s \in Seq(Leaf) /\ TreeHolds(t)
    BY DEF SeasonInv, CacheInv, FitsLog
  <2>2. /\ Len(s) \in Nat /\ DOMAIN s = 1..Len(s)
        /\ Len(s) <= capacity /\ t.root = rootFromFullBuild(s)
    BY <2>1, LenProperties DEF TreeHolds
  <2> HIDE DEF s
  <2>3. \A i \in 1..Len(s) : RootOfPath(s[i], pathFor(s, i - 1)) = rootFromFullBuild(s)
    BY <2>2, PathsLeadToRoot, DepthAssumption
  <2>4. QED
    BY <2>2, <2>3 DEF EveryPathLeadsToRoot, s
<1> QED
  BY <1>1, SeasonInvHolds, PTL

(* A record lands in the season of the cache only: no roll runs between the
   season check of a commit and its write (core/season.js:239-261). *)
THEOREM LandsInSeason == Spec => LandsInItsSeason
<1>1. ASSUME SeasonInv, [Next]_vars
      PROVE  \A b \in DOMAIN leaves : leaves'[b] # leaves[b] => b[1] = current
  <2>1. ASSUME NEW r \in Registrations, pc[r] = "append", leaves' \in {leaves, Logged(r)}
        PROVE  \A b \in DOMAIN leaves : leaves'[b] # leaves[b] => b[1] = current
    <3>1. RegisterInv(r) /\ DOMAIN leaves = Buckets
      BY <1>1, KindsOfHandler, StepKinds DEF LogInv
    <3>2. Bucket(r)[1] = current
      BY <2>1, <3>1 DEF RegisterInv, Writing, Bucket
    <3>3. QED
      BY <1>1, <2>1, <3>1, <3>2, LoggedGrows
  <2>2. \/ leaves' = leaves
        \/ \E r \in Registrations : pc[r] = "append" /\ leaves' \in {leaves, Logged(r)}
    <3>1. CASE \E r \in Registrations, c \in Contexts : Register(r, c)
      BY <3>1 DEF Register, Dispatch
    <3>2. ASSUME NEW r \in Registrations, RegistrationAppended(r) \/ AppendThrows(r)
          PROVE  pc[r] = "append" /\ leaves' \in {leaves, Logged(r)}
      BY <3>2 DEF RegistrationAppended, AppendThrows, Running
    <3>3. ASSUME NEW r \in Registrations,
                 \/ RegisterBody(r) \/ Ensure(r) \/ ReadHas(r) \/ CheckProof(r)
                 \/ ReadHasAgain(r) \/ Recover(r) \/ CommitChecks(r) \/ CommitWrite(r)
                 \/ ReadThrows(r)
          PROVE  leaves' = leaves
      BY <3>3 DEF RegisterBody, Ensure, ReadHas, CheckProof, ReadHasAgain, Recover, CommitChecks,
                  CommitWrite, ReadThrows
    <3>4. ASSUME NEW v \in Members, NEW c \in Contexts, AskChallenge(v, c) \/ AskMembers(v, c)
          PROVE  leaves' = leaves
      BY <3>4 DEF AskChallenge, AskMembers, Dispatch
    <3>5. ASSUME NEW v \in Members, AskVerify(v) \/ MemberStep(v)
          PROVE  leaves' = leaves
      BY <3>5 DEF AskVerify, Dispatch, MemberStep, EnsureContext, ReadMembers, ChallengeBody, Mint,
                  VerifyBody, TakeWindow, FinishProof, FinishSpend
    <3>6. ASSUME NEW t \in Timers, TimerFires(t) \/ Ensure(t) PROVE leaves' = leaves
      BY <3>6 DEF TimerFires, Ensure
    <3>7. CASE SetClock \/ UNCHANGED vars
      BY <3>7 DEF SetClock, vars
    <3>8. CASE Restart
      BY <3>8 DEF Restart
    <3>9. QED
      BY <1>1, <3>1, <3>2, <3>3, <3>4, <3>5, <3>6, <3>7, <3>8 DEF Next, RegisterStep
  <2>3. QED
    BY <2>1, <2>2
<1>2. SeasonInv /\ [Next]_vars =>
        [\A b \in DOMAIN leaves : leaves'[b] # leaves[b] => b[1] = current]_vars
  BY <1>1
<1> QED
  BY <1>2, SeasonInvHolds, PTL DEF Spec, LandsInItsSeason
==============================================================================
