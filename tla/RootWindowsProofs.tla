-------------------------- MODULE RootWindowsProofs --------------------------
(***************************************************************************)
(* The safety properties of the root window, for every set of snapshots,   *)
(* window, bound and age.                                                  *)
(***************************************************************************)
EXTENDS RootWindows, FiniteSetTheorems, WellFoundedInduction, TLAPS

------------------------------------------------------------------------------
(* Part 1: naturals, and what a filter keeps. *)

(* A set of naturals has a least element. *)
LEMMA NatMin ==
  ASSUME NEW S \in SUBSET Nat, S # {}
  PROVE  \E m \in S : \A n \in S : m <= n
<1> DEFINE R == {ss \in Nat \X Nat : ss[1] < ss[2]}
<1>1. IsWellFoundedOn(R, Nat)
  BY NatLessThanWellFounded DEF OpToRel
<1>2. PICK m \in S : \A n \in S : <<n, m>> \notin R
  BY <1>1, WFMin
<1>3. ASSUME NEW n \in S PROVE m <= n
  <2>1. ~(n < m)
    BY <1>2, <1>3
  <2>2. QED
    BY <2>1
<1>4. QED
  BY <1>3

(* What is true of 0 and of every successor is true up to N. *)
LEMMA UpTo ==
  ASSUME NEW N \in Nat, NEW S, 0 \in S,
         \A n \in 0 .. N : n \in S /\ n < N => n + 1 \in S
  PROVE  \A n \in 0 .. N : n \in S
<1> DEFINE T == {n \in 0 .. N : n \notin S}
<1>1. SUFFICES ASSUME T # {} PROVE FALSE
  OBVIOUS
<1>2. PICK x \in T : \A y \in T : x <= y
  <2>1. T \in SUBSET Nat
    OBVIOUS
  <2>2. QED
    BY <1>1, <2>1, NatMin
<1>3. x \in 0 .. N /\ x \notin S /\ x # 0
  OBVIOUS
<1>4. x - 1 \in 0 .. N /\ x - 1 < N /\ (x - 1) + 1 = x
  BY <1>3
<1>5. x - 1 \notin T
  BY <1>2, <1>3
<1>6. QED
  BY <1>3, <1>4, <1>5

(* The equation of KeptUpTo, over the first m elements. *)
IsKept(k, ss, I, m) ==
  k = [n \in 0 .. m |->
         IF n = 0 THEN <<>>
         ELSE IF n \in I THEN Append(k[n - 1], ss[n]) ELSE k[n - 1]]

LEMMA KeptExists ==
  ASSUME NEW ss, Len(ss) \in Nat, NEW I
  PROVE  \E k : IsKept(k, ss, I, Len(ss))
<1> DEFINE S == {m \in 0 .. Len(ss) : \E k : IsKept(k, ss, I, m)}
<1>1. 0 \in S
  <2> DEFINE z == [n \in 0 .. 0 |-> <<>>]
  <2>1. IsKept(z, ss, I, 0)
    BY DEF IsKept
  <2>2. QED
    BY <2>1
<1>2. ASSUME NEW m \in 0 .. Len(ss), m \in S, m < Len(ss)
      PROVE  m + 1 \in S
  <2>1. PICK k : IsKept(k, ss, I, m)
    BY <1>2
  <2> DEFINE e == IF m + 1 \in I THEN Append(k[m], ss[m + 1]) ELSE k[m]
             z == [n \in 0 .. m + 1 |-> IF n = m + 1 THEN e ELSE k[n]]
             f(n) == IF n = 0 THEN <<>>
                     ELSE IF n \in I THEN Append(z[n - 1], ss[n]) ELSE z[n - 1]
  <2>2. ASSUME NEW n \in 0 .. m + 1 PROVE z[n] = f(n)
    <3>1. CASE n = m + 1
      <4>1. z[n] = e /\ n # 0 /\ n - 1 = m /\ z[n - 1] = k[m]
        BY <3>1
      <4>2. QED
        BY <3>1, <4>1
    <3>2. CASE n # m + 1
      <4>1. n \in 0 .. m /\ z[n] = k[n]
        BY <3>2
      <4>2. n # 0 => z[n - 1] = k[n - 1]
        BY <4>1
      <4>3. k[n] = IF n = 0 THEN <<>>
                   ELSE IF n \in I THEN Append(k[n - 1], ss[n]) ELSE k[n - 1]
        BY <2>1, <4>1 DEF IsKept
      <4>4. QED
        BY <4>1, <4>2, <4>3
    <3>3. QED
      BY <3>1, <3>2
  <2>3. z = [n \in 0 .. m + 1 |-> f(n)]
    <3> DEFINE g == [n \in 0 .. m + 1 |-> f(n)]
    <3>1. DOMAIN z = 0 .. m + 1 /\ DOMAIN g = 0 .. m + 1
      OBVIOUS
    <3>2. \A n \in 0 .. m + 1 : g[n] = f(n)
      OBVIOUS
    <3> HIDE DEF f, e
    <3>3. \A n \in 0 .. m + 1 : z[n] = g[n]
      BY <2>2, <3>2
    <3>4. QED
      BY <3>1, <3>3
  <2> HIDE DEF e
  <2>4. IsKept(z, ss, I, m + 1)
    BY <2>3 DEF IsKept
  <2>5. QED
    BY <1>2, <2>4
<1>3. Len(ss) \in S
  <2> HIDE DEF S
  <2>1. Len(ss) \in 0 .. Len(ss)
    OBVIOUS
  <2>2. QED
    BY <1>1, <1>2, <2>1, UpTo
<1>4. QED
  BY <1>3

LEMMA KeptEquation ==
  ASSUME NEW ss, Len(ss) \in Nat, NEW I
  PROVE  IsKept(KeptUpTo(ss, I), ss, I, Len(ss))
<1>1. \E k : IsKept(k, ss, I, Len(ss))
  BY KeptExists
<1>2. QED
  BY <1>1, Zenon DEF KeptUpTo, IsKept

(* What is kept of the first n elements: places that pass, all of them, and the
   last of them last. *)
FilterFacts(k, ss, I, n, R) ==
  /\ k \in Seq(R)
  /\ \A j \in 1 .. Len(k) : \E i \in I : i \in 1 .. n /\ ss[i] = k[j]
  /\ \A i \in 1 .. n : i \in I => \E j \in 1 .. Len(k) : k[j] = ss[i]
  /\ n # 0 /\ n \in I => Len(k) # 0 /\ k[Len(k)] = ss[n]

LEMMA FilterEmpty ==
  ASSUME NEW ss, NEW I, NEW R
  PROVE  FilterFacts(<<>>, ss, I, 0, R)
BY DEF FilterFacts

LEMMA FilterTakes ==
  ASSUME NEW R, NEW ss \in Seq(R), NEW I, NEW n \in 1 .. Len(ss), n \in I,
         NEW k, FilterFacts(k, ss, I, n - 1, R)
  PROVE  FilterFacts(Append(k, ss[n]), ss, I, n, R)
<1> DEFINE z == Append(k, ss[n])
<1>1. k \in Seq(R) /\ ss[n] \in R
  BY DEF FilterFacts
<1>2. /\ z \in Seq(R) /\ Len(z) = Len(k) + 1 /\ Len(k) \in Nat
      /\ z[Len(z)] = ss[n] /\ \A j \in 1 .. Len(k) : z[j] = k[j]
  BY <1>1
<1> HIDE DEF z
<1>3. ASSUME NEW j \in 1 .. Len(z)
      PROVE  \E i \in I : i \in 1 .. n /\ ss[i] = z[j]
  <2>1. CASE j = Len(z)
    BY <1>2, <2>1
  <2>2. CASE j # Len(z)
    <3>1. j \in 1 .. Len(k) /\ z[j] = k[j]
      BY <1>2, <2>2
    <3>2. PICK i \in I : i \in 1 .. (n - 1) /\ ss[i] = k[j]
      BY <3>1 DEF FilterFacts
    <3>3. i \in 1 .. n
      BY <3>2
    <3>4. QED
      BY <3>1, <3>2, <3>3
  <2>3. QED
    BY <2>1, <2>2
<1>4. ASSUME NEW i \in 1 .. n, i \in I
      PROVE  \E j \in 1 .. Len(z) : z[j] = ss[i]
  <2>1. CASE i = n
    <3>1. Len(z) \in 1 .. Len(z)
      BY <1>2
    <3>2. QED
      BY <1>2, <2>1, <3>1
  <2>2. CASE i # n
    <3>1. i \in 1 .. (n - 1)
      BY <2>2
    <3>2. PICK j \in 1 .. Len(k) : k[j] = ss[i]
      BY <1>4, <3>1 DEF FilterFacts
    <3>3. j \in 1 .. Len(z) /\ z[j] = k[j]
      BY <1>2, <3>2
    <3>4. QED
      BY <3>2, <3>3
  <2>3. QED
    BY <2>1, <2>2
<1>5. FilterFacts(z, ss, I, n, R)
  BY <1>2, <1>3, <1>4 DEF FilterFacts
<1>6. QED
  BY <1>5 DEF z

LEMMA FilterSkips ==
  ASSUME NEW R, NEW ss \in Seq(R), NEW I, NEW n \in 1 .. Len(ss), n \notin I,
         NEW k, FilterFacts(k, ss, I, n - 1, R)
  PROVE  FilterFacts(k, ss, I, n, R)
<1>1. k \in Seq(R)
  BY DEF FilterFacts
<1>2. ASSUME NEW j \in 1 .. Len(k)
      PROVE  \E i \in I : i \in 1 .. n /\ ss[i] = k[j]
  <2>1. PICK i \in I : i \in 1 .. (n - 1) /\ ss[i] = k[j]
    BY DEF FilterFacts
  <2>2. i \in 1 .. n
    BY <2>1
  <2>3. QED
    BY <2>1, <2>2
<1>3. ASSUME NEW i \in 1 .. n, i \in I
      PROVE  \E j \in 1 .. Len(k) : k[j] = ss[i]
  <2>1. i \in 1 .. (n - 1)
    BY <1>3
  <2>2. QED
    BY <1>3, <2>1 DEF FilterFacts
<1>4. QED
  BY <1>1, <1>2, <1>3 DEF FilterFacts

(* Kept: a sequence of the elements at the places that pass, which ends with the
   last element if that one passes. *)
LEMMA KeptFacts ==
  ASSUME NEW R, NEW ss \in Seq(R), NEW I
  PROVE  FilterFacts(Kept(ss, I), ss, I, Len(ss), R)
<1> DEFINE K == KeptUpTo(ss, I)
           S == {n \in 0 .. Len(ss) : FilterFacts(K[n], ss, I, n, R)}
<1>1. Len(ss) \in Nat
  OBVIOUS
<1>2. IsKept(K, ss, I, Len(ss))
  BY <1>1, KeptEquation
<1> HIDE DEF K
<1>3. /\ K[0] = <<>>
      /\ \A n \in 1 .. Len(ss) :
           K[n] = IF n \in I THEN Append(K[n - 1], ss[n]) ELSE K[n - 1]
  <2> DEFINE f(n) == IF n = 0 THEN <<>>
                     ELSE IF n \in I THEN Append(K[n - 1], ss[n]) ELSE K[n - 1]
  <2>1. K = [n \in 0 .. Len(ss) |-> f(n)]
    BY <1>2 DEF IsKept
  <2>2. \A n \in 0 .. Len(ss) : K[n] = f(n)
    <3> HIDE DEF f
    <3>1. QED
      BY <2>1, Zenon
  <2>3. 0 \in 0 .. Len(ss) /\ \A n \in 1 .. Len(ss) : n \in 0 .. Len(ss) /\ n # 0
    BY <1>1
  <2>4. K[0] = f(0) /\ \A n \in 1 .. Len(ss) : K[n] = f(n) /\ n # 0
    BY <2>2, <2>3
  <2>5. QED
    BY <2>4
<1>4. 0 \in S
  BY <1>1, <1>3, FilterEmpty
<1>5. ASSUME NEW n \in 0 .. Len(ss), n \in S, n < Len(ss)
      PROVE  n + 1 \in S
  <2>1. /\ n + 1 \in 1 .. Len(ss) /\ (n + 1) - 1 = n
        /\ FilterFacts(K[n], ss, I, n, R)
    BY <1>1, <1>5
  <2>2. K[n + 1] = IF n + 1 \in I THEN Append(K[n], ss[n + 1]) ELSE K[n]
    BY <1>3, <2>1
  <2>3. FilterFacts(K[n + 1], ss, I, n + 1, R)
    <3>1. CASE n + 1 \in I
      BY <2>1, <2>2, <3>1, FilterTakes
    <3>2. CASE n + 1 \notin I
      BY <2>1, <2>2, <3>2, FilterSkips
    <3>3. QED
      BY <3>1, <3>2
  <2>4. QED
    BY <1>1, <2>1, <2>3
<1>6. Len(ss) \in S
  <2> HIDE DEF S
  <2>1. Len(ss) \in 0 .. Len(ss)
    BY <1>1
  <2>2. QED
    BY <1>1, <1>4, <1>5, <2>1, UpTo
<1>7. QED
  BY <1>6 DEF Kept, K

(* The same, for a set of places of the sequence. *)
LEMMA KeptPlaces ==
  ASSUME NEW R, NEW ss \in Seq(R), NEW I \in SUBSET DOMAIN ss
  PROVE  /\ Kept(ss, I) \in Seq(R)
         /\ \A j \in DOMAIN Kept(ss, I) : \E i \in I : Kept(ss, I)[j] = ss[i]
         /\ \A i \in I : \E j \in DOMAIN Kept(ss, I) : Kept(ss, I)[j] = ss[i]
         /\ Len(ss) \in I => /\ Len(Kept(ss, I)) # 0
                             /\ Kept(ss, I)[Len(Kept(ss, I))] = ss[Len(ss)]
<1> DEFINE k == Kept(ss, I)
<1>1. FilterFacts(k, ss, I, Len(ss), R)
  BY KeptFacts
<1> HIDE DEF k
<1>2. /\ k \in Seq(R) /\ DOMAIN k = 1 .. Len(k)
      /\ DOMAIN ss = 1 .. Len(ss) /\ Len(ss) \in Nat
  BY <1>1 DEF FilterFacts
<1>3. \A i \in I : \E j \in DOMAIN k : k[j] = ss[i]
  BY <1>1, <1>2 DEF FilterFacts
<1>4. \A j \in DOMAIN k : \E i \in I : k[j] = ss[i]
  BY <1>1, <1>2 DEF FilterFacts
<1>5. Len(ss) \in I => Len(k) # 0 /\ k[Len(k)] = ss[Len(ss)]
  BY <1>1, <1>2 DEF FilterFacts
<1>6. QED
  BY <1>2, <1>3, <1>4, <1>5 DEF k

(* Nothing is kept when nothing passes. *)
LEMMA KeptNothing ==
  ASSUME NEW R, NEW ss \in Seq(R)
  PROVE  Kept(ss, {}) = <<>>
<1> DEFINE k == Kept(ss, {})
<1>1. k \in Seq(R) /\ \A j \in DOMAIN k : FALSE
  BY KeptPlaces
<1> HIDE DEF k
<1>2. DOMAIN k = 1 .. Len(k) /\ Len(k) \in Nat
  BY <1>1
<1>3. Len(k) = 0
  <2>1. Len(k) # 0 => 1 \in DOMAIN k
    BY <1>2
  <2>2. QED
    BY <1>1, <2>1
<1>4. k = <<>>
  BY <1>1, <1>3
<1>5. QED
  BY <1>4 DEF k

------------------------------------------------------------------------------
(* Part 2: the leaves that are left. *)

IsTotal(t, ss, hs, m) ==
  t = [n \in 0 .. m |->
         IF n = 0 THEN 0
         ELSE t[n - 1] + (IF ss[n].height \in hs THEN 0 ELSE Leaves[ss[n].set])]

LEMMA TotalExists ==
  ASSUME NEW ss, Len(ss) \in Nat, NEW hs
  PROVE  \E t : IsTotal(t, ss, hs, Len(ss))
<1> DEFINE w(n) == IF ss[n].height \in hs THEN 0 ELSE Leaves[ss[n].set]
           S == {m \in 0 .. Len(ss) : \E t : IsTotal(t, ss, hs, m)}
<1>0. \A t, m : IsTotal(t, ss, hs, m)
                  <=> t = [n \in 0 .. m |-> IF n = 0 THEN 0 ELSE t[n - 1] + w(n)]
  BY DEF IsTotal
<1> HIDE DEF w
<1>1. 0 \in S
  <2> DEFINE z == [n \in 0 .. 0 |-> 0]
  <2>1. z = [n \in 0 .. 0 |-> IF n = 0 THEN 0 ELSE z[n - 1] + w(n)]
    OBVIOUS
  <2> HIDE DEF z
  <2>2. IsTotal(z, ss, hs, 0)
    BY <1>0, <2>1
  <2>3. QED
    BY <2>2
<1>2. ASSUME NEW m \in 0 .. Len(ss), m \in S, m < Len(ss)
      PROVE  m + 1 \in S
  <2>1. PICK t : t = [n \in 0 .. m |-> IF n = 0 THEN 0 ELSE t[n - 1] + w(n)]
    BY <1>0, <1>2
  <2> DEFINE e == t[m] + w(m + 1)
             z == [n \in 0 .. m + 1 |-> IF n = m + 1 THEN e ELSE t[n]]
             f(n) == IF n = 0 THEN 0 ELSE z[n - 1] + w(n)
  <2>2. ASSUME NEW n \in 0 .. m + 1 PROVE z[n] = f(n)
    <3>1. CASE n = m + 1
      <4>1. z[n] = e /\ n # 0 /\ n - 1 = m /\ z[n - 1] = t[m]
        BY <3>1
      <4>2. QED
        BY <3>1, <4>1
    <3>2. CASE n # m + 1
      <4>1. n \in 0 .. m /\ z[n] = t[n]
        BY <3>2
      <4>2. n # 0 => z[n - 1] = t[n - 1]
        BY <4>1
      <4>3. t[n] = IF n = 0 THEN 0 ELSE t[n - 1] + w(n)
        BY <2>1, <4>1
      <4>4. QED
        BY <4>1, <4>2, <4>3
    <3>3. QED
      BY <3>1, <3>2
  <2>3. z = [n \in 0 .. m + 1 |-> f(n)]
    <3> DEFINE g == [n \in 0 .. m + 1 |-> f(n)]
    <3>1. DOMAIN z = 0 .. m + 1 /\ DOMAIN g = 0 .. m + 1
      OBVIOUS
    <3>2. \A n \in 0 .. m + 1 : g[n] = f(n)
      OBVIOUS
    <3> HIDE DEF f, e
    <3>3. \A n \in 0 .. m + 1 : z[n] = g[n]
      BY <2>2, <3>2
    <3>4. QED
      BY <3>1, <3>3
  <2> HIDE DEF z
  <2>4. IsTotal(z, ss, hs, m + 1)
    BY <1>0, <2>3
  <2>5. QED
    BY <1>2, <2>4
<1>3. Len(ss) \in S
  <2> HIDE DEF S
  <2>1. Len(ss) \in 0 .. Len(ss)
    OBVIOUS
  <2>2. QED
    BY <1>1, <1>2, <2>1, UpTo
<1>4. QED
  BY <1>3

(* The totals, place by place. *)
LEMMA TotalEquation ==
  ASSUME NEW ss, Len(ss) \in Nat, NEW hs
  PROVE  LET T == LeavesUpTo(ss, hs)
         IN  /\ T[0] = 0
             /\ \A n \in 1 .. Len(ss) :
                  T[n] = T[n - 1]
                           + (IF ss[n].height \in hs THEN 0 ELSE Leaves[ss[n].set])
<1> DEFINE T == LeavesUpTo(ss, hs)
           w(n) == IF ss[n].height \in hs THEN 0 ELSE Leaves[ss[n].set]
           f(n) == IF n = 0 THEN 0 ELSE T[n - 1] + w(n)
<1>1. \E t : IsTotal(t, ss, hs, Len(ss))
  BY TotalExists
<1>2. IsTotal(T, ss, hs, Len(ss))
  BY <1>1, Zenon DEF LeavesUpTo, IsTotal
<1> HIDE DEF T
<1>3. T = [n \in 0 .. Len(ss) |-> f(n)]
  BY <1>2 DEF IsTotal
<1>4. \A n \in 0 .. Len(ss) : T[n] = f(n)
  <2> HIDE DEF f
  <2>1. QED
    BY <1>3, Zenon
<1>5. 0 \in 0 .. Len(ss) /\ \A n \in 1 .. Len(ss) : n \in 0 .. Len(ss) /\ n # 0
  OBVIOUS
<1>6. T[0] = 0 /\ \A n \in 1 .. Len(ss) : T[n] = T[n - 1] + w(n)
  <2> HIDE DEF w
  <2>1. QED
    BY <1>4, <1>5
<1>7. QED
  BY <1>6 DEF T

(* Who gives up more heights retains no more leaves. *)
LEMMA LeavesMonotone ==
  ASSUME WindowAssumption, NEW ss, Len(ss) \in Nat,
         \A n \in 1 .. Len(ss) : ss[n].set \in Sets,
         NEW hs, NEW gs, hs \subseteq gs
  PROVE  /\ retainedLeaves(ss, hs) \in Nat /\ retainedLeaves(ss, gs) \in Nat
         /\ retainedLeaves(ss, gs) <= retainedLeaves(ss, hs)
<1> DEFINE T == LeavesUpTo(ss, hs)
           U == LeavesUpTo(ss, gs)
           w(n, ks) == IF ss[n].height \in ks THEN 0 ELSE Leaves[ss[n].set]
           S == {n \in 0 .. Len(ss) : T[n] \in Nat /\ U[n] \in Nat /\ U[n] <= T[n]}
<1>1. /\ T[0] = 0 /\ U[0] = 0
      /\ \A n \in 1 .. Len(ss) : T[n] = T[n - 1] + w(n, hs)
      /\ \A n \in 1 .. Len(ss) : U[n] = U[n - 1] + w(n, gs)
  BY TotalEquation
<1>2. \A n \in 1 .. Len(ss) :
        w(n, hs) \in Nat /\ w(n, gs) \in Nat /\ w(n, gs) <= w(n, hs)
  BY DEF WindowAssumption
<1> HIDE DEF T, U, w
<1>3. 0 \in S
  BY <1>1
<1>4. ASSUME NEW n \in 0 .. Len(ss), n \in S, n < Len(ss)
      PROVE  n + 1 \in S
  <2>1. n + 1 \in 1 .. Len(ss) /\ n + 1 \in 0 .. Len(ss) /\ (n + 1) - 1 = n
    BY <1>4
  <2>2. T[n + 1] = T[n] + w(n + 1, hs) /\ U[n + 1] = U[n] + w(n + 1, gs)
    BY <1>1, <2>1
  <2>3. w(n + 1, hs) \in Nat /\ w(n + 1, gs) \in Nat /\ w(n + 1, gs) <= w(n + 1, hs)
    BY <1>2, <2>1
  <2>4. T[n] \in Nat /\ U[n] \in Nat /\ U[n] <= T[n]
    BY <1>4
  <2>5. T[n + 1] \in Nat /\ U[n + 1] \in Nat /\ U[n + 1] <= T[n + 1]
    BY <2>2, <2>3, <2>4
  <2>6. QED
    BY <2>1, <2>5
<1>5. Len(ss) \in S
  <2> HIDE DEF S
  <2>1. Len(ss) \in 0 .. Len(ss)
    OBVIOUS
  <2>2. QED
    BY <1>3, <1>4, <2>1, UpTo
<1>6. QED
  BY <1>5 DEF retainedLeaves, T, U

------------------------------------------------------------------------------
(* Part 3: what adopt() and dropOlderThan() keep of a window. *)

Records == [height : Nat, order : Orders, set : Sets, block : Blocks \cup {None},
            age : Ages]

IsFresh(r) == OracleMaxAge = 0 \/ r.age <= OracleMaxAge

(* Window t is window ss without the heights hs. *)
Trims(t, ss, hs) ==
  /\ t \in Seq(Records)
  /\ \A j \in DOMAIN t :
       t[j].height \notin hs /\ \E i \in DOMAIN ss : t[j] = ss[i]
  /\ \A i \in DOMAIN ss :
       ss[i].height \notin hs => \E j \in DOMAIN t : t[j] = ss[i]
  /\ Len(ss) # 0 /\ ss[Len(ss)].height \notin hs
       => Len(t) # 0 /\ t[Len(t)] = ss[Len(ss)]

LEMMA WithoutTrims ==
  ASSUME NEW ss \in Seq(Records), NEW hs
  PROVE  Trims(Without(ss, hs), ss, hs)
<1> DEFINE I == {i \in DOMAIN ss : ss[i].height \notin hs}
           t == Without(ss, hs)
<1>1. t = Kept(ss, I) /\ I \in SUBSET DOMAIN ss
  BY DEF Without
<1> HIDE DEF t
<1>2. /\ t \in Seq(Records)
      /\ \A j \in DOMAIN t : \E i \in I : t[j] = ss[i]
      /\ \A i \in I : \E j \in DOMAIN t : t[j] = ss[i]
      /\ Len(ss) \in I => Len(t) # 0 /\ t[Len(t)] = ss[Len(ss)]
  <2> HIDE DEF I
  <2>1. QED
    BY <1>1, KeptPlaces
<1>3. Len(ss) # 0 => Len(ss) \in DOMAIN ss
  OBVIOUS
<1>4. Trims(t, ss, hs)
  BY <1>2, <1>3 DEF Trims
<1>5. QED
  BY <1>4 DEF t

LEMMA NothingTrims ==
  ASSUME NEW ss \in Seq(Records)
  PROVE  Trims(ss, ss, {})
BY DEF Trims

(* The heights the window of heights and the leaf bound give up. *)
Old(ss) == {h \in HeightsOf(ss) :
              Cardinality({k \in HeightsOf(ss) : k > h}) >= RootWindow}

Before(ss, h) == {k \in Evictable(ss) : EvictedBefore(k, h, PinnedHeights(ss))}

Excess(ss) == IF MaxLeaves = 0 \/ retainedLeaves(ss, {}) <= MaxLeaves THEN {}
              ELSE {h \in Evictable(ss) : retainedLeaves(ss, Before(ss, h)) > MaxLeaves}

LEMMA WindowedTrims ==
  ASSUME NEW ss \in Seq(Records)
  PROVE  Trims(Windowed(ss), ss, Old(ss))
BY WithoutTrims DEF Windowed, Old

LEMMA LeafBoundedTrims ==
  ASSUME NEW ss \in Seq(Records)
  PROVE  Trims(LeafBounded(ss), ss, Excess(ss))
<1>1. CASE MaxLeaves = 0 \/ retainedLeaves(ss, {}) <= MaxLeaves
  BY <1>1, NothingTrims DEF LeafBounded, Excess
<1>2. CASE ~(MaxLeaves = 0 \/ retainedLeaves(ss, {}) <= MaxLeaves)
  BY <1>2, WithoutTrims DEF LeafBounded, Excess, Before
<1>3. QED
  BY <1>1, <1>2

LEMMA FreshKeeps ==
  ASSUME NEW ss \in Seq(Records)
  PROVE  /\ Fresh(ss) \in Seq(Records)
         /\ \A j \in DOMAIN Fresh(ss) : \E i \in DOMAIN ss : Fresh(ss)[j] = ss[i]
         /\ \A i \in DOMAIN ss :
              IsFresh(ss[i]) => \E j \in DOMAIN Fresh(ss) : Fresh(ss)[j] = ss[i]
         /\ Len(ss) # 0 /\ IsFresh(ss[Len(ss)])
              => Len(Fresh(ss)) # 0 /\ Fresh(ss)[Len(Fresh(ss))] = ss[Len(ss)]
<1>1. CASE OracleMaxAge = 0
  BY <1>1 DEF Fresh
<1>2. CASE OracleMaxAge # 0
  <2> DEFINE I == {i \in DOMAIN ss : ss[i].age <= OracleMaxAge}
             t == Fresh(ss)
  <2>1. t = Kept(ss, I) /\ I \in SUBSET DOMAIN ss
    BY <1>2 DEF Fresh
  <2> HIDE DEF t
  <2>2. /\ t \in Seq(Records)
        /\ \A j \in DOMAIN t : \E i \in I : t[j] = ss[i]
        /\ \A i \in I : \E j \in DOMAIN t : t[j] = ss[i]
        /\ Len(ss) \in I => Len(t) # 0 /\ t[Len(t)] = ss[Len(ss)]
    <3> HIDE DEF I
    <3>1. QED
      BY <2>1, KeptPlaces
  <2>3. Len(ss) # 0 => Len(ss) \in DOMAIN ss
    OBVIOUS
  <2>4. \A i \in DOMAIN ss : IsFresh(ss[i]) => i \in I
    BY <1>2 DEF IsFresh
  <2>5. I \subseteq DOMAIN ss
    OBVIOUS
  <2> HIDE DEF I
  <2>6. /\ \A j \in DOMAIN t : \E i \in DOMAIN ss : t[j] = ss[i]
        /\ \A i \in DOMAIN ss : IsFresh(ss[i]) => \E j \in DOMAIN t : t[j] = ss[i]
        /\ Len(ss) # 0 /\ IsFresh(ss[Len(ss)])
             => Len(t) # 0 /\ t[Len(t)] = ss[Len(ss)]
    BY <2>2, <2>3, <2>4, <2>5
  <2>7. QED
    BY <2>2, <2>6 DEF t
<1>3. QED
  BY <1>1, <1>2

(* Two filters around a record. *)
IsAround(t, a, r, b, R) ==
  /\ t \in Seq(R)
  /\ \A j \in DOMAIN t :
       \/ t[j] = r
       \/ \E i \in DOMAIN a : t[j] = a[i]
       \/ \E i \in DOMAIN b : t[j] = b[i]
  /\ \A i \in DOMAIN a : \E j \in DOMAIN t : t[j] = a[i]
  /\ \A i \in DOMAIN b : \E j \in DOMAIN t : t[j] = b[i]
  /\ \E j \in DOMAIN t : t[j] = r
  /\ b = <<>> => Len(t) # 0 /\ t[Len(t)] = r

LEMMA AroundFacts ==
  ASSUME NEW R, NEW a \in Seq(R), NEW r \in R, NEW b \in Seq(R),
         NEW t, t = a \o <<r>> \o b
  PROVE  IsAround(t, a, r, b, R)
<1> DEFINE n == Len(a)
           c == a \o <<r>>
<1>1. n \in Nat /\ Len(b) \in Nat /\ DOMAIN a = 1 .. n /\ DOMAIN b = 1 .. Len(b)
  OBVIOUS
<1>2. /\ c \in Seq(R) /\ Len(c) = n + 1 /\ c[n + 1] = r
      /\ \A i \in 1 .. n : c[i] = a[i]
  OBVIOUS
<1>0. t = c \o b
  OBVIOUS
<1> HIDE DEF c
<1>3. /\ t \in Seq(R) /\ Len(t) = n + 1 + Len(b) /\ DOMAIN t = 1 .. Len(t)
      /\ \A i \in 1 .. n + 1 : t[i] = c[i]
      /\ \A i \in 1 .. Len(b) : t[n + 1 + i] = b[i]
  BY <1>0, <1>1, <1>2
<1> HIDE DEF n
<1>4. ASSUME NEW j \in DOMAIN t
      PROVE  \/ t[j] = r
             \/ \E i \in DOMAIN a : t[j] = a[i]
             \/ \E i \in DOMAIN b : t[j] = b[i]
  <2>1. CASE j <= n
    <3>1. j \in 1 .. n /\ j \in 1 .. n + 1
      BY <1>1, <1>3, <1>4, <2>1
    <3>2. QED
      BY <1>1, <1>2, <1>3, <3>1
  <2>2. CASE j = n + 1
    <3>1. j \in 1 .. n + 1
      BY <1>1, <2>2
    <3>2. QED
      BY <1>2, <1>3, <2>2, <3>1
  <2>3. CASE j > n + 1
    <3>1. j - (n + 1) \in 1 .. Len(b) /\ n + 1 + (j - (n + 1)) = j
      BY <1>1, <1>3, <1>4, <2>3
    <3>2. t[j] = b[j - (n + 1)]
      BY <1>3, <3>1
    <3>3. QED
      BY <1>1, <3>1, <3>2
  <2>4. QED
    BY <1>1, <1>3, <1>4, <2>1, <2>2, <2>3
<1>5. ASSUME NEW i \in DOMAIN a PROVE \E j \in DOMAIN t : t[j] = a[i]
  <2>1. i \in 1 .. n /\ i \in 1 .. n + 1 /\ i \in DOMAIN t
    BY <1>1, <1>3, <1>5
  <2>2. QED
    BY <1>2, <1>3, <2>1
<1>6. ASSUME NEW i \in DOMAIN b PROVE \E j \in DOMAIN t : t[j] = b[i]
  <2>1. i \in 1 .. Len(b) /\ n + 1 + i \in DOMAIN t
    BY <1>1, <1>3, <1>6
  <2>2. QED
    BY <1>3, <2>1
<1>7. n + 1 \in DOMAIN t /\ t[n + 1] = r
  <2>1. n + 1 \in 1 .. n + 1 /\ n + 1 \in DOMAIN t
    BY <1>1, <1>3
  <2>2. QED
    BY <1>2, <1>3, <2>1
<1>8. b = <<>> => Len(t) # 0 /\ t[Len(t)] = r
  <2>1. ASSUME b = <<>> PROVE Len(t) = n + 1
    BY <1>1, <1>3, <2>1
  <2>2. QED
    BY <1>1, <1>7, <2>1
<1>9. QED
  BY <1>3, <1>4, <1>5, <1>6, <1>7, <1>8 DEF IsAround

(* Adoption replaces the record of its key and keeps all others; a record no
   lower than the others goes last. *)
Inserts(all, ss, r) ==
  /\ all \in Seq(Records)
  /\ \A j \in DOMAIN all :
       all[j] = r \/ \E i \in DOMAIN ss : ~SameKey(ss[i], r) /\ all[j] = ss[i]
  /\ \A i \in DOMAIN ss :
       ~SameKey(ss[i], r) => \E j \in DOMAIN all : all[j] = ss[i]
  /\ \E j \in DOMAIN all : all[j] = r
  /\ (\A i \in DOMAIN ss : ss[i].height <= r.height)
       => Len(all) # 0 /\ all[Len(all)] = r

LEMMA InsertedFacts ==
  ASSUME NEW ss \in Seq(Records), NEW r \in Records
  PROVE  Inserts(Inserted(ss, r), ss, r)
<1> DEFINE rest == {i \in DOMAIN ss : ~SameKey(ss[i], r)}
           I == {i \in rest : ss[i].height <= r.height}
           J == {i \in rest : ss[i].height > r.height}
           a == Kept(ss, I)
           b == Kept(ss, J)
           all == a \o <<r>> \o b
<1>1. Inserted(ss, r) = all
  BY DEF Inserted
<1>2. r.height \in Nat /\ \A i \in DOMAIN ss : ss[i].height \in Nat
  <2>1. \A x \in Records : x.height \in Nat
    BY DEF Records
  <2>2. \A i \in DOMAIN ss : ss[i] \in Records
    OBVIOUS
  <2>3. QED
    BY <2>1, <2>2
<1>3. /\ I \in SUBSET DOMAIN ss /\ J \in SUBSET DOMAIN ss
      /\ \A i \in I \cup J : ~SameKey(ss[i], r)
      /\ \A i \in DOMAIN ss : ~SameKey(ss[i], r) => i \in I \cup J
      /\ (\A i \in DOMAIN ss : ss[i].height <= r.height) => J = {}
  BY <1>2
<1> HIDE DEF I, J
<1>4. /\ a \in Seq(Records)
      /\ \A j \in DOMAIN a : \E i \in I : a[j] = ss[i]
      /\ \A i \in I : \E j \in DOMAIN a : a[j] = ss[i]
  BY <1>3, KeptPlaces
<1>5. /\ b \in Seq(Records)
      /\ \A j \in DOMAIN b : \E i \in J : b[j] = ss[i]
      /\ \A i \in J : \E j \in DOMAIN b : b[j] = ss[i]
  BY <1>3, KeptPlaces
<1>6. J = {} => b = <<>>
  BY KeptNothing
<1> HIDE DEF a, b
<1>7. /\ all \in Seq(Records)
      /\ \A j \in DOMAIN all :
           \/ all[j] = r
           \/ \E i \in DOMAIN a : all[j] = a[i]
           \/ \E i \in DOMAIN b : all[j] = b[i]
      /\ \A i \in DOMAIN a : \E j \in DOMAIN all : all[j] = a[i]
      /\ \A i \in DOMAIN b : \E j \in DOMAIN all : all[j] = b[i]
      /\ \E j \in DOMAIN all : all[j] = r
      /\ b = <<>> => Len(all) # 0 /\ all[Len(all)] = r
  <2>1. /\ a \in Seq(Records) /\ b \in Seq(Records) /\ r \in Records
        /\ all = a \o <<r>> \o b
    BY <1>4, <1>5
  <2> HIDE DEF all
  <2>2. IsAround(all, a, r, b, Records)
    BY <2>1, AroundFacts
  <2>3. QED
    BY <2>2 DEF IsAround
<1> HIDE DEF all
<1>8. \A j \in DOMAIN all :
        all[j] = r \/ \E i \in DOMAIN ss : ~SameKey(ss[i], r) /\ all[j] = ss[i]
  BY <1>3, <1>4, <1>5, <1>7
<1>9. ASSUME NEW i \in DOMAIN ss, ~SameKey(ss[i], r)
      PROVE  \E j \in DOMAIN all : all[j] = ss[i]
  <2>1. CASE i \in I
    BY <1>4, <1>7, <2>1
  <2>2. CASE i \in J
    BY <1>5, <1>7, <2>2
  <2>3. QED
    BY <1>3, <1>9, <2>1, <2>2
<1>10. QED
  BY <1>1, <1>3, <1>6, <1>7, <1>8, <1>9 DEF Inserts

------------------------------------------------------------------------------
(* Part 4: the newest record stays. *)

LEMMA HeightsFinite ==
  ASSUME NEW ss \in Seq(Records)
  PROVE  IsFiniteSet(HeightsOf(ss)) /\ HeightsOf(ss) \in SUBSET Nat
<1> DEFINE D == 1 .. Len(ss)
           f == [i \in D |-> ss[i].height]
<1>1. Len(ss) \in Nat /\ DOMAIN ss = D
  OBVIOUS
<1>2. IsFiniteSet(D)
  BY <1>1, FS_Interval
<1>3. HeightsOf(ss) \in SUBSET Nat
  <2>1. \A x \in Records : x.height \in Nat
    BY DEF Records
  <2>2. \A i \in DOMAIN ss : ss[i] \in Records
    OBVIOUS
  <2>3. QED
    BY <2>1, <2>2 DEF HeightsOf
<1>4. f \in Surjection(D, HeightsOf(ss))
  BY <1>1 DEF HeightsOf, Surjection
<1>5. IsFiniteSet(HeightsOf(ss))
  BY <1>2, <1>4, FS_Surjection
<1>6. QED
  BY <1>3, <1>5

(* How many heights are above one is a number. *)
LEMMA AboveCounted ==
  ASSUME NEW ss \in Seq(Records), NEW h
  PROVE  /\ IsFiniteSet({k \in HeightsOf(ss) : k > h})
         /\ Cardinality({k \in HeightsOf(ss) : k > h}) \in Nat
<1>1. {k \in HeightsOf(ss) : k > h} \subseteq HeightsOf(ss)
  OBVIOUS
<1>2. IsFiniteSet({k \in HeightsOf(ss) : k > h})
  BY <1>1, HeightsFinite, FS_Subset
<1>3. QED
  BY <1>2, FS_CardinalityType

Highest(ss, r) == \A i \in DOMAIN ss : ss[i].height <= r.height
In(r, ss) == \E i \in DOMAIN ss : ss[i] = r

LEMMA NewestHeight ==
  ASSUME NEW ss \in Seq(Records), NEW r \in Records, In(r, ss), Highest(ss, r)
  PROVE  /\ r.height \in HeightsOf(ss) /\ \A h \in HeightsOf(ss) : h <= r.height
         /\ Max(HeightsOf(ss)) = r.height
<1>1. r.height \in HeightsOf(ss) /\ \A h \in HeightsOf(ss) : h <= r.height
  BY DEF HeightsOf, In, Highest
<1>2. HeightsOf(ss) \in SUBSET Nat
  BY HeightsFinite
<1>3. \A x \in HeightsOf(ss) : (\A y \in HeightsOf(ss) : x >= y) <=> x = r.height
  BY <1>1, <1>2
<1>4. QED
  BY <1>1, <1>3 DEF Max

(* Neither the window nor the leaf bound gives up the newest height. *)
LEMMA NewestStays ==
  ASSUME WindowAssumption,
         NEW ss \in Seq(Records), NEW r \in Records, In(r, ss), Highest(ss, r)
  PROVE  r.height \notin Old(ss) /\ r.height \notin Excess(ss)
<1>1. /\ r.height \in HeightsOf(ss) /\ \A h \in HeightsOf(ss) : h <= r.height
      /\ Max(HeightsOf(ss)) = r.height
  BY NewestHeight
<1>2. r.height \notin Old(ss)
  <2>1. HeightsOf(ss) \in SUBSET Nat
    BY HeightsFinite
  <2>2. {k \in HeightsOf(ss) : k > r.height} = {}
    BY <1>1, <2>1
  <2>3. Cardinality({k \in HeightsOf(ss) : k > r.height}) = 0
    BY <2>2, FS_EmptySet
  <2>4. ~(0 >= RootWindow)
    BY DEF WindowAssumption
  <2>5. r.height \in Old(ss)
          => Cardinality({k \in HeightsOf(ss) : k > r.height}) >= RootWindow
    BY Zenon DEF Old
  <2>6. QED
    BY <2>3, <2>4, <2>5
<1>3. r.height \notin Excess(ss)
  BY <1>1 DEF Excess, Evictable
<1>4. QED
  BY <1>2, <1>3

(* Trimming leaves the newest record in the window, and last if it was. *)
LEMMA TrimsNewest ==
  ASSUME NEW t, NEW ss \in Seq(Records), NEW hs, Trims(t, ss, hs),
         NEW r \in Records, In(r, ss), Highest(ss, r), r.height \notin hs
  PROVE  /\ t \in Seq(Records) /\ In(r, t) /\ Highest(t, r)
         /\ Len(ss) # 0 /\ ss[Len(ss)] = r => Len(t) # 0 /\ t[Len(t)] = r
<1>1. In(r, t)
  BY DEF In, Trims
<1>2. Highest(t, r)
  BY DEF Highest, Trims
<1>3. QED
  BY <1>1, <1>2 DEF Trims

(* Inv: the types, and the statement of OneSetPerHeight. *)
OneSet(ss) ==
  \A i, j \in DOMAIN ss :
    ss[i].height = ss[j].height => ss[i].block = ss[j].block /\ ss[i].set = ss[j].set

TypeOK == snaps \in Seq(Records) /\ source \in Snapshots

Inv == TypeOK /\ OneSet(snaps)

(* A step of the refresh that adopts: each window, and what the next leaves of
   it. *)
Adopted(r, all, held, bounded) ==
  /\ all = Inserted(snaps, r) /\ held = Windowed(all) /\ bounded = LeafBounded(held)
  /\ r \in Records /\ IsFresh(r) /\ Highest(snaps, r)
  /\ r.height = source.height /\ r.order = source.order
  /\ r.set = source.set /\ r.block = source.block
  /\ mayCoexist(snaps, source)

LEMMA RefreshAdopts ==
  ASSUME WindowAssumption, TypeOK,
         NEW age \in Ages, Refresh(age), Adoptable(snaps, source, age)
  PROVE  \E r, all, held, bounded :
           Adopted(r, all, held, bounded) /\ snaps' = Fresh(bounded)
             /\ pins' = pins /\ source' = source
<1> DEFINE r == Record(source, age)
<1>1. PICK all, held, bounded :
        /\ all = Inserted(snaps, r) /\ held = Windowed(all)
        /\ bounded = LeafBounded(held) /\ snaps' = Fresh(bounded)
  BY DEF Refresh
<1>2. r \in Records
  BY DEF TypeOK, Snapshots, Records, Record
<1>3. /\ r.height = source.height /\ r.order = source.order
      /\ r.set = source.set /\ r.block = source.block /\ r.age = age
  BY DEF Record
<1>4. IsFresh(r)
  BY <1>3 DEF Adoptable, ValidAge, IsFresh
<1>5. Highest(snaps, r) /\ mayCoexist(snaps, source)
  BY <1>3 DEF Adoptable, Highest
<1> HIDE DEF r
<1>6. Adopted(r, all, held, bounded)
  BY <1>1, <1>2, <1>3, <1>4, <1>5 DEF Adopted
<1>7. QED
  BY <1>1, <1>6 DEF Refresh


LEMMA AdoptionStages ==
  ASSUME WindowAssumption, TypeOK, NEW r, NEW all, NEW held, NEW bounded,
         Adopted(r, all, held, bounded)
  PROVE  /\ all \in Seq(Records) /\ held \in Seq(Records) /\ bounded \in Seq(Records)
         /\ Trims(held, all, Old(all)) /\ Trims(bounded, held, Excess(held))
         /\ In(r, all) /\ Highest(all, r)
         /\ In(r, held) /\ Highest(held, r)
         /\ In(r, bounded) /\ Highest(bounded, r)
         /\ Len(bounded) # 0 /\ bounded[Len(bounded)] = r
<1>1. /\ snaps \in Seq(Records) /\ r \in Records /\ Highest(snaps, r)
      /\ all = Inserted(snaps, r) /\ held = Windowed(all) /\ bounded = LeafBounded(held)
  BY DEF TypeOK, Adopted
<1>2. /\ all \in Seq(Records) /\ In(r, all) /\ Len(all) # 0 /\ all[Len(all)] = r
      /\ \A j \in DOMAIN all : all[j] = r \/ \E i \in DOMAIN snaps : all[j] = snaps[i]
  <2>1. Inserts(all, snaps, r)
    BY <1>1, InsertedFacts
  <2>2. \A i \in DOMAIN snaps : snaps[i].height <= r.height
    BY <1>1 DEF Highest
  <2>3. QED
    BY <2>1, <2>2 DEF In, Inserts
<1>3. Highest(all, r)
  <2>1. r.height \in Nat
    BY <1>1 DEF Records
  <2>2. QED
    BY <1>1, <1>2, <2>1 DEF Highest
<1>4. Trims(held, all, Old(all)) /\ r.height \notin Old(all)
  BY <1>1, <1>2, <1>3, WindowedTrims, NewestStays
<1>5. /\ held \in Seq(Records) /\ In(r, held) /\ Highest(held, r)
      /\ Len(held) # 0 /\ held[Len(held)] = r
  BY <1>1, <1>2, <1>3, <1>4, TrimsNewest
<1>6. Trims(bounded, held, Excess(held)) /\ r.height \notin Excess(held)
  BY <1>1, <1>5, LeafBoundedTrims, NewestStays
<1>7. /\ bounded \in Seq(Records) /\ In(r, bounded) /\ Highest(bounded, r)
      /\ Len(bounded) # 0 /\ bounded[Len(bounded)] = r
  BY <1>1, <1>5, <1>6, TrimsNewest
<1>8. QED
  BY <1>2, <1>3, <1>4, <1>5, <1>6, <1>7

------------------------------------------------------------------------------
(* Part 5: the theorems. *)

LEMMA OneSetInherited ==
  ASSUME NEW t, NEW ss, OneSet(ss),
         \A j \in DOMAIN t : \E i \in DOMAIN ss : t[j] = ss[i]
  PROVE  OneSet(t)
<1> SUFFICES ASSUME NEW j \in DOMAIN t, NEW k \in DOMAIN t, t[j].height = t[k].height
             PROVE  t[j].block = t[k].block /\ t[j].set = t[k].set
  BY DEF OneSet
<1>1. PICK i \in DOMAIN ss : t[j] = ss[i]
  OBVIOUS
<1>2. PICK m \in DOMAIN ss : t[k] = ss[m]
  OBVIOUS
<1>3. QED
  BY <1>1, <1>2 DEF OneSet

(* mayCoexist lets a record join a height only with its block and leaf set. *)
LEMMA AdoptionKeepsOneSet ==
  ASSUME WindowAssumption, Inv, NEW r, NEW all, NEW held, NEW bounded,
         Adopted(r, all, held, bounded)
  PROVE  bounded \in Seq(Records) /\ OneSet(bounded)
<1>1. /\ all \in Seq(Records) /\ held \in Seq(Records) /\ bounded \in Seq(Records)
      /\ Trims(held, all, Old(all)) /\ Trims(bounded, held, Excess(held))
  BY AdoptionStages DEF Inv
<1>2. \A j \in DOMAIN all : all[j] = r \/ \E i \in DOMAIN snaps : all[j] = snaps[i]
  <2>1. Inserts(all, snaps, r)
    BY InsertedFacts DEF Adopted, Inv, TypeOK
  <2>2. QED
    BY <2>1 DEF Inserts
<1>3. \A i \in DOMAIN snaps : snaps[i].height = r.height =>
        snaps[i].block = r.block /\ snaps[i].set = r.set
  BY DEF Adopted, mayCoexist
<1>4. OneSet(all)
  <2> SUFFICES ASSUME NEW j \in DOMAIN all, NEW k \in DOMAIN all,
                      all[j].height = all[k].height
               PROVE  all[j].block = all[k].block /\ all[j].set = all[k].set
    BY DEF OneSet
  <2>1. CASE all[j] = r /\ all[k] = r
    BY <2>1
  <2>2. CASE all[j] = r /\ all[k] # r
    BY <1>2, <1>3, <2>2
  <2>3. CASE all[j] # r /\ all[k] = r
    BY <1>2, <1>3, <2>3
  <2>4. CASE all[j] # r /\ all[k] # r
    <3>1. PICK i \in DOMAIN snaps : all[j] = snaps[i]
      BY <1>2, <2>4
    <3>2. PICK m \in DOMAIN snaps : all[k] = snaps[m]
      BY <1>2, <2>4
    <3>3. QED
      BY <3>1, <3>2 DEF Inv, OneSet
  <2>5. QED
    BY <2>1, <2>2, <2>3, <2>4
<1>5. OneSet(held)
  BY <1>1, <1>4, OneSetInherited DEF Trims
<1>6. OneSet(bounded)
  BY <1>1, <1>5, OneSetInherited DEF Trims
<1>7. QED
  BY <1>1, <1>6

LEMMA FreshKeepsOneSet ==
  ASSUME NEW ss \in Seq(Records), OneSet(ss)
  PROVE  Fresh(ss) \in Seq(Records) /\ OneSet(Fresh(ss))
BY FreshKeeps, OneSetInherited

LEMMA TickKeeps ==
  ASSUME WindowAssumption, Inv, Tick
  PROVE  /\ snaps' \in Seq(Records) /\ DOMAIN snaps' = DOMAIN snaps
         /\ \A i \in DOMAIN snaps :
              /\ snaps'[i].height = snaps[i].height /\ snaps'[i].order = snaps[i].order
              /\ snaps'[i].set = snaps[i].set /\ snaps'[i].block = snaps[i].block
<1> DEFINE older(x) == [x EXCEPT !.age = IF @ < TopAge THEN @ + 1 ELSE @]
<1>1. snaps' = [i \in DOMAIN snaps |-> older(snaps[i])]
  BY DEF Tick
<1>2. ASSUME NEW x \in Records
      PROVE  /\ older(x) \in Records
             /\ older(x).height = x.height /\ older(x).order = x.order
             /\ older(x).set = x.set /\ older(x).block = x.block
  <2>1. FutureSkew \in Nat /\ TopAge \in Nat /\ x.age \in -FutureSkew .. TopAge
    BY <1>2 DEF WindowAssumption, TopAge, Ages, Records
  <2>2. (IF x.age < TopAge THEN x.age + 1 ELSE x.age) \in Ages
    BY <2>1 DEF Ages
  <2>3. QED
    BY <2>2 DEF Records
<1> HIDE DEF older
<1>3. snaps \in Seq(Records) /\ DOMAIN snaps = 1 .. Len(snaps) /\ Len(snaps) \in Nat
  BY DEF Inv, TypeOK
<1>4. \A i \in DOMAIN snaps : snaps[i] \in Records /\ older(snaps[i]) \in Records
  BY <1>2, <1>3
<1>5. snaps' \in Seq(Records)
  BY <1>1, <1>3, <1>4
<1>6. QED
  BY <1>1, <1>2, <1>4, <1>5

LEMMA InvInit == WindowAssumption /\ Init => Inv
<1> SUFFICES ASSUME WindowAssumption, Init PROVE Inv
  OBVIOUS
<1>1. TypeOK
  BY DEF Init, TypeOK, WindowAssumption
<1>2. OneSet(snaps)
  BY DEF Init, OneSet
<1>3. QED
  BY <1>1, <1>2 DEF Inv

LEMMA InvNext == WindowAssumption /\ Inv /\ [Next]_vars => Inv'
<1> SUFFICES ASSUME WindowAssumption, Inv, [Next]_vars PROVE Inv'
  OBVIOUS
<1> DEFINE Good(ss) == ss \in Seq(Records) /\ OneSet(ss)
<1>1. Good(snaps) /\ source \in Snapshots
  BY DEF Inv, TypeOK
<1>2. SUFFICES Good(snaps') /\ source' \in Snapshots
  BY DEF Inv, TypeOK, OneSet
<1>3. ASSUME NEW age \in Ages, Refresh(age)
      PROVE  Good(snaps') /\ source' \in Snapshots
  <2>1. CASE Adoptable(snaps, source, age)
    <3>1. PICK r, all, held, bounded :
            Adopted(r, all, held, bounded) /\ snaps' = Fresh(bounded)
      BY <1>3, <2>1, RefreshAdopts DEF Inv
    <3>2. Good(bounded)
      BY <3>1, AdoptionKeepsOneSet
    <3>3. Good(Fresh(bounded))
      BY <3>2, FreshKeepsOneSet
    <3>4. QED
      BY <1>1, <1>3, <3>1, <3>3 DEF Refresh
  <2>2. CASE ~Adoptable(snaps, source, age)
    <3>1. snaps' = Fresh(snaps) /\ source' = source
      BY <1>3, <2>2 DEF Refresh
    <3>2. Good(Fresh(snaps))
      BY <1>1, FreshKeepsOneSet
    <3>3. QED
      BY <1>1, <3>1, <3>2
  <2>3. QED
    BY <2>1, <2>2
<1>4. CASE EnforceFreshness
  <2>1. Good(Fresh(snaps))
    BY <1>1, FreshKeepsOneSet
  <2>2. QED
    BY <1>1, <1>4, <2>1 DEF EnforceFreshness
<1>5. CASE Tick
  <2>1. /\ snaps' \in Seq(Records) /\ DOMAIN snaps' = DOMAIN snaps
        /\ \A i \in DOMAIN snaps :
             /\ snaps'[i].height = snaps[i].height
             /\ snaps'[i].set = snaps[i].set /\ snaps'[i].block = snaps[i].block
    BY <1>5, TickKeeps
  <2>2. OneSet(snaps')
    BY <1>1, <2>1 DEF OneSet
  <2>3. QED
    BY <1>1, <1>5, <2>1, <2>2 DEF Tick
<1>6. CASE Publish
  BY <1>1, <1>6 DEF Publish, WindowAssumption
<1>7. CASE Pin \/ Unpin \/ UNCHANGED vars
  BY <1>1, <1>7 DEF Pin, Unpin, vars
<1>8. QED
  BY <1>3, <1>4, <1>5, <1>6, <1>7 DEF Next

(* Whatever the oracle publishes, orders and reorganisations included, all
   records of a height describe one block and one leaf set (mayCoexist). *)
THEOREM OneSetAtEveryHeight == Spec => []OneSetPerHeight
<1>1. Inv => OneSetPerHeight
  BY DEF Inv, OneSet, OneSetPerHeight
<1>2. QED
  BY <1>1, InvInit, InvNext, WindowAssumption, PTL DEF Spec

(* The adopted record is fresh and stays last through every trim. *)
LEMMA AdoptedGoesLast ==
  ASSUME WindowAssumption, TypeOK, NEW r, NEW all, NEW held, NEW bounded,
         Adopted(r, all, held, bounded)
  PROVE  /\ Fresh(bounded) # <<>> /\ Last(Fresh(bounded)) = r
         /\ In(r, Fresh(bounded))
<1> DEFINE t == Fresh(bounded)
<1>1. bounded \in Seq(Records) /\ Len(bounded) # 0 /\ bounded[Len(bounded)] = r
  BY AdoptionStages
<1>2. IsFresh(r)
  BY DEF Adopted
<1>3. t \in Seq(Records) /\ Len(t) # 0 /\ t[Len(t)] = r
  BY <1>1, <1>2, FreshKeeps
<1> HIDE DEF t
<1>4. t # <<>> /\ Last(t) = r /\ Len(t) \in DOMAIN t
  BY <1>3 DEF Last
<1>5. QED
  BY <1>3, <1>4 DEF In, t

(* What is adopted is served next, whatever the window held: current() is the
   record just adopted, also when two orders of one height take turns. *)
THEOREM AdoptedIsServed == Spec => AdoptedIsCurrent
<1>1. ASSUME Inv, NEW age \in Ages, Adoptable(snaps, source, age), Refresh(age)
      PROVE  snaps' # <<>> /\ SameKey(Last(snaps'), source)
  <2>1. PICK r, all, held, bounded :
          Adopted(r, all, held, bounded) /\ snaps' = Fresh(bounded)
    BY <1>1, RefreshAdopts, WindowAssumption DEF Inv
  <2>2. snaps' # <<>> /\ Last(snaps') = r
    BY <1>1, <2>1, AdoptedGoesLast, WindowAssumption DEF Inv
  <2>3. r.height = source.height /\ r.order = source.order
    BY <2>1 DEF Adopted
  <2>4. QED
    BY <2>2, <2>3 DEF SameKey
<1>2. Inv /\ [Next]_vars =>
        [\A age \in Ages :
           Adoptable(snaps, source, age) /\ Refresh(age)
             => snaps' # <<>> /\ SameKey(Last(snaps'), source)]_vars
  BY <1>1
<1>3. QED
  BY <1>2, InvInit, InvNext, WindowAssumption, PTL DEF Spec, AdoptedIsCurrent

------------------------------------------------------------------------------
(* What leaves a window. *)

(* A fresh record leaves at an adoption only with its whole height, or for the
   new record of its key. *)
LEMMA AdoptionSpares ==
  ASSUME WindowAssumption, TypeOK, NEW r, NEW all, NEW held, NEW bounded,
         Adopted(r, all, held, bounded),
         NEW i \in DOMAIN snaps, IsFresh(snaps[i]), ~SameKey(snaps[i], r)
  PROVE  /\ In(snaps[i], all)
         /\ snaps[i].height \notin Old(all) => In(snaps[i], held)
         /\ snaps[i].height \notin Old(all) \cup Excess(held)
              => In(snaps[i], bounded) /\ In(snaps[i], Fresh(bounded))
<1>1. /\ bounded \in Seq(Records)
      /\ Trims(held, all, Old(all)) /\ Trims(bounded, held, Excess(held))
  BY AdoptionStages
<1>2. In(snaps[i], all)
  <2>1. Inserts(all, snaps, r)
    BY InsertedFacts DEF Adopted, TypeOK
  <2>2. QED
    BY <2>1 DEF Inserts, In
<1>3. snaps[i].height \notin Old(all) => In(snaps[i], held)
  BY <1>1, <1>2 DEF Trims, In
<1>4. snaps[i].height \notin Old(all) \cup Excess(held) => In(snaps[i], bounded)
  BY <1>1, <1>3 DEF Trims, In
<1>5. In(snaps[i], bounded) => In(snaps[i], Fresh(bounded))
  <2>1. \A j \in DOMAIN bounded :
          IsFresh(bounded[j]) =>
            \E k \in DOMAIN Fresh(bounded) : Fresh(bounded)[k] = bounded[j]
    BY <1>1, FreshKeeps
  <2>2. QED
    BY <2>1 DEF In
<1>6. QED
  BY <1>2, <1>3, <1>4, <1>5

(* A height of the window after an adoption was given up by no trim. *)
LEMMA HeightsLeft ==
  ASSUME WindowAssumption, TypeOK, NEW r, NEW all, NEW held, NEW bounded,
         Adopted(r, all, held, bounded), NEW h \in HeightsOf(Fresh(bounded))
  PROVE  /\ h \in HeightsOf(held) /\ h \notin Old(all) \cup Excess(held)
<1>1. /\ bounded \in Seq(Records)
      /\ Trims(held, all, Old(all)) /\ Trims(bounded, held, Excess(held))
  BY AdoptionStages
<1>2. PICK j \in DOMAIN bounded : bounded[j].height = h
  <2>1. PICK k \in DOMAIN Fresh(bounded) : Fresh(bounded)[k].height = h
    BY DEF HeightsOf
  <2>2. \E j \in DOMAIN bounded : Fresh(bounded)[k] = bounded[j]
    BY <1>1, FreshKeeps
  <2>3. QED
    BY <2>1, <2>2
<1>3. PICK m \in DOMAIN held : held[m] = bounded[j] /\ h \notin Excess(held)
  BY <1>1, <1>2 DEF Trims
<1>4. held[m].height = h /\ h \notin Old(all)
  BY <1>1, <1>2, <1>3 DEF Trims
<1>5. QED
  BY <1>3, <1>4 DEF HeightsOf

(* Without an adoption only records of age leave. *)
LEMMA OthersSpare ==
  ASSUME WindowAssumption, Inv, [Next]_vars,
         \A age \in Ages : Refresh(age) => ~Adoptable(snaps, source, age),
         NEW i \in DOMAIN snaps, IsFresh(snaps[i])
  PROVE  \E k \in DOMAIN snaps' :
           snaps'[k].height = snaps[i].height /\ snaps'[k].order = snaps[i].order
<1>1. CASE snaps' = Fresh(snaps)
  <2>1. \E k \in DOMAIN Fresh(snaps) : Fresh(snaps)[k] = snaps[i]
    BY FreshKeeps DEF Inv, TypeOK
  <2>2. QED
    BY <1>1, <2>1
<1>2. CASE Tick
  BY <1>2, TickKeeps
<1>3. CASE snaps' = snaps
  BY <1>3
<1>4. QED
  BY <1>1, <1>2, <1>3 DEF Next, Refresh, EnforceFreshness, Publish, Pin, Unpin, vars

(* The two orders of one height leave the window together, except by age. *)
THEOREM OrdersLeaveTogether == Spec => SiblingsLeaveTogether
<1> DEFINE Together ==
      \A i \in DOMAIN snaps :
        /\ snaps[i].height \in HeightsOf(snaps')
        /\ OracleMaxAge = 0 \/ snaps[i].age <= OracleMaxAge
        => \E k \in DOMAIN snaps' : SameKey(snaps'[k], snaps[i])
<1>1. ASSUME Inv, [Next]_vars PROVE Together
  <2> SUFFICES ASSUME NEW i \in DOMAIN snaps,
                      snaps[i].height \in HeightsOf(snaps'), IsFresh(snaps[i])
               PROVE  \E k \in DOMAIN snaps' : SameKey(snaps'[k], snaps[i])
    BY DEF IsFresh
  <2>1. CASE \E age \in Ages : Refresh(age) /\ Adoptable(snaps, source, age)
    <3>1. PICK r, all, held, bounded :
            Adopted(r, all, held, bounded) /\ snaps' = Fresh(bounded)
      BY <1>1, <2>1, RefreshAdopts, WindowAssumption DEF Inv
    <3>2. CASE SameKey(snaps[i], r)
      <4>1. In(r, snaps')
        BY <1>1, <3>1, AdoptedGoesLast, WindowAssumption DEF Inv
      <4>2. QED
        BY <3>2, <4>1 DEF In, SameKey
    <3>3. CASE ~SameKey(snaps[i], r)
      <4>1. snaps[i].height \notin Old(all) \cup Excess(held)
        BY <1>1, <3>1, HeightsLeft, WindowAssumption DEF Inv
      <4>2. In(snaps[i], snaps')
        BY <1>1, <3>1, <3>3, <4>1, AdoptionSpares, WindowAssumption DEF Inv
      <4>3. QED
        BY <4>2 DEF In, SameKey
    <3>4. QED
      BY <3>2, <3>3
  <2>2. CASE ~\E age \in Ages : Refresh(age) /\ Adoptable(snaps, source, age)
    BY <1>1, <2>2, OthersSpare, WindowAssumption DEF SameKey
  <2>3. QED
    BY <2>1, <2>2
<1>2. Inv /\ [Next]_vars => [Together]_vars
  BY <1>1
<1>3. QED
  BY <1>2, InvInit, InvNext, WindowAssumption, PTL DEF Spec, SiblingsLeaveTogether

------------------------------------------------------------------------------
(* Pinned heights. *)

(* The heights after the insertion, and those of them with a pinned root. *)
LEMMA InsertedHeights ==
  ASSUME WindowAssumption, TypeOK, NEW r, NEW all, NEW held, NEW bounded,
         Adopted(r, all, held, bounded)
  PROVE  /\ HeightsOf(all) = HeightsOf(snaps) \cup {r.height}
         /\ HeightsOf(held) \subseteq HeightsOf(all)
         /\ PinnedHeights(held) \subseteq PinnedHeights(snaps) \cup {r.height}
<1>1. Inserts(all, snaps, r) /\ Trims(held, all, Old(all))
  BY AdoptionStages, InsertedFacts DEF Adopted, TypeOK
<1>2. \A h \in HeightsOf(all) : h \in HeightsOf(snaps) \cup {r.height}
  BY <1>1 DEF Inserts, HeightsOf
<1>3. r.height \in HeightsOf(all)
  BY <1>1 DEF Inserts, HeightsOf
<1>4. ASSUME NEW i \in DOMAIN snaps PROVE snaps[i].height \in HeightsOf(all)
  <2>1. CASE SameKey(snaps[i], r)
    BY <1>3, <2>1 DEF SameKey
  <2>2. CASE ~SameKey(snaps[i], r)
    BY <1>1, <2>2 DEF Inserts, HeightsOf
  <2>3. QED
    BY <2>1, <2>2
<1>5. HeightsOf(all) = HeightsOf(snaps) \cup {r.height}
  BY <1>2, <1>3, <1>4 DEF HeightsOf
<1>6. \A j \in DOMAIN held : held[j] = r \/ \E i \in DOMAIN snaps : held[j] = snaps[i]
  BY <1>1 DEF Inserts, Trims
<1>7. HeightsOf(held) \subseteq HeightsOf(all)
  BY <1>1 DEF Trims, HeightsOf
<1>8. PinnedHeights(held) \subseteq PinnedHeights(snaps) \cup {r.height}
  BY <1>6 DEF PinnedHeights
<1>9. QED
  BY <1>5, <1>7, <1>8

(* The window of heights drops none with fewer than RootWindow above it. *)
LEMMA WindowSpares ==
  ASSUME WindowAssumption, TypeOK, NEW r, NEW all, NEW held, NEW bounded,
         Adopted(r, all, held, bounded), NEW h,
         Cardinality({k \in HeightsOf(snaps) \cup {r.height} : k > h}) < RootWindow
  PROVE  h \notin Old(all)
<1> DEFINE n == Cardinality({k \in HeightsOf(all) : k > h})
<1>1. n < RootWindow
  BY InsertedHeights
<1>2. n \in Nat /\ RootWindow \in Nat
  BY AdoptionStages, AboveCounted DEF WindowAssumption
<1>3. h \in Old(all) => n >= RootWindow
  BY Zenon DEF Old
<1> HIDE DEF n
<1>4. QED
  BY <1>1, <1>2, <1>3

(* The leaf bound gives up a pinned height only after all heights that are not
   pinned, but for the newest. *)
LEMMA PinnedAfterOthers ==
  ASSUME WindowAssumption, NEW ss \in Seq(Records),
         NEW h \in PinnedHeights(ss), h \in Excess(ss),
         NEW k \in Evictable(ss), k \notin PinnedHeights(ss)
  PROVE  k \in Excess(ss)
<1>1. /\ ~(MaxLeaves = 0 \/ retainedLeaves(ss, {}) <= MaxLeaves)
      /\ retainedLeaves(ss, Before(ss, h)) > MaxLeaves
  BY DEF Excess
<1>2. Before(ss, k) \subseteq Before(ss, h)
  BY DEF Before, EvictedBefore
<1>3. Len(ss) \in Nat /\ \A n \in 1 .. Len(ss) : ss[n].set \in Sets
  <2>1. \A x \in Records : x.set \in Sets
    BY DEF Records
  <2>2. Len(ss) \in Nat /\ \A n \in 1 .. Len(ss) : ss[n] \in Records
    OBVIOUS
  <2>3. QED
    BY <2>1, <2>2
<1>4. /\ retainedLeaves(ss, Before(ss, k)) \in Nat
      /\ retainedLeaves(ss, Before(ss, h)) \in Nat
      /\ retainedLeaves(ss, Before(ss, h)) <= retainedLeaves(ss, Before(ss, k))
  BY <1>2, <1>3, LeavesMonotone
<1>5. retainedLeaves(ss, Before(ss, k)) > MaxLeaves
  BY <1>1, <1>4 DEF WindowAssumption
<1>6. QED
  BY <1>1, <1>5 DEF Excess

(* The step that adopts: a pinned height it gives up for the leaf bound leaves
   only pinned heights and the newest behind. *)
LEMMA AdoptionPinned ==
  ASSUME WindowAssumption, TypeOK, NEW r, NEW all, NEW held, NEW bounded,
         Adopted(r, all, held, bounded),
         NEW h \in PinnedHeights(snaps), h \notin HeightsOf(Fresh(bounded)),
         \A i \in DOMAIN snaps : snaps[i].height = h => IsFresh(snaps[i]),
         Cardinality({k \in HeightsOf(snaps) \cup {source.height} : k > h}) < RootWindow,
         NEW k \in HeightsOf(Fresh(bounded))
  PROVE  k \in PinnedHeights(snaps) \/ \A j \in HeightsOf(Fresh(bounded)) : j <= k
<1>1. /\ held \in Seq(Records) /\ bounded \in Seq(Records)
      /\ In(r, held) /\ Highest(held, r) /\ Trims(held, all, Old(all))
      /\ r \in Records /\ r.height = source.height
  BY AdoptionStages DEF Adopted
<1>2. PICK i \in DOMAIN snaps : snaps[i].height = h /\ rootOf(snaps[i]) \in pins
  BY DEF PinnedHeights
<1>3. r.height \in HeightsOf(Fresh(bounded))
  BY AdoptedGoesLast DEF In, HeightsOf
<1>4. ~SameKey(snaps[i], r)
  BY <1>2, <1>3 DEF SameKey
<1>5. h \notin Old(all)
  BY <1>1, WindowSpares
<1>6. In(snaps[i], held)
  BY <1>2, <1>4, <1>5, AdoptionSpares
<1>7. h \in Excess(held)
  <2>1. SUFFICES ASSUME h \notin Excess(held) PROVE FALSE
    OBVIOUS
  <2>2. In(snaps[i], Fresh(bounded))
    BY <1>2, <1>4, <1>5, <2>1, AdoptionSpares
  <2>3. QED
    BY <1>2, <2>2 DEF In, HeightsOf
<1>8. h \in PinnedHeights(held)
  BY <1>2, <1>6 DEF PinnedHeights, In
<1>9. k \in HeightsOf(held) /\ k \notin Excess(held)
  BY HeightsLeft
<1>10. /\ r.height \in HeightsOf(held) /\ \A j \in HeightsOf(held) : j <= r.height
       /\ Max(HeightsOf(held)) = r.height
  BY <1>1, NewestHeight
<1>11. CASE k = r.height
  BY <1>10, <1>11, HeightsLeft
<1>12. CASE k # r.height
  <2>1. k \in Evictable(held)
    BY <1>9, <1>10, <1>12 DEF Evictable
  <2>2. k \in PinnedHeights(held)
    BY <1>1, <1>7, <1>8, <1>9, <2>1, PinnedAfterOthers
  <2>3. QED
    BY <1>12, <2>2, InsertedHeights
<1>13. QED
  BY <1>11, <1>12

(* The leaf bound takes a height with a challenge or a verify against it only
   when nothing is left but such heights and the newest. *)
THEOREM PinnedHeightsGoLast == Spec => PinnedGoLast
<1> DEFINE GivenUp(h) ==
             /\ h \notin HeightsOf(snaps')
             /\ \A i \in DOMAIN snaps : snaps[i].height = h =>
                  OracleMaxAge = 0 \/ snaps[i].age <= OracleMaxAge
             /\ Cardinality({k \in HeightsOf(snaps) \cup {source.height} : k > h})
                  < RootWindow
           Rests(k) == k \in PinnedHeights(snaps) \/ \A j \in HeightsOf(snaps') : j <= k
           A == \A h \in PinnedHeights(snaps) :
                  GivenUp(h) => \A k \in HeightsOf(snaps') : Rests(k)
<1>1. ASSUME Inv, [Next]_vars PROVE A
  <2> SUFFICES ASSUME NEW h \in PinnedHeights(snaps), GivenUp(h),
                      NEW k \in HeightsOf(snaps')
               PROVE  Rests(k)
    OBVIOUS
  <2>1. \A i \in DOMAIN snaps : snaps[i].height = h => IsFresh(snaps[i])
    BY DEF IsFresh
  <2>2. CASE \E age \in Ages : Refresh(age) /\ Adoptable(snaps, source, age)
    <3>1. PICK r, all, held, bounded :
            Adopted(r, all, held, bounded) /\ snaps' = Fresh(bounded)
      BY <1>1, <2>2, RefreshAdopts, WindowAssumption DEF Inv
    <3>2. /\ h \notin HeightsOf(Fresh(bounded)) /\ k \in HeightsOf(Fresh(bounded))
          /\ Cardinality({m \in HeightsOf(snaps) \cup {source.height} : m > h})
               < RootWindow
      BY <3>1
    <3>3. k \in PinnedHeights(snaps) \/ \A j \in HeightsOf(Fresh(bounded)) : j <= k
      BY <1>1, <2>1, <3>1, <3>2, AdoptionPinned, WindowAssumption DEF Inv
    <3>4. QED
      BY <3>1, <3>3
  <2>3. CASE ~\E age \in Ages : Refresh(age) /\ Adoptable(snaps, source, age)
    <3>1. PICK i \in DOMAIN snaps : snaps[i].height = h
      BY DEF PinnedHeights
    <3>2. \E m \in DOMAIN snaps' : snaps'[m].height = h
      BY <1>1, <2>1, <2>3, <3>1, OthersSpare, WindowAssumption
    <3>3. QED
      BY <3>2 DEF HeightsOf
  <2>4. QED
    BY <2>2, <2>3
<1>2. Inv /\ [Next]_vars => [A]_vars
  BY <1>1
<1>3. QED
  BY <1>2, InvInit, InvNext, WindowAssumption, PTL DEF Spec, PinnedGoLast
==============================================================================
