----------------------- MODULE RegistrationStoreProofs -----------------------
(***************************************************************************)
(* The registration file for any registrations, schedules and files of     *)
(* older builds, with storage that fails and processes that die at any     *)
(* step: reads are durable, a reported registration keeps its leaf, the    *)
(* leaf order only grows and the file stays loadable.                      *)
(***************************************************************************)
EXTENDS RegistrationStore, FiniteSetTheorems, SequenceTheorems, TLAPS

-----------------------------------------------------------------------------
(* Lines.                                                                  *)

IsRecord(r) == r.bucket \in Buckets /\ r.index \in Nat
OldLines == UNION {{f.lines[i] : i \in DOMAIN f.lines} : f \in InitialFiles}

Line ==
  OldLines \cup {Junk} \cup {Header(s) : s \in Schedules}
    \cup {recordOf(d, i) : d \in Requests, i \in Nat}

\* The only record a line may add to the lines before it: of a new key, at the
\* end of its bucket, under the declaration of the bucket.
Extends(lines, r) ==
  /\ \E d \in Requests : r = recordOf(d, Len(Rebuilt(lines)[d.bucket]))
  /\ \A i \in RecordsAt(lines) : lines[i].bucket = r.bucket =>
       /\ keyOf(lines[i]) # keyOf(r)
       /\ lines[i].decl = r.decl
  /\ \A i \in DOMAIN Rebuilt(lines)[r.bucket] : Rebuilt(lines)[r.bucket][i].index <= r.index

-----------------------------------------------------------------------------
(* The inductive invariant.                                                *)

ForcedCount == (forced + 1) \div 2
PrefixLines == SubSeq(file.lines, 1, ForcedCount)

\* No power loss can take the file, or the directories are left to chance.
Named == OrphanDirs \/ unforced = {}

\* Every line that a power loss can take is no record.
Settled == \A n \in ForcedCount + 1..Len(file.lines) : n \notin RecordsAt(file.lines)

\* ... or only the last one is.
LastIsNew ==
  LET last == Len(file.lines)
  IN /\ ForcedCount < last
     /\ Extends(Front(file.lines), file.lines[last])
     /\ \A n \in ForcedCount + 1..last - 1 : n \notin RecordsAt(file.lines)

Clean == ~file.bare /\ file.fragment # "torn"

LoaderPcs == {"idle", "barrier", "mkdir", "read", "repair", "terminate", "stamp", "dir", "install"}
AppenderPcs == {"idle", "ready", "open", "sync", "close", "retry", "join"}
Holding == {"open", "sync", "close", "retry", "join"}
Early == {"idle", "barrier", "mkdir"}

TypeInv ==
  /\ file.lines \in Seq(Line) /\ file.bare \in BOOLEAN /\ file.fragment \in {"none", "torn", "cut"}
  /\ file = [lines |-> file.lines, bare |-> file.bare, fragment |-> file.fragment]
  /\ forced \in Nat /\ schedule \in Schedules
  /\ loaded \in BOOLEAN /\ stale \in BOOLEAN /\ unbarriered \in BOOLEAN
  /\ loader \in [pc : LoaderPcs, lines : Seq(Line)]
  /\ appender.pc \in AppenderPcs
  /\ legacy \in Nat
  /\ \A r \in acked : IsRecord(r)

DiskInv ==
  /\ forced <= Size(file) /\ 2 * legacy <= forced
  /\ file.bare => file.lines # <<>> /\ file.fragment = "none"
  /\ Settled \/ LastIsNew
  /\ file.fragment = "torn" => Settled
  /\ ~Named => RecordsAt(file.lines) = {} /\ legacy = 0

\* The directories of the path: without orphans only those this process made are
\* not on stable storage, and none once it has flushed them.
PathInv ==
  /\ lacking \in Nat /\ boundary \in Nat /\ unforced \subseteq Nat
  /\ lacking > 0 => 0 \in unforced /\ file = NoFile /\ ~loaded /\ boundary = 0
  /\ lacking > 0 => loader.pc \in Early
  /\ unforced # {} => legacy = 0
  /\ loader.pc = "install" => dirEnsured
  /\ ~OrphanDirs => unforced \subseteq 0..boundary
  /\ ~OrphanDirs /\ dirEnsured => unforced = {}

\* What the reads answer from.
ServeInv ==
  Serving =>
    /\ Named
    /\ ~Malformed(file.lines, schedule) /\ ~HasGap(Rebuilt(file.lines))
    /\ view = Rebuilt(PrefixLines)
    /\ appender.pc = "sync" \/ (Settled /\ Clean)
    /\ loader.pc = "idle" \/ appender.pc = "join"

LoaderInv ==
  /\ loader.pc \in {"repair", "terminate", "stamp"} => loader.lines = file.lines
  /\ loader.pc \in {"repair", "terminate", "stamp", "dir", "install"} =>
       ~Malformed(loader.lines, schedule)
  /\ loader.pc \in {"dir", "install"} =>
       loader.lines = file.lines \/ file.lines = Append(loader.lines, Header(schedule))
  /\ loader.pc \in {"terminate", "stamp", "dir", "install"} => Settled
  /\ loader.pc = "terminate" => file.fragment # "torn"
  /\ loader.pc \in {"stamp", "dir", "install"} => Clean
  /\ loader.pc = "install" => Named

\* A record being appended is in no line, or it is the line its index says.
AtItsEnd(r) ==
  \A i \in DOMAIN Rebuilt(file.lines)[r.bucket] :
    keyOf(Rebuilt(file.lines)[r.bucket][i]) = keyOf(r) =>
      Rebuilt(file.lines)[r.bucket][i] = r /\ i = r.index + 1

AppenderInv ==
  /\ appender.pc = "ready" => appender = [pc |-> "ready", req |-> appender.req] /\ appender.req \in Requests
  /\ appender.pc \in Holding =>
       /\ \E d \in Requests, i \in Nat : appender.rec = recordOf(d, i)
       /\ AtItsEnd(appender.rec)
  /\ appender.pc = "open" =>
       /\ Serving /\ loader.pc = "idle"
       /\ Extends(file.lines, appender.rec)
  /\ appender.pc = "sync" =>
       /\ Serving /\ loader.pc = "idle"
       /\ appender.whole \in BOOLEAN
       /\ appender.whole => Clean /\ LastIsNew /\ file.lines[Len(file.lines)] = appender.rec
  /\ appender.pc = "close" =>
       /\ appender.durable \in BOOLEAN
       /\ appender.durable => /\ Serving /\ loader.pc = "idle" /\ Settled
                              /\ AtItsLeaf(Rebuilt(PrefixLines), appender.rec)
  /\ appender.pc = "retry" => appender = [pc |-> "retry", rec |-> appender.rec]
  /\ appender.pc = "join" => loader.pc # "idle"

AckedAtTheirLeaf == \A r \in acked : AtItsLeaf(Rebuilt(PrefixLines), r)

StoreInv ==
  /\ TypeInv /\ PathInv /\ DiskInv /\ ServeInv /\ LoaderInv /\ AppenderInv
  /\ ~OrphanDirs => AckedAtTheirLeaf
  /\ StaysLoadable

-----------------------------------------------------------------------------
(* Ranks in a finite strict order: they are 0 to the number of elements     *)
(* minus one, each taken once.                                              *)

Below(E, R, e) == {f \in E : <<f, e>> \in R}

Orders(R, E) ==
  /\ \A e \in E : <<e, e>> \notin R
  /\ \A e, f, g \in E : <<e, f>> \in R /\ <<f, g>> \in R => <<e, g>> \in R
  /\ \A e, f \in E : e # f => <<e, f>> \in R \/ <<f, e>> \in R

LEMMA RankBounds ==
  ASSUME NEW E, IsFiniteSet(E), NEW R, Orders(R, E)
  PROVE  /\ Cardinality(E) \in Nat
         /\ \A e \in E : Cardinality(Below(E, R, e)) \in 0..Cardinality(E) - 1
         /\ \A e, f \in E : <<e, f>> \in R => Cardinality(Below(E, R, e)) < Cardinality(Below(E, R, f))
<1>1. \A e \in E : Below(E, R, e) \in SUBSET E /\ IsFiniteSet(Below(E, R, e))
  BY FS_Subset DEF Below
<1>2. Cardinality(E) \in Nat /\ \A e \in E : Cardinality(Below(E, R, e)) \in Nat
  BY <1>1, FS_CardinalityType
<1>3. ASSUME NEW e \in E PROVE Cardinality(Below(E, R, e)) < Cardinality(E)
  <2>1. Below(E, R, e) # E
    BY DEF Below, Orders
  <2>2. QED
    BY <1>1, <1>2, <2>1, FS_Subset
<1>4. ASSUME NEW e \in E, NEW f \in E, <<e, f>> \in R
      PROVE  Cardinality(Below(E, R, e)) < Cardinality(Below(E, R, f))
  <2>1. Below(E, R, e) \in SUBSET Below(E, R, f)
    BY <1>4 DEF Below, Orders
  <2>2. Below(E, R, e) # Below(E, R, f)
    BY <1>4 DEF Below, Orders
  <2>3. /\ Cardinality(Below(E, R, e)) <= Cardinality(Below(E, R, f))
        /\ Cardinality(Below(E, R, f)) = Cardinality(Below(E, R, e)) => Below(E, R, f) = Below(E, R, e)
    BY <1>1, <2>1, FS_Subset
  <2>4. QED
    BY <1>2, <2>2, <2>3
<1>5. QED
  BY <1>2, <1>3, <1>4

LEMMA RankUnique ==
  ASSUME NEW E, IsFiniteSet(E), NEW R, Orders(R, E), NEW e \in E, NEW f \in E,
         Cardinality(Below(E, R, e)) = Cardinality(Below(E, R, f))
  PROVE  e = f
<1>1. SUFFICES ASSUME e # f PROVE FALSE
  OBVIOUS
<1>2. <<e, f>> \in R \/ <<f, e>> \in R
  BY <1>1 DEF Orders
<1>3. \/ Cardinality(Below(E, R, e)) < Cardinality(Below(E, R, f))
      \/ Cardinality(Below(E, R, f)) < Cardinality(Below(E, R, e))
  BY <1>2, RankBounds
<1>4. Cardinality(Below(E, R, e)) \in Int /\ Cardinality(Below(E, R, f)) \in Int
  BY RankBounds
<1>5. QED
  BY <1>3, <1>4

LEMMA RankTaken ==
  ASSUME NEW E, IsFiniteSet(E), NEW R, Orders(R, E), NEW n \in 1..Cardinality(E)
  PROVE  \E e \in E : Cardinality(Below(E, R, e)) = n - 1
<1> DEFINE rank == [e \in E |-> Cardinality(Below(E, R, e))]
           N == Cardinality(E)
<1>1. N \in Nat /\ rank \in [E -> 0..N - 1]
  BY RankBounds
<1>2. \A e, f \in E : rank[e] = rank[f] => e = f
  BY RankUnique
<1>3. rank \in Injection(E, 0..N - 1)
  BY <1>1, <1>2 DEF Injection, IsInjective
<1>4. IsFiniteSet(0..N - 1) /\ Cardinality(0..N - 1) = N
  <2>1. 0 \in Int /\ N - 1 \in Int
    BY <1>1
  <2>2. /\ IsFiniteSet(0..N - 1)
        /\ Cardinality(0..N - 1) = IF 0 > N - 1 THEN 0 ELSE (N - 1) - 0 + 1
    BY <2>1, FS_Interval
  <2>3. QED
    BY <1>1, <2>2
<1>5. rank \in Surjection(E, 0..N - 1)
  BY <1>3, <1>4, FS_Injection
<1>6. n - 1 \in 0..N - 1
  BY <1>1
<1>7. QED
  BY <1>5, <1>6 DEF Surjection

(* A finite non-empty set of numbers has a first and a last one. *)
LEMMA FirstAndLast ==
  ASSUME NEW S, S \subseteq Nat, IsFiniteSet(S), S # {}
  PROVE  /\ First(S) \in S /\ \A j \in S : First(S) <= j
         /\ Last(S) \in S /\ \A j \in S : Last(S) >= j
<1> DEFINE N == Cardinality(S)
<1>1. N \in Nat /\ N # 0
  BY FS_CardinalityType, FS_EmptySet
<1>2. ASSUME NEW R, Orders(R, S)
      PROVE  \E i \in S : \A j \in S : j # i => <<i, j>> \in R
  <2>1. PICK i \in S : Cardinality(Below(S, R, i)) = 0
    <3>1. 1 \in 1..N
      BY <1>1
    <3>2. \E i \in S : Cardinality(Below(S, R, i)) = 1 - 1
      BY <1>2, <3>1, RankTaken
    <3>3. QED
      BY <3>2
  <2>2. Below(S, R, i) = {}
    BY <2>1, FS_Subset, FS_EmptySet DEF Below
  <2>3. QED
    BY <1>2, <2>2 DEF Orders, Below
<1> DEFINE Up == {p \in S \X S : p[1] < p[2]}
           Down == {p \in S \X S : p[1] > p[2]}
<1>3. \E i \in S : \A j \in S : i <= j
  <2>1. Orders(Up, S)
    BY DEF Orders
  <2>2. PICK i \in S : \A j \in S : j # i => <<i, j>> \in Up
    BY <1>2, <2>1
  <2>3. \A j \in S : j # i => i < j
    BY <2>2
  <2>4. \A j \in S : i \in Int /\ j \in Int
    OBVIOUS
  <2>5. QED
    BY <2>3, <2>4
<1>4. \E i \in S : \A j \in S : i >= j
  <2>1. Orders(Down, S)
    BY DEF Orders
  <2>2. PICK i \in S : \A j \in S : j # i => <<i, j>> \in Down
    BY <1>2, <2>1
  <2>3. \A j \in S : j # i => i > j
    BY <2>2
  <2>4. \A j \in S : i \in Int /\ j \in Int
    OBVIOUS
  <2>5. QED
    BY <2>3, <2>4
<1>5. QED
  BY <1>3, <1>4 DEF First, Last

LEMMA Alone ==
  ASSUME NEW m \in Nat
  PROVE  First({m}) = m /\ Last({m}) = m
<1>1. IsFiniteSet({m}) /\ {m} \subseteq Nat
  BY FS_Singleton
<1>2. First({m}) \in {m} /\ Last({m}) \in {m}
  BY <1>1, FirstAndLast
<1>3. QED
  BY <1>2

-----------------------------------------------------------------------------
(* The index rebuilt from lines: which records it holds.                   *)

LEMMA LineFacts ==
  ASSUME NEW r \in Line, r.kind = "record"
  PROVE  IsRecord(r)
<1>1. CASE r \in OldLines
  <2>1. PICK f \in InitialFiles : \E i \in DOMAIN f.lines : r = f.lines[i]
    BY <1>1 DEF OldLines
  <2>2. QED
    BY <2>1, FilesAssumption DEF RecordsAt, IsRecord
<1>2. CASE r = Junk \/ \E s \in Schedules : r = Header(s)
  BY <1>2 DEF Junk, Header
<1>3. CASE \E d \in Requests, i \in Nat : r = recordOf(d, i)
  BY <1>3, ConstantsAssumption DEF recordOf, IsRecord
<1>4. QED
  BY <1>1, <1>2, <1>3 DEF Line

Place(lines, k) == [at |-> First(LinesOf(lines, k)), rec |-> lines[Last(LinesOf(lines, k))]]
RecordsOf(lines, b) == {j \in RecordsAt(lines) : lines[j].bucket = b}
Keys(lines, b) == {keyOf(lines[i]) : i \in RecordsOf(lines, b)}

LEMMA CollapsedIs ==
  ASSUME NEW lines, NEW b
  PROVE  Collapsed(lines, b) = {Place(lines, k) : k \in Keys(lines, b)}
  BY DEF Collapsed, Place, Keys, RecordsOf

LEMMA PlaceFacts ==
  ASSUME NEW lines \in Seq(Line), NEW b, NEW k \in Keys(lines, b)
  PROVE  /\ First(LinesOf(lines, k)) \in LinesOf(lines, k)
         /\ Last(LinesOf(lines, k)) \in LinesOf(lines, k)
         /\ LinesOf(lines, k) \subseteq 1..Len(lines)
         /\ Place(lines, k).rec \in Line /\ Place(lines, k).rec.kind = "record"
         /\ keyOf(Place(lines, k).rec) = k /\ Place(lines, k).rec.bucket = b
<1>1. DOMAIN lines = 1..Len(lines) /\ Len(lines) \in Nat
  OBVIOUS
<1>2. LinesOf(lines, k) \subseteq 1..Len(lines)
  BY <1>1 DEF LinesOf, RecordsAt
<1>3. IsFiniteSet(LinesOf(lines, k))
  <2>1. IsFiniteSet(1..Len(lines))
    BY <1>1, FS_Interval
  <2>2. QED
    BY <1>2, <2>1, FS_Subset
<1>4. LinesOf(lines, k) # {}
  BY DEF LinesOf, Keys, RecordsOf
<1>5. /\ First(LinesOf(lines, k)) \in LinesOf(lines, k)
      /\ Last(LinesOf(lines, k)) \in LinesOf(lines, k)
  <2>1. LinesOf(lines, k) \subseteq Nat
    BY <1>1, <1>2
  <2>2. QED
    BY <1>3, <1>4, <2>1, FirstAndLast
<1>6. k[1] = b
  BY DEF Keys, RecordsOf, keyOf
<1>7. \A i \in LinesOf(lines, k) : /\ lines[i] \in Line /\ lines[i].kind = "record"
                                   /\ keyOf(lines[i]) = k /\ lines[i].bucket = b
  BY <1>1, <1>6 DEF LinesOf, RecordsAt, keyOf
<1>8. QED
  BY <1>2, <1>5, <1>7 DEF Place

InOrder(E) == {p \in E \X E : Before(p[1], p[2])}

LEMMA CollapsedOrder ==
  ASSUME NEW lines \in Seq(Line), NEW b
  PROVE  /\ IsFiniteSet(Collapsed(lines, b))
         /\ Orders(InOrder(Collapsed(lines, b)), Collapsed(lines, b))
<1> DEFINE E == Collapsed(lines, b)
           J == RecordsOf(lines, b)
           place == [j \in J |-> Place(lines, keyOf(lines[j]))]
<1>1. IsFiniteSet(J)
  <2>1. J \in SUBSET (1..Len(lines)) /\ Len(lines) \in Nat
    BY DEF RecordsOf, RecordsAt
  <2>2. IsFiniteSet(1..Len(lines))
    BY <2>1, FS_Interval
  <2>3. QED
    BY <2>1, <2>2, FS_Subset
<1>2. place \in Surjection(J, E)
  BY CollapsedIs DEF Keys, Surjection
<1>3. IsFiniteSet(E)
  BY <1>1, <1>2, FS_Surjection
<1>4. \A e \in E : /\ e.at \in Nat /\ e.rec.index \in Nat
                   /\ \E k \in Keys(lines, b) : e = Place(lines, k) /\ e.at \in LinesOf(lines, k)
  <2> SUFFICES ASSUME NEW e \in E
               PROVE  /\ e.at \in Nat /\ e.rec.index \in Nat
                      /\ \E k \in Keys(lines, b) : e = Place(lines, k) /\ e.at \in LinesOf(lines, k)
    OBVIOUS
  <2>1. PICK k \in Keys(lines, b) : e = Place(lines, k)
    BY CollapsedIs
  <2>2. e.at \in LinesOf(lines, k) /\ LinesOf(lines, k) \subseteq 1..Len(lines)
    BY <2>1, PlaceFacts DEF Place
  <2>3. e.rec \in Line /\ e.rec.kind = "record"
    BY <2>1, PlaceFacts
  <2>4. QED
    BY <2>1, <2>2, <2>3, LineFacts DEF IsRecord
<1>5. ASSUME NEW e \in E, NEW f \in E, e.at = f.at PROVE e = f
  BY <1>4, <1>5 DEF LinesOf
<1> HIDE DEF E
<1>6. Orders(InOrder(E), E)
  <2>1. \A e, f \in E : <<e, f>> \in InOrder(E) <=> Before(e, f)
    BY DEF InOrder
  <2>2. \A e \in E : ~Before(e, e)
    BY <1>4 DEF Before
  <2>3. \A e, f, g \in E : Before(e, f) /\ Before(f, g) => Before(e, g)
    BY <1>4 DEF Before
  <2>4. \A e, f \in E : e # f => Before(e, f) \/ Before(f, e)
    BY <1>4, <1>5 DEF Before
  <2>5. QED
    BY <2>1, <2>2, <2>3, <2>4 DEF Orders
<1>7. QED
  BY <1>3, <1>6 DEF E

\* The elements of E with n - 1 others before them.
Ranked(E, n) == {e \in E : Cardinality({f \in E : Before(f, e)}) = n - 1}

LEMMA LeafOrderFacts ==
  ASSUME NEW E, IsFiniteSet(E), Orders(InOrder(E), E)
  PROVE  /\ Cardinality(E) \in Nat /\ DOMAIN LeafOrder(E) = 1..Cardinality(E)
         /\ \A n \in 1..Cardinality(E) : \E e \in Ranked(E, n) : LeafOrder(E)[n] = e.rec
         /\ \A e \in E : \E n \in 1..Cardinality(E) : LeafOrder(E)[n] = e.rec
<1> DEFINE first(n) == CHOOSE e \in E : Cardinality({f \in E : Before(f, e)}) = n - 1
<1>1. LeafOrder(E) = [n \in 1..Cardinality(E) |-> first(n).rec]
  BY DEF LeafOrder
<1>2. \A e \in E : {f \in E : Before(f, e)} = Below(E, InOrder(E), e)
  BY DEF Below, InOrder
<1>3. Cardinality(E) \in Nat
  BY RankBounds
<1>4. ASSUME NEW n \in 1..Cardinality(E) PROVE first(n) \in Ranked(E, n)
  <2>1. PICK e \in E : Cardinality(Below(E, InOrder(E), e)) = n - 1
    BY RankTaken
  <2>2. Cardinality({f \in E : Before(f, e)}) = n - 1
    BY <1>2, <2>1
  <2>3. QED
    BY <2>2 DEF Ranked
<1> HIDE DEF first
<1>5. \A n \in 1..Cardinality(E) : LeafOrder(E)[n] = first(n).rec
  BY <1>1
<1>6. ASSUME NEW e \in E PROVE \E n \in 1..Cardinality(E) : LeafOrder(E)[n] = e.rec
  <2> DEFINE n == Cardinality(Below(E, InOrder(E), e)) + 1
  <2>1. Cardinality(Below(E, InOrder(E), e)) \in 0..Cardinality(E) - 1
    BY RankBounds
  <2>2. n \in 1..Cardinality(E)
        /\ Cardinality(Below(E, InOrder(E), e)) = n - 1
    BY <1>3, <2>1
  <2> HIDE DEF n
  <2>3. first(n) \in E /\ Cardinality({f \in E : Before(f, first(n))}) = n - 1
    BY <1>4, <2>2 DEF Ranked
  <2>4. Cardinality(Below(E, InOrder(E), first(n))) = n - 1
    BY <1>2, <2>3
  <2>5. first(n) = e
    BY <2>2, <2>3, <2>4, RankUnique
  <2>6. QED
    BY <1>5, <2>2, <2>5
<1>7. QED
  BY <1>1, <1>3, <1>4, <1>5, <1>6

Chosen(E, n) == CHOOSE e \in E : Cardinality({f \in E : Before(f, e)}) = n - 1

\* Two sets give the same leaf at n when the same elements have the rank.
LEMMA SameRank ==
  ASSUME NEW E, NEW F, NEW n, Ranked(E, n) = Ranked(F, n)
  PROVE  Chosen(E, n) = Chosen(F, n)
<1>1. \A e : e \in E /\ Cardinality({f \in E : Before(f, e)}) = n - 1
               <=> e \in F /\ Cardinality({f \in F : Before(f, e)}) = n - 1
  BY DEF Ranked
<1>2. QED
  BY <1>1 DEF Chosen

LEMMA RebuiltFacts ==
  ASSUME NEW lines \in Seq(Line), NEW b \in Buckets
  PROVE  /\ Rebuilt(lines)[b] = LeafOrder(Collapsed(lines, b))
         /\ Rebuilt(lines)[b] \in Seq(Line)
         /\ Len(Rebuilt(lines)[b]) = Cardinality(Collapsed(lines, b))
         /\ \A n \in 1..Len(Rebuilt(lines)[b]) :
              /\ Rebuilt(lines)[b][n].bucket = b /\ Rebuilt(lines)[b][n].index \in Nat
              /\ \E i \in RecordsAt(lines) : lines[i] = Rebuilt(lines)[b][n]
         /\ \A i \in RecordsAt(lines) : lines[i].bucket = b =>
              \E n \in 1..Len(Rebuilt(lines)[b]) : keyOf(Rebuilt(lines)[b][n]) = keyOf(lines[i])
<1> DEFINE E == Collapsed(lines, b)
           leaves == LeafOrder(E)
<1>1. Rebuilt(lines)[b] = leaves
  BY DEF Rebuilt
<1>2. IsFiniteSet(E) /\ Orders(InOrder(E), E)
  BY CollapsedOrder
<1>3. \A e \in E : \E k \in Keys(lines, b) : e = Place(lines, k)
  BY CollapsedIs
<1>4. \A k \in Keys(lines, b) : Place(lines, k) \in E
  BY CollapsedIs
<1> HIDE DEF E
<1>5. /\ Cardinality(E) \in Nat /\ DOMAIN leaves = 1..Cardinality(E)
      /\ \A n \in 1..Cardinality(E) : \E e \in E : leaves[n] = e.rec
      /\ \A e \in E : \E n \in 1..Cardinality(E) : leaves[n] = e.rec
  BY <1>2, LeafOrderFacts DEF Ranked
<1>6. leaves = [n \in 1..Cardinality(E) |-> leaves[n]]
  BY <1>5 DEF LeafOrder
<1> HIDE DEF leaves
<1>7. ASSUME NEW n \in 1..Cardinality(E)
      PROVE  /\ leaves[n] \in Line /\ leaves[n].bucket = b /\ leaves[n].index \in Nat
             /\ \E i \in RecordsAt(lines) : lines[i] = leaves[n]
  <2>1. PICK k \in Keys(lines, b) : leaves[n] = Place(lines, k).rec
    BY <1>3, <1>5
  <2>2. /\ Last(LinesOf(lines, k)) \in RecordsAt(lines)
        /\ leaves[n] = lines[Last(LinesOf(lines, k))]
    BY <2>1, PlaceFacts DEF Place, LinesOf
  <2>3. leaves[n] \in Line /\ leaves[n].kind = "record" /\ leaves[n].bucket = b
    BY <2>1, PlaceFacts
  <2>4. IsRecord(leaves[n])
    BY <2>3, LineFacts
  <2>5. QED
    BY <2>2, <2>3, <2>4 DEF IsRecord
<1>8. leaves \in Seq(Line) /\ Len(leaves) = Cardinality(E)
  BY <1>5, <1>6, <1>7
<1>9. ASSUME NEW i \in RecordsAt(lines), lines[i].bucket = b
      PROVE  \E n \in 1..Cardinality(E) : keyOf(leaves[n]) = keyOf(lines[i])
  <2>1. keyOf(lines[i]) \in Keys(lines, b)
    BY <1>9 DEF Keys, RecordsOf
  <2>2. PICK n \in 1..Cardinality(E) : leaves[n] = Place(lines, keyOf(lines[i])).rec
    BY <1>4, <1>5, <2>1
  <2>3. QED
    BY <2>1, <2>2, PlaceFacts
<1>10. QED
  BY <1>1, <1>7, <1>8, <1>9 DEF E, leaves

(* Lines that are no records do not matter. *)
LEMMA SameRecords ==
  ASSUME NEW P \in Seq(Line), NEW Q \in Seq(Line), RecordsAt(P) = RecordsAt(Q),
         \A i \in RecordsAt(P) : P[i] = Q[i]
  PROVE  Rebuilt(P) = Rebuilt(Q)
<1>1. \A k : LinesOf(P, k) = LinesOf(Q, k)
  BY DEF LinesOf
<1>2. ASSUME NEW b PROVE Collapsed(P, b) = Collapsed(Q, b)
  <2>1. RecordsOf(P, b) = RecordsOf(Q, b)
    BY DEF RecordsOf
  <2>2. Keys(P, b) = Keys(Q, b)
    BY <2>1 DEF Keys, RecordsOf
  <2>3. ASSUME NEW k \in Keys(P, b) PROVE Place(P, k) = Place(Q, k)
    <3>1. Last(LinesOf(P, k)) \in LinesOf(P, k)
      BY PlaceFacts
    <3>2. Last(LinesOf(P, k)) \in RecordsAt(P)
      BY <3>1 DEF LinesOf
    <3>3. QED
      BY <1>1, <3>2 DEF Place
  <2>4. QED
    BY <2>2, <2>3, CollapsedIs
<1>3. QED
  BY <1>2 DEF Rebuilt

LEMMA IsASequence ==
  ASSUME NEW n \in Nat, NEW T, NEW f, f = [i \in 1..n |-> f[i]], \A i \in 1..n : f[i] \in T
  PROVE  f \in Seq(T) /\ Len(f) = n
  OBVIOUS

LEMMA AppendIs ==
  ASSUME NEW T, NEW s \in Seq(T), NEW v \in T, NEW t \in Seq(T),
         Len(t) = Len(s) + 1, t[Len(s) + 1] = v, \A i \in 1..Len(s) : t[i] = s[i]
  PROVE  t = Append(s, v)
  OBVIOUS

(* An element after all others takes the place after theirs. *)
LEMMA LastInOrder ==
  ASSUME NEW E, NEW x, IsFiniteSet(E), Orders(InOrder(E), E), x \notin E,
         Orders(InOrder(E \cup {x}), E \cup {x}),
         \A e \in E : Before(e, x)
  PROVE  LeafOrder(E \cup {x}) = Append(LeafOrder(E), x.rec)
<1> DEFINE F == E \cup {x}
           N == Cardinality(E)
<1>1. N \in Nat /\ IsFiniteSet(F) /\ Cardinality(F) = N + 1
  BY FS_CardinalityType, FS_AddElement
<1>2. ~Before(x, x) /\ \A e \in E : ~Before(x, e)
  BY DEF Orders, InOrder
<1>3. \A e \in E : {f \in F : Before(f, e)} = {f \in E : Before(f, e)}
  BY <1>2
<1>4. {f \in F : Before(f, x)} = E
  BY <1>2
<1>5. ASSUME NEW n \in 1..N PROVE Ranked(F, n) = Ranked(E, n)
  <2>1. Cardinality({f \in F : Before(f, x)}) # n - 1
    <3>1. N # n - 1
      BY <1>1
    <3>2. QED
      BY <1>4, <3>1
  <2>2. QED
    BY <1>3, <2>1 DEF Ranked
<1>6. ASSUME NEW e \in E PROVE e \notin Ranked(F, N + 1)
  <2>1. Below(E, InOrder(E), e) = {f \in F : Before(f, e)}
    BY <1>3 DEF Below, InOrder
  <2>2. Cardinality(Below(E, InOrder(E), e)) \in 0..N - 1
    BY RankBounds
  <2>3. Cardinality({f \in F : Before(f, e)}) # (N + 1) - 1
    BY <1>1, <2>1, <2>2
  <2>4. QED
    BY <2>3 DEF Ranked
<1>7. /\ DOMAIN LeafOrder(E) = 1..N
      /\ DOMAIN LeafOrder(F) = 1..N + 1
      /\ \E e \in Ranked(F, N + 1) : LeafOrder(F)[N + 1] = e.rec
  <2>1. DOMAIN LeafOrder(E) = 1..N
    BY LeafOrderFacts
  <2>2. /\ DOMAIN LeafOrder(F) = 1..Cardinality(F)
        /\ \A n \in 1..Cardinality(F) : \E e \in Ranked(F, n) : LeafOrder(F)[n] = e.rec
    BY <1>1, LeafOrderFacts
  <2>3. N + 1 \in 1..Cardinality(F)
    BY <1>1
  <2>4. \E e \in Ranked(F, N + 1) : LeafOrder(F)[N + 1] = e.rec
    BY <2>2, <2>3
  <2>5. QED
    BY <1>1, <2>1, <2>2, <2>4
<1>8. LeafOrder(F)[N + 1] = x.rec
  BY <1>6, <1>7 DEF Ranked
<1>9. ASSUME NEW n \in 1..N PROVE LeafOrder(F)[n] = LeafOrder(E)[n]
  <2>1. n \in 1..Cardinality(F)
    BY <1>1
  <2>2. LeafOrder(F)[n] = Chosen(F, n).rec /\ LeafOrder(E)[n] = Chosen(E, n).rec
    BY <2>1 DEF LeafOrder, Chosen
  <2>3. QED
    BY <1>5, <2>2, SameRank
<1>10. QED
  <2>1. LeafOrder(E) = [n \in 1..N |-> LeafOrder(E)[n]]
    BY <1>7 DEF LeafOrder
  <2>2. LeafOrder(F) = [n \in 1..N + 1 |-> LeafOrder(F)[n]]
    BY <1>1, <1>7 DEF LeafOrder
  <2> DEFINE T == {LeafOrder(F)[n] : n \in 1..N + 1}
  <2>3. \A n \in 1..N : n \in 1..N + 1
    BY <1>1
  <2>a. \A n \in 1..N + 1 : LeafOrder(F)[n] \in T
    OBVIOUS
  <2> HIDE DEF F, N, T
  <2>4. LeafOrder(E) \in Seq(T) /\ Len(LeafOrder(E)) = N
    BY <1>1, <1>9, <2>1, <2>3, <2>a, IsASequence
  <2>5. LeafOrder(F) \in Seq(T) /\ Len(LeafOrder(F)) = N + 1
    BY <1>1, <2>2, <2>a, IsASequence
  <2>6. N + 1 \in 1..N + 1
    BY <1>1
  <2>7. x.rec \in T
    BY <1>8, <2>6, <2>a
  <2>8. LeafOrder(F) = Append(LeafOrder(E), x.rec)
    BY <1>8, <1>9, <2>4, <2>5, <2>7, AppendIs
  <2>9. QED
    BY <2>8 DEF F

(* A record of a new key and of no lower index goes to the end of its bucket. *)
LEMMA AppendRecord ==
  ASSUME NEW P \in Seq(Line), NEW r \in Line, r.kind = "record",
         \A i \in RecordsAt(P) : P[i].bucket = r.bucket => keyOf(P[i]) # keyOf(r),
         \A n \in DOMAIN Rebuilt(P)[r.bucket] : Rebuilt(P)[r.bucket][n].index <= r.index
  PROVE  Rebuilt(Append(P, r)) = [Rebuilt(P) EXCEPT ![r.bucket] = Append(@, r)]
<1> DEFINE Q == Append(P, r)
           L == Len(P)
           k0 == keyOf(r)
           x == [at |-> L + 1, rec |-> r]
<1>1. L \in Nat /\ Q \in Seq(Line) /\ DOMAIN P = 1..L /\ DOMAIN Q = 1..L + 1
      /\ Q[L + 1] = r /\ \A i \in 1..L : Q[i] = P[i]
  OBVIOUS
<1>2. IsRecord(r)
  BY LineFacts
<1>3. RecordsAt(Q) = RecordsAt(P) \cup {L + 1}
  BY <1>1 DEF RecordsAt
<1>4. \A i \in RecordsAt(P) : i \in 1..L /\ Q[i] = P[i] /\ keyOf(P[i]) # k0
  BY <1>1 DEF RecordsAt, keyOf
<1> HIDE DEF Q, L, x
<1>5. ASSUME NEW k, k # k0 PROVE LinesOf(Q, k) = LinesOf(P, k)
  BY <1>1, <1>3, <1>4, <1>5 DEF LinesOf
<1>6. LinesOf(Q, k0) = {L + 1}
  BY <1>1, <1>3, <1>4 DEF LinesOf
<1>7. ASSUME NEW b, NEW k \in Keys(P, b) PROVE k # k0 /\ Place(Q, k) = Place(P, k)
  <2>1. k # k0
    BY <1>4 DEF Keys, RecordsOf
  <2>2. Last(LinesOf(P, k)) \in LinesOf(P, k)
    BY PlaceFacts
  <2>3. Last(LinesOf(P, k)) \in RecordsAt(P)
    BY <2>2 DEF LinesOf
  <2>4. QED
    BY <1>4, <1>5, <2>1, <2>3 DEF Place
<1>8. Place(Q, k0) = x
  <2>1. L + 1 \in Nat
    BY <1>1
  <2>2. First({L + 1}) = L + 1 /\ Last({L + 1}) = L + 1
    BY <2>1, Alone
  <2>3. QED
    BY <1>1, <1>6, <2>2 DEF Place, x
<1>9. ASSUME NEW b PROVE Keys(Q, b) = Keys(P, b) \cup (IF b = r.bucket THEN {k0} ELSE {})
  <2>1. RecordsOf(Q, b) = RecordsOf(P, b) \cup (IF b = r.bucket THEN {L + 1} ELSE {})
    BY <1>1, <1>3, <1>4 DEF RecordsOf
  <2>2. \A i \in RecordsOf(P, b) : Q[i] = P[i]
    BY <1>4 DEF RecordsOf
  <2>3. QED
    BY <1>1, <2>1, <2>2 DEF Keys
<1>10. ASSUME NEW b PROVE Collapsed(Q, b) = Collapsed(P, b) \cup (IF b = r.bucket THEN {x} ELSE {})
  BY <1>7, <1>8, <1>9, CollapsedIs
<1> DEFINE E == Collapsed(P, r.bucket)
<1>11. \A e \in E : e.at \in 1..L /\ e.rec.index \in Nat /\ e.rec.index <= r.index
  <2> SUFFICES ASSUME NEW e \in E PROVE e.at \in 1..L /\ e.rec.index \in Nat /\ e.rec.index <= r.index
    OBVIOUS
  <2>1. PICK k \in Keys(P, r.bucket) : e = Place(P, k)
    BY CollapsedIs
  <2>2. e.at \in 1..L
    BY <2>1, PlaceFacts DEF Place, L
  <2>3. IsFiniteSet(E) /\ Orders(InOrder(E), E)
    BY CollapsedOrder
  <2>4. PICK n \in 1..Cardinality(E) : LeafOrder(E)[n] = e.rec
    BY <2>3, LeafOrderFacts
  <2>5. DOMAIN LeafOrder(E) = 1..Cardinality(E)
    BY <2>3, LeafOrderFacts
  <2>6. Rebuilt(P)[r.bucket] = LeafOrder(E)
    BY <1>2, RebuiltFacts DEF IsRecord
  <2>7. e.rec.index <= r.index
    BY <2>4, <2>5, <2>6
  <2>8. e.rec \in Line /\ e.rec.kind = "record"
    BY <2>1, PlaceFacts
  <2>9. QED
    BY <2>2, <2>7, <2>8, LineFacts DEF IsRecord
<1>12. LeafOrder(Collapsed(Q, r.bucket)) = Append(LeafOrder(E), r)
  <2>1. Collapsed(Q, r.bucket) = E \cup {x}
    BY <1>10
  <2>2. IsFiniteSet(E) /\ Orders(InOrder(E), E)
    BY CollapsedOrder
  <2>3. Orders(InOrder(E \cup {x}), E \cup {x})
    <3>1. Orders(InOrder(Collapsed(Q, r.bucket)), Collapsed(Q, r.bucket))
      BY <1>1, CollapsedOrder
    <3>2. QED
      BY <2>1, <3>1
  <2>4. x \notin E /\ \A e \in E : Before(e, x)
    BY <1>1, <1>2, <1>11 DEF Before, x, IsRecord
  <2>5. x.rec = r
    BY DEF x
  <2> HIDE DEF E
  <2>6. QED
    BY <2>1, <2>2, <2>3, <2>4, <2>5, LastInOrder
<1>13. \A b : b # r.bucket => Collapsed(Q, b) = Collapsed(P, b)
  BY <1>10
<1>14. QED
  BY <1>12, <1>13 DEF Rebuilt, Q

LEMMA AppendOther ==
  ASSUME NEW P \in Seq(Line), NEW r \in Line, r.kind # "record"
  PROVE  Rebuilt(Append(P, r)) = Rebuilt(P) /\ RecordsAt(Append(P, r)) = RecordsAt(P)
<1>1. /\ Append(P, r) \in Seq(Line) /\ DOMAIN P = 1..Len(P) /\ DOMAIN Append(P, r) = 1..Len(P) + 1
      /\ Append(P, r)[Len(P) + 1] = r /\ \A i \in 1..Len(P) : Append(P, r)[i] = P[i]
      /\ Len(P) \in Nat
  OBVIOUS
<1>2. RecordsAt(Append(P, r)) = RecordsAt(P)
  BY <1>1 DEF RecordsAt
<1>3. \A i \in RecordsAt(P) : P[i] = Append(P, r)[i]
  BY <1>1 DEF RecordsAt
<1>4. QED
  BY <1>1, <1>2, <1>3, SameRecords

LEMMA PrefixOf ==
  ASSUME NEW lines \in Seq(Line), NEW n \in 0..Len(lines),
         \A m \in n + 1..Len(lines) : m \notin RecordsAt(lines)
  PROVE  Rebuilt(SubSeq(lines, 1, n)) = Rebuilt(lines)
<1> DEFINE P == SubSeq(lines, 1, n)
<1>1. /\ P \in Seq(Line) /\ DOMAIN P = 1..n /\ DOMAIN lines = 1..Len(lines) /\ Len(lines) \in Nat
      /\ \A i \in 1..n : P[i] = lines[i]
  OBVIOUS
<1> HIDE DEF P
<1>2. RecordsAt(P) = RecordsAt(lines)
  BY <1>1 DEF RecordsAt
<1>3. \A i \in RecordsAt(P) : P[i] = lines[i]
  BY <1>1 DEF RecordsAt
<1>4. QED
  BY <1>1, <1>2, <1>3, SameRecords DEF P

-----------------------------------------------------------------------------
(* Types.                                                                  *)

LEMMA LineMembers ==
  /\ Junk \in Line /\ Junk.kind # "record"
  /\ \A s \in Schedules : Header(s) \in Line /\ Header(s).kind = "schedule" /\ Header(s).schedule = s
  /\ \A d \in Requests, i \in Nat :
       /\ recordOf(d, i) \in Line /\ recordOf(d, i).kind = "record"
       /\ recordOf(d, i).bucket = d.bucket /\ recordOf(d, i).index = i
       /\ keyOf(recordOf(d, i)) = keyOf(d) /\ recordOf(d, i).decl = d.decl
       /\ d.bucket \in Buckets
<1>1. \A d \in Requests : d.bucket \in Buckets
  BY ConstantsAssumption
<1>2. Junk \in Line /\ \A s \in Schedules : Header(s) \in Line
  BY DEF Line
<1>3. \A d \in Requests, i \in Nat : recordOf(d, i) \in Line
  BY DEF Line
<1>4. Junk.kind # "record" /\ \A s : Header(s).kind = "schedule" /\ Header(s).schedule = s
  BY DEF Junk, Header
<1>5. \A d, i : /\ recordOf(d, i).kind = "record" /\ recordOf(d, i).bucket = d.bucket
                /\ recordOf(d, i).index = i /\ recordOf(d, i).decl = d.decl
                /\ keyOf(recordOf(d, i)) = keyOf(d)
  BY DEF recordOf, keyOf
<1>6. QED
  BY <1>1, <1>2, <1>3, <1>4, <1>5

(* Writing a line after clean lines. *)
LEMMA WrittenClean ==
  ASSUME NEW f, NEW line, NEW extent \in Extents, ~f.bare, f.fragment # "torn"
  PROVE  /\ extent = "nothing" => Written(f, line, extent) = f
         /\ extent = "part" => Written(f, line, extent) = [lines |-> f.lines, bare |-> FALSE, fragment |-> "torn"]
         /\ extent = "text" =>
              Written(f, line, extent) = [lines |-> Append(f.lines, line), bare |-> TRUE, fragment |-> "none"]
         /\ extent = "line" =>
              Written(f, line, extent) = [lines |-> Append(f.lines, line), bare |-> FALSE, fragment |-> "none"]
  BY DEF Written, Extents

LEMMA SizeFacts ==
  ASSUME TypeInv
  PROVE  /\ Len(file.lines) \in Nat
         /\ Size(file) = IF file.bare THEN 2 * Len(file.lines) - 1 ELSE 2 * Len(file.lines)
         /\ DiskInv => Size(file) \in Nat
  BY DEF TypeInv, DiskInv, Size

LEMMA ForcedFacts ==
  ASSUME TypeInv, DiskInv
  PROVE  /\ ForcedCount \in 0..Len(file.lines) /\ legacy \in 0..ForcedCount
         /\ PrefixLines = SubSeq(file.lines, 1, ForcedCount)
         /\ PrefixLines \in Seq(Line)
<1>1. ForcedCount \in 0..Len(file.lines) /\ legacy \in 0..ForcedCount
  BY SizeFacts DEF TypeInv, DiskInv, ForcedCount
<1>2. PrefixLines = SubSeq(file.lines, 1, ForcedCount)
  BY DEF PrefixLines, ForcedCount
<1>3. QED
  BY <1>1, <1>2 DEF TypeInv

LEMMA SyncedFacts ==
  ASSUME TypeInv
  PROVE  /\ Synced(file).lines = file.lines /\ Synced(file).bare = file.bare
         /\ Synced(file).fragment \in {"none", "torn"}
         /\ Synced(file).fragment = "torn" <=> file.fragment = "torn"
         /\ Synced(file) = [lines |-> file.lines, bare |-> file.bare, fragment |-> Synced(file).fragment]
         /\ Truncated(file) = [lines |-> file.lines, bare |-> file.bare, fragment |-> "cut"]
  BY DEF TypeInv, Synced, Truncated

\* What a process keeps of its types beside the disk.
ProcessTypes ==
  /\ schedule \in Schedules
  /\ loaded \in BOOLEAN /\ stale \in BOOLEAN /\ unbarriered \in BOOLEAN
  /\ loader \in [pc : LoaderPcs, lines : Seq(Line)]
  /\ appender.pc \in AppenderPcs
  /\ \A r \in acked : IsRecord(r)

DiskTypes ==
  /\ file.lines \in Seq(Line) /\ file.bare \in BOOLEAN /\ file.fragment \in {"none", "torn", "cut"}
  /\ file = [lines |-> file.lines, bare |-> file.bare, fragment |-> file.fragment]
  /\ forced \in Nat /\ legacy \in Nat

LEMMA TypeParts == (TypeInv <=> ProcessTypes /\ DiskTypes) /\ (TypeInv' <=> ProcessTypes' /\ DiskTypes')
  BY DEF TypeInv, ProcessTypes, DiskTypes

LEMMA RejectTypes ==
  ASSUME ProcessTypes, RejectLoad
  PROVE  ProcessTypes' /\ UNCHANGED legacy
<1>1. <<>> \in Seq(Line) /\ "idle" \in LoaderPcs /\ "idle" \in AppenderPcs
  BY DEF LoaderPcs, AppenderPcs
<1>2. loader' \in [pc : LoaderPcs, lines : Seq(Line)]
  BY <1>1 DEF RejectLoad
<1>3. appender'.pc \in AppenderPcs
  BY <1>1 DEF RejectLoad, ProcessTypes, Idle
<1>4. stale' \in BOOLEAN
  BY DEF RejectLoad, ProcessTypes
<1>5. QED
  BY <1>2, <1>3, <1>4 DEF RejectLoad, ProcessTypes, history

LEMMA NewProcessTypes ==
  ASSUME NewProcess, UNCHANGED history, ProcessTypes
  PROVE  ProcessTypes' /\ UNCHANGED legacy
<1>1. loader' \in [pc : LoaderPcs, lines : Seq(Line)]
  BY DEF NewProcess, LoaderPcs
<1>2. appender'.pc \in AppenderPcs
  BY DEF NewProcess, Idle, AppenderPcs
<1>3. QED
  BY <1>1, <1>2 DEF NewProcess, ProcessTypes, history

LEMMA LoaderMoves ==
  ASSUME ProcessTypes, NEW p \in LoaderPcs, loader' = [loader EXCEPT !.pc = p],
         UNCHANGED <<schedule, appender, acked>>,
         UNCHANGED loaded \/ loaded' = TRUE, UNCHANGED <<stale, unbarriered>>
  PROVE  ProcessTypes'
<1>1. loader' \in [pc : LoaderPcs, lines : Seq(Line)]
  BY DEF ProcessTypes
<1>2. QED
  BY <1>1 DEF ProcessTypes

LEMMA LandedTypes ==
  ASSUME StoreInv, loader.pc = "install", appender.pc = "join"
  PROVE  \A r \in Landed(Rebuilt(loader.lines)) : IsRecord(r)
<1>1. PICK d \in Requests, i \in Nat : appender.rec = recordOf(d, i)
  BY DEF StoreInv, AppenderInv, Holding
<1>2. appender.rec.bucket \in Buckets /\ loader.lines \in Seq(Line)
  BY <1>1, LineMembers DEF StoreInv, TypeInv
<1>3. \A n \in 1..Len(Rebuilt(loader.lines)[appender.rec.bucket]) :
        IsRecord(Rebuilt(loader.lines)[appender.rec.bucket][n])
  BY <1>2, RebuiltFacts DEF IsRecord
<1>4. DOMAIN Rebuilt(loader.lines)[appender.rec.bucket] = 1..Len(Rebuilt(loader.lines)[appender.rec.bucket])
  BY <1>2, RebuiltFacts
<1>5. QED
  BY <1>3, <1>4 DEF Landed

LEMMA LoadTypes ==
  ASSUME StoreInv, LoadStep \/ LoadFails \/ MkdirFails \/ DirFails \/ Call
  PROVE  ProcessTypes' /\ UNCHANGED legacy
<1>1. ProcessTypes
  BY TypeParts DEF StoreInv
<1>2. CASE Call
  <2>1. /\ \E p \in LoaderPcs : loader' = [loader EXCEPT !.pc = p]
        /\ UNCHANGED <<schedule, appender, acked, loaded, stale, unbarriered, legacy>>
    BY <1>2 DEF Call, LoaderPcs, flags, history
  <2>2. QED
    BY <1>1, <2>1, LoaderMoves
<1>3. CASE LoadBarrier
  <2>1. /\ loader' = [loader EXCEPT !.pc = "mkdir"] /\ "mkdir" \in LoaderPcs
        /\ UNCHANGED <<schedule, appender, acked, loaded, stale, unbarriered, legacy>>
    BY <1>3 DEF LoadBarrier, LoaderPcs, flags, history
  <2>2. QED
    BY <1>1, <2>1, LoaderMoves
<1>4. CASE LoadRead
  <2>1. CASE RejectLoad
    BY <1>1, <2>1, RejectTypes
  <2>2. CASE loader' = [pc |-> "repair", lines |-> file.lines] /\ UNCHANGED <<schedule, flags, view, appender, history, trouble>>
    <3>1. loader' \in [pc : LoaderPcs, lines : Seq(Line)]
      BY <2>2 DEF LoaderPcs, StoreInv, TypeInv
    <3>2. QED
      BY <1>1, <2>2, <3>1 DEF ProcessTypes, flags, history
  <2>3. QED
    BY <1>4, <2>1, <2>2 DEF LoadRead
<1>5. CASE LoadRepair
  <2>1. /\ \E p \in LoaderPcs : loader' = [loader EXCEPT !.pc = p]
        /\ UNCHANGED <<schedule, appender, acked, loaded, stale, unbarriered, legacy>>
    BY <1>5 DEF LoadRepair, LoaderPcs, flags, history
  <2>2. QED
    BY <1>1, <2>1, LoaderMoves
<1>6. CASE LoadTerminate
  <2>1. \/ RejectLoad
        \/ /\ \E p \in LoaderPcs : loader' = [loader EXCEPT !.pc = p]
           /\ UNCHANGED <<schedule, appender, acked, loaded, stale, unbarriered, legacy>>
    BY <1>6 DEF LoadTerminate, LoaderPcs, flags, history
  <2>2. QED
    BY <1>1, <2>1, LoaderMoves, RejectTypes
<1>7. CASE LoadStamp
  <2>1. \/ RejectLoad
        \/ /\ \E p \in LoaderPcs : loader' = [loader EXCEPT !.pc = p]
           /\ UNCHANGED <<schedule, appender, acked, loaded, stale, unbarriered, legacy>>
    BY <1>7 DEF LoadStamp, LoaderPcs, flags, history
  <2>2. QED
    BY <1>1, <2>1, LoaderMoves, RejectTypes
<1>8. CASE LoadDir
  <2>1. /\ \E p \in LoaderPcs : loader' = [loader EXCEPT !.pc = p]
        /\ UNCHANGED <<schedule, appender, acked, loaded, stale, unbarriered, legacy>>
    BY <1>8 DEF LoadDir, LoaderPcs, history
  <2>2. QED
    BY <1>1, <2>1, LoaderMoves
<1>9. CASE LoadInstall
  <2>1. CASE RejectLoad
    BY <1>1, <2>1, RejectTypes
  <2>2. CASE ~RejectLoad
    <3>1. /\ loaded' = TRUE /\ stale' = FALSE /\ unbarriered' = FALSE
          /\ loader' = [pc |-> "idle", lines |-> <<>>] /\ UNCHANGED <<schedule, legacy>>
          /\ SettleAppend(Rebuilt(loader.lines))
      BY <1>9, <2>2 DEF LoadInstall
    <3>2. loader' \in [pc : LoaderPcs, lines : Seq(Line)]
      BY <3>1 DEF LoaderPcs
    <3>3. appender'.pc \in AppenderPcs
      BY <1>1, <3>1 DEF SettleAppend, Idle, AppenderPcs, ProcessTypes
    <3>4. \A r \in acked' : IsRecord(r)
      <4>1. acked' = acked \/ (appender.pc = "join" /\ acked' = acked \cup Landed(Rebuilt(loader.lines)))
        BY <3>1 DEF SettleAppend
      <4>2. loader.pc = "install"
        BY <1>9 DEF LoadInstall
      <4>3. QED
        BY <1>1, <4>1, <4>2, LandedTypes DEF ProcessTypes
    <3>5. schedule' \in Schedules
      BY <1>1, <3>1 DEF ProcessTypes
    <3>6. QED
      BY <3>1, <3>2, <3>3, <3>4, <3>5 DEF ProcessTypes, IsRecord
  <2>3. QED
    BY <2>1, <2>2
<1>10. CASE LoadFails \/ MkdirFails \/ DirFails
  BY <1>1, <1>10, RejectTypes DEF LoadFails, MkdirFails, DirFails
<1>11. CASE LoadMkdir
  <2>1. /\ loader' = [loader EXCEPT !.pc = "read"] /\ "read" \in LoaderPcs
        /\ UNCHANGED <<schedule, appender, acked, loaded, stale, unbarriered, legacy>>
    BY <1>11 DEF LoadMkdir, MakePath, LoaderPcs, history
  <2>2. QED
    BY <1>1, <2>1, LoaderMoves
<1>12. QED
  BY <1>2, <1>3, <1>4, <1>5, <1>6, <1>7, <1>8, <1>9, <1>10, <1>11 DEF LoadStep

LEMMA AppendTypes ==
  ASSUME StoreInv, AppendStep \/ OpenFails \/ RetryFails \/ (\E d \in Requests : BeginAppend(d))
  PROVE  ProcessTypes' /\ UNCHANGED legacy
<1>1. ProcessTypes
  BY TypeParts DEF StoreInv
<1>2. ASSUME appender'.pc \in AppenderPcs, UNCHANGED <<schedule, loaded, legacy, acked>>,
             UNCHANGED loader \/ \E p \in LoaderPcs : loader' = [loader EXCEPT !.pc = p],
             UNCHANGED <<stale, unbarriered>> \/ (stale' = TRUE /\ unbarriered' = TRUE)
      PROVE  ProcessTypes' /\ UNCHANGED legacy
  <2>1. loader' \in [pc : LoaderPcs, lines : Seq(Line)]
    BY <1>1, <1>2 DEF ProcessTypes
  <2>2. QED
    BY <1>1, <1>2, <2>1 DEF ProcessTypes
<1>3. CASE \E d \in Requests : BeginAppend(d)
  BY <1>2, <1>3 DEF BeginAppend, flags, history, AppenderPcs
<1>4. CASE CheckAppend
  BY <1>2, <1>4 DEF CheckAppend, flags, history, AppenderPcs, Idle
<1>5. CASE WriteRecord
  BY <1>2, <1>5 DEF WriteRecord, flags, history, AppenderPcs
<1>6. CASE SyncRecord
  BY <1>2, <1>6 DEF SyncRecord, flags, history, AppenderPcs
<1>7. CASE WriteFails \/ CatchWrite \/ OpenFails
  <2>1. /\ appender'.pc \in AppenderPcs /\ stale' = TRUE /\ unbarriered' = TRUE
        /\ UNCHANGED <<schedule, loaded, loader, acked, legacy>>
    <3>1. CASE WriteFails
      BY <3>1 DEF WriteFails, mark, history, AppenderPcs
    <3>2. CASE CatchWrite
      BY <3>2 DEF CatchWrite, mark, history, AppenderPcs
    <3>3. CASE OpenFails
      BY <3>3 DEF OpenFails, mark, history, AppenderPcs
    <3>4. QED
      BY <1>7, <3>1, <3>2, <3>3
  <2>2. QED
    BY <1>2, <2>1
<1>8. CASE RetryFails
  BY <1>2, <1>8 DEF RetryFails, flags, history, AppenderPcs, Idle
<1>9. CASE RetryBarrier
  <2>1. appender'.pc = "join"
    BY <1>9 DEF RetryBarrier, StoreInv, AppenderInv
  <2>2. UNCHANGED loader \/ \E p \in LoaderPcs : loader' = [loader EXCEPT !.pc = p]
    BY <1>9 DEF RetryBarrier, LoaderPcs
  <2>3. QED
    BY <1>2, <1>9, <2>1, <2>2 DEF RetryBarrier, flags, history, AppenderPcs
<1>10. CASE CloseRecord
  <2>1. /\ acked' = acked \cup {appender.rec} /\ appender' = Idle
        /\ UNCHANGED <<schedule, loaded, stale, unbarriered, loader, legacy>>
    BY <1>10 DEF CloseRecord, flags
  <2>2. IsRecord(appender.rec)
    BY <1>10, LineMembers DEF CloseRecord, StoreInv, AppenderInv, Holding, IsRecord
  <2>3. \A r \in acked' : IsRecord(r)
    BY <1>1, <2>1, <2>2 DEF ProcessTypes
  <2>4. appender'.pc \in AppenderPcs
    BY <2>1 DEF Idle, AppenderPcs
  <2>5. QED
    BY <1>1, <2>1, <2>3, <2>4 DEF ProcessTypes, IsRecord
<1>11. QED
  BY <1>3, <1>4, <1>5, <1>6, <1>7, <1>8, <1>9, <1>10 DEF AppendStep

(* Every write finds clean lines. *)
LEMMA WritesClean ==
  ASSUME StoreInv
  PROVE  /\ appender.pc = "open" => Clean /\ Settled
         /\ loader.pc = "stamp" => Clean /\ Settled
         /\ appender.pc \in Holding => appender.rec \in Line /\ appender.rec.kind = "record"
<1>1. appender.pc = "open" => Clean /\ Settled
  BY DEF StoreInv, AppenderInv, ServeInv
<1>2. loader.pc = "stamp" => Clean /\ Settled
  BY DEF StoreInv, LoaderInv
<1>3. appender.pc \in Holding => appender.rec \in Line /\ appender.rec.kind = "record"
  BY LineMembers DEF StoreInv, AppenderInv
<1>4. QED
  BY <1>1, <1>2, <1>3

WrittenTypes(f) ==
  /\ f.lines \in Seq(Line) /\ f.bare \in BOOLEAN /\ f.fragment \in {"none", "torn", "cut"}
  /\ f = [lines |-> f.lines, bare |-> f.bare, fragment |-> f.fragment]

LEMMA WrittenType ==
  ASSUME TypeInv, Clean, NEW line \in Line, NEW extent \in Extents
  PROVE  WrittenTypes(Written(file, line, extent)) /\ Size(Written(file, line, extent)) \in Nat
<1>1. \/ Written(file, line, extent) = file /\ ~file.bare
      \/ Written(file, line, extent) = [lines |-> file.lines, bare |-> FALSE, fragment |-> "torn"]
      \/ Written(file, line, extent) = [lines |-> Append(file.lines, line), bare |-> TRUE, fragment |-> "none"]
      \/ Written(file, line, extent) = [lines |-> Append(file.lines, line), bare |-> FALSE, fragment |-> "none"]
  BY WrittenClean DEF Clean, Extents
<1>2. Append(file.lines, line) \in Seq(Line) /\ file.lines \in Seq(Line)
      /\ Len(Append(file.lines, line)) = Len(file.lines) + 1 /\ Len(file.lines) \in Nat
  BY DEF TypeInv
<1>3. WrittenTypes(file)
  BY DEF TypeInv, WrittenTypes
<1>4. WrittenTypes(Written(file, line, extent))
  <2>1. \A s \in Seq(Line), bare \in BOOLEAN, fragment \in {"none", "torn"} :
          WrittenTypes([lines |-> s, bare |-> bare, fragment |-> fragment])
    BY DEF WrittenTypes
  <2>2. QED
    BY <1>1, <1>2, <1>3, <2>1
<1>5. /\ ~Written(file, line, extent).bare => Size(Written(file, line, extent)) = 2 * Len(Written(file, line, extent).lines)
      /\ Written(file, line, extent).bare => Size(Written(file, line, extent)) = 2 * Len(Written(file, line, extent).lines) - 1
  BY <1>4 DEF Size, WrittenTypes
<1>6. Len(Written(file, line, extent).lines) \in Nat
      /\ (Written(file, line, extent).bare => Len(Written(file, line, extent).lines) > 0)
  BY <1>1, <1>2
<1>7. QED
  BY <1>4, <1>5, <1>6 DEF WrittenTypes

LEMMA DiskTypeNext ==
  ASSUME StoreInv, [Next]_vars, UNCHANGED legacy
  PROVE  DiskTypes'
<1>1. DiskTypes /\ WrittenTypes(file) /\ TypeInv /\ DiskInv
  BY TypeParts DEF StoreInv, DiskTypes, WrittenTypes
<1>2. /\ Size(file) \in Nat
      /\ WrittenTypes(Synced(file)) /\ WrittenTypes(Truncated(file))
  BY <1>1, SizeFacts, SyncedFacts DEF WrittenTypes
<1>3. ASSUME WrittenTypes(file'), forced' \in Nat PROVE DiskTypes'
  BY <1>1, <1>3 DEF WrittenTypes, DiskTypes
<1>4. CASE LoadBarrier \/ LoadRepair \/ SyncRecord \/ RetryBarrier
  BY <1>1, <1>2, <1>3, <1>4 DEF LoadBarrier, LoadRepair, SyncRecord, RetryBarrier, DiskTypes
<1>5. CASE LoadTerminate
  <2>1. file' = [lines |-> file.lines, bare |-> FALSE, fragment |-> file.fragment]
    BY <1>1, <1>5 DEF LoadTerminate, WrittenTypes
  <2>2. WrittenTypes(file') /\ Size(file') \in Nat
    BY <1>1, <2>1 DEF WrittenTypes, Size
  <2>3. QED
    BY <1>1, <1>3, <1>5, <2>2 DEF LoadTerminate, DiskTypes
<1>6. CASE LoadStamp
  <2>1. \/ UNCHANGED disk
        \/ /\ \E extent \in Extents : file' = Written(file, Header(schedule), extent)
           /\ forced' = Size(file') \/ UNCHANGED forced
    BY <1>6 DEF LoadStamp, Extents
  <2>2. Header(schedule) \in Line /\ Clean
    BY <1>1, <1>6, LineMembers, WritesClean DEF LoadStamp, TypeInv
  <2>3. CASE UNCHANGED disk
    BY <1>1, <1>3, <2>3 DEF disk, DiskTypes
  <2>4. CASE /\ \E extent \in Extents : file' = Written(file, Header(schedule), extent)
             /\ forced' = Size(file') \/ UNCHANGED forced
    <3>1. WrittenTypes(file') /\ Size(file') \in Nat
      BY <1>1, <2>2, <2>4, WrittenType
    <3>2. QED
      BY <1>1, <1>3, <2>4, <3>1 DEF DiskTypes
  <2>5. QED
    BY <2>1, <2>3, <2>4
<1>7. CASE WriteRecord
  <2>1. Clean /\ appender.rec \in Line
    BY <1>7, WritesClean DEF WriteRecord, Holding
  <2>2. WrittenTypes(file') /\ UNCHANGED forced
    BY <1>1, <1>7, <2>1, WrittenType DEF WriteRecord
  <2>3. QED
    BY <1>1, <1>3, <2>2 DEF DiskTypes
<1>8. CASE LoadDir \/ LoadMkdir \/ MkdirFails \/ DirFails \/ Call
  <2>1. UNCHANGED <<file, forced>>
    BY <1>8 DEF LoadDir, LoadMkdir, MakePath, MkdirFails, DirFails, Call
  <2>2. QED
    BY <1>1, <2>1 DEF DiskTypes
<1>9. CASE PowerLoss
  <2>1. forced' = Size(file')
    BY <1>9 DEF PowerLoss
  <2>2. ASSUME file' = NoFile PROVE WrittenTypes(file') /\ Size(file') \in Nat
    BY <2>2 DEF NoFile, WrittenTypes, Size
  <2>3. ASSUME file' \in Survivors(file, forced) PROVE WrittenTypes(file') /\ Size(file') \in Nat
    <3>1. /\ \E n \in 0..Len(file.lines) : file'.lines = SubSeq(file.lines, 1, n)
          /\ file'.bare \in BOOLEAN /\ file'.fragment \in {"none", "torn"}
          /\ file' = [lines |-> file'.lines, bare |-> file'.bare, fragment |-> file'.fragment]
          /\ Size(file') \in forced..Size(file)
      BY <2>3 DEF Survivors
    <3>2. file'.lines \in Seq(Line)
      BY <1>1, <3>1 DEF TypeInv
    <3>3. Size(file') \in Nat
      BY <1>1, <1>2, <3>1 DEF TypeInv
    <3>4. QED
      BY <3>1, <3>2, <3>3 DEF WrittenTypes
  <2>4. file' = NoFile \/ file' \in Survivors(file, forced)
    BY <1>9, Zenon DEF PowerLoss
  <2>5. QED
    BY <1>3, <2>1, <2>2, <2>3, <2>4
<1>10. CASE UNCHANGED disk
  BY <1>1, <1>3, <1>10 DEF disk, DiskTypes
<1>11. QED
  <2>1. CASE (\E d \in Requests : BeginAppend(d)) \/ TroubleEnds \/ Kill \/ UNCHANGED vars
    BY <1>10, <2>1 DEF BeginAppend, TroubleEnds, Kill, vars
  <2>2. CASE LoadRead \/ LoadInstall \/ LoadFails \/ CheckAppend \/ OpenFails \/ WriteFails \/ CloseRecord
             \/ CatchWrite \/ RetryFails
    BY <1>10, <2>2 DEF LoadRead, LoadInstall, LoadFails, CheckAppend, OpenFails, WriteFails,
       CloseRecord, CatchWrite, RetryFails
  <2>3. QED
    BY <1>4, <1>5, <1>6, <1>7, <1>8, <1>9, <2>1, <2>2 DEF Next, LoadStep, AppendStep, Fault

LEMMA TypeNext ==
  ASSUME StoreInv, [Next]_vars
  PROVE  TypeInv' /\ UNCHANGED legacy
<1>1. ProcessTypes
  BY TypeParts DEF StoreInv
<1>2. CASE LoadStep \/ LoadFails \/ MkdirFails \/ DirFails \/ Call
  BY <1>2, LoadTypes, DiskTypeNext, TypeParts
<1>3. CASE AppendStep \/ OpenFails \/ RetryFails \/ (\E d \in Requests : BeginAppend(d))
  BY <1>3, AppendTypes, DiskTypeNext, TypeParts
<1>4. CASE Kill \/ PowerLoss
  <2>1. NewProcess /\ UNCHANGED history
    BY <1>4 DEF Kill, PowerLoss
  <2>2. ProcessTypes' /\ UNCHANGED legacy
    BY <1>1, <2>1, NewProcessTypes
  <2>3. QED
    BY <2>2, DiskTypeNext, TypeParts
<1>5. CASE TroubleEnds \/ UNCHANGED vars
  <2>1. ProcessTypes' /\ UNCHANGED legacy
    BY <1>1, <1>5 DEF TroubleEnds, vars, flags, history, ProcessTypes, IsRecord
  <2>2. QED
    BY <2>1, DiskTypeNext, TypeParts
<1>6. QED
  BY <1>2, <1>3, <1>4, <1>5 DEF Next, Fault

-----------------------------------------------------------------------------
(* What the disk holds beyond the forced lines.                            *)

Grows(old, new) ==
  \A b \in Buckets : Len(old[b]) <= Len(new[b]) /\ SubSeq(new[b], 1, Len(old[b])) = old[b]

LEMMA RebuiltType ==
  ASSUME NEW lines \in Seq(Line)
  PROVE  Rebuilt(lines) \in [Buckets -> Seq(Line)]
<1>1. \A b \in Buckets : Rebuilt(lines)[b] \in Seq(Line)
  BY RebuiltFacts
<1>2. Rebuilt(lines) = [b \in Buckets |-> Rebuilt(lines)[b]]
  BY DEF Rebuilt
<1>3. QED
  BY <1>1, <1>2

LEMMA GrowsSame ==
  ASSUME NEW index \in [Buckets -> Seq(Line)]
  PROVE  Grows(index, index)
  BY DEF Grows

LEMMA GrowsAtEnd ==
  ASSUME NEW index \in [Buckets -> Seq(Line)], NEW c \in Buckets, NEW r \in Line
  PROVE  Grows(index, [index EXCEPT ![c] = Append(@, r)])
<1>1. ASSUME NEW s \in Seq(Line) PROVE Len(s) <= Len(Append(s, r)) /\ SubSeq(Append(s, r), 1, Len(s)) = s
                                     /\ Len(s) <= Len(s) /\ SubSeq(s, 1, Len(s)) = s
  OBVIOUS
<1>2. QED
  BY <1>1 DEF Grows

LEMMA GrowsKeepLeaf ==
  ASSUME NEW old \in [Buckets -> Seq(Line)], NEW new \in [Buckets -> Seq(Line)], Grows(old, new),
         NEW r, IsRecord(r), AtItsLeaf(old, r)
  PROVE  AtItsLeaf(new, r)
<1> DEFINE s == old[r.bucket]
           t == new[r.bucket]
<1>1. s \in Seq(Line) /\ t \in Seq(Line) /\ Len(s) <= Len(t) /\ SubSeq(t, 1, Len(s)) = s
  BY DEF IsRecord, Grows
<1>2. r.index \in Nat /\ r.index < Len(s) /\ sameRegistrationRecord(s[r.index + 1], r)
  BY DEF IsRecord, AtItsLeaf
<1> HIDE DEF s, t
<1>3. r.index + 1 \in 1..Len(s) /\ r.index < Len(t)
  BY <1>1, <1>2
<1>4. \A i \in 1..Len(s) : SubSeq(t, 1, Len(s))[i] = t[i]
  BY <1>1
<1>5. t[r.index + 1] = s[r.index + 1]
  BY <1>1, <1>3, <1>4
<1>6. QED
  BY <1>2, <1>3, <1>5 DEF AtItsLeaf, s, t

LEMMA ExtendsRebuilt ==
  ASSUME NEW lines \in Seq(Line), NEW r, Extends(lines, r)
  PROVE  /\ r \in Line /\ r.kind = "record" /\ r.bucket \in Buckets
         /\ r.index = Len(Rebuilt(lines)[r.bucket])
         /\ Rebuilt(Append(lines, r)) = [Rebuilt(lines) EXCEPT ![r.bucket] = Append(@, r)]
<1>1. PICK d \in Requests : r = recordOf(d, Len(Rebuilt(lines)[d.bucket]))
  BY DEF Extends
<1>2. Len(Rebuilt(lines)[d.bucket]) \in Nat
  BY LineMembers, RebuiltFacts
<1>3. r \in Line /\ r.kind = "record" /\ r.bucket \in Buckets /\ r.index = Len(Rebuilt(lines)[r.bucket])
  BY <1>1, <1>2, LineMembers
<1>4. Rebuilt(Append(lines, r)) = [Rebuilt(lines) EXCEPT ![r.bucket] = Append(@, r)]
  BY <1>3, AppendRecord DEF Extends
<1>5. QED
  BY <1>3, <1>4

LEMMA SettledRebuilt ==
  ASSUME TypeInv, DiskInv, Settled
  PROVE  Rebuilt(PrefixLines) = Rebuilt(file.lines)
  BY ForcedFacts, PrefixOf DEF Settled, TypeInv

LEMMA PrefixFacts ==
  ASSUME NEW s \in Seq(Line), NEW n \in 0..Len(s)
  PROVE  /\ SubSeq(s, 1, n) \in Seq(Line) /\ Len(SubSeq(s, 1, n)) = n
         /\ \A i \in 1..n : SubSeq(s, 1, n)[i] = s[i]
  OBVIOUS

LEMMA FrontFacts ==
  ASSUME NEW s \in Seq(Line), s # <<>>
  PROVE  /\ Front(s) \in Seq(Line) /\ Len(Front(s)) = Len(s) - 1 /\ s[Len(s)] \in Line
         /\ s = Append(Front(s), s[Len(s)])
         /\ \A n \in 0..Len(s) - 1 : SubSeq(Front(s), 1, n) = SubSeq(s, 1, n)
         /\ \A i \in 1..Len(s) - 1 : Front(s)[i] = s[i]
         /\ RecordsAt(Front(s)) = RecordsAt(s) \ {Len(s)}
<1>1. Len(s) \in Nat /\ Len(s) > 0 /\ s[Len(s)] \in Line
  OBVIOUS
<1>2. Front(s) \in Seq(Line) /\ Len(Front(s)) = Len(s) - 1 /\ \A i \in 1..Len(s) - 1 : Front(s)[i] = s[i]
  <2>1. Len(s) - 1 \in 0..Len(s)
    BY <1>1
  <2>2. /\ SubSeq(s, 1, Len(s) - 1) \in Seq(Line) /\ Len(SubSeq(s, 1, Len(s) - 1)) = Len(s) - 1
        /\ \A i \in 1..Len(s) - 1 : SubSeq(s, 1, Len(s) - 1)[i] = s[i]
    BY <2>1, PrefixFacts
  <2>3. QED
    BY <2>2 DEF Front
<1>3. s = Append(Front(s), s[Len(s)])
  BY <1>1, <1>2, AppendIs
<1>4. ASSUME NEW n \in 0..Len(s) - 1 PROVE SubSeq(Front(s), 1, n) = SubSeq(s, 1, n)
  BY <1>1, <1>2
<1>5. RecordsAt(Front(s)) = RecordsAt(s) \ {Len(s)}
  <2>1. DOMAIN s = 1..Len(s) /\ DOMAIN Front(s) = 1..Len(s) - 1
    BY <1>1, <1>2
  <2>2. QED
    BY <1>1, <1>2, <2>1 DEF RecordsAt
<1>6. QED
  BY <1>1, <1>2, <1>3, <1>4, <1>5

LEMMA NewRebuilt ==
  ASSUME TypeInv, DiskInv, LastIsNew
  PROVE  LET r == file.lines[Len(file.lines)]
         IN  /\ file.lines # <<>>
             /\ Rebuilt(Front(file.lines)) = Rebuilt(PrefixLines)
             /\ r \in Line /\ r.kind = "record" /\ r.bucket \in Buckets
             /\ r.index = Len(Rebuilt(PrefixLines)[r.bucket])
             /\ Rebuilt(file.lines) = [Rebuilt(PrefixLines) EXCEPT ![r.bucket] = Append(@, r)]
<1> DEFINE L == Len(file.lines)
           P == Front(file.lines)
           r == file.lines[L]
<1>1. L \in Nat /\ ForcedCount \in 0..L /\ ForcedCount < L /\ file.lines \in Seq(Line)
  BY SizeFacts, ForcedFacts DEF LastIsNew, TypeInv
<1>2. file.lines # <<>>
  BY <1>1
<1>3. /\ P \in Seq(Line) /\ Len(P) = L - 1 /\ file.lines = Append(P, r)
      /\ SubSeq(P, 1, ForcedCount) = SubSeq(file.lines, 1, ForcedCount)
      /\ RecordsAt(P) = RecordsAt(file.lines) \ {L}
  <2>1. ForcedCount \in 0..L - 1
    BY <1>1
  <2>2. QED
    BY <1>1, <1>2, <2>1, FrontFacts
<1>4. Rebuilt(P) = Rebuilt(PrefixLines)
  <2>1. \A m \in ForcedCount + 1..L - 1 : m \notin RecordsAt(P)
    BY <1>3 DEF LastIsNew
  <2>2. ForcedCount \in 0..Len(P)
    BY <1>1, <1>3
  <2> HIDE DEF P
  <2>3. Rebuilt(SubSeq(P, 1, ForcedCount)) = Rebuilt(P)
    BY <1>3, <2>1, <2>2, PrefixOf
  <2>4. QED
    BY <1>3, <2>3, ForcedFacts
<1>5. Extends(P, r)
  BY DEF LastIsNew
<1> HIDE DEF P, r, L
<1>6. /\ r \in Line /\ r.kind = "record" /\ r.bucket \in Buckets
      /\ r.index = Len(Rebuilt(P)[r.bucket])
      /\ Rebuilt(file.lines) = [Rebuilt(P) EXCEPT ![r.bucket] = Append(@, r)]
  BY <1>3, <1>5, ExtendsRebuilt
<1>7. QED
  BY <1>2, <1>4, <1>6 DEF P, r, L

LEMMA ForcedGrows ==
  ASSUME TypeInv, DiskInv
  PROVE  Grows(Rebuilt(PrefixLines), Rebuilt(file.lines))
<1>1. Rebuilt(PrefixLines) \in [Buckets -> Seq(Line)]
  BY ForcedFacts, RebuiltType
<1>2. CASE Settled
  BY <1>1, <1>2, SettledRebuilt, GrowsSame
<1>3. CASE LastIsNew
  BY <1>1, <1>3, NewRebuilt, GrowsAtEnd
<1>4. QED
  BY <1>2, <1>3 DEF DiskInv

LEMMA CountFacts ==
  ASSUME NEW f, NEW n \in Nat, f.lines \in Seq(Line), f.bare \in BOOLEAN, n <= Size(f)
  PROVE  /\ (n + 1) \div 2 \in 0..Len(f.lines) /\ Len(f.lines) \in Nat
         /\ n = Size(f) => (n + 1) \div 2 = Len(f.lines)
         /\ Size(f) = 2 * Len(f.lines) - (IF f.bare THEN 1 ELSE 0)
<1>1. Len(f.lines) \in Nat
  OBVIOUS
<1>2. Size(f) = 2 * Len(f.lines) - (IF f.bare THEN 1 ELSE 0)
  BY DEF Size
<1>3. QED
  BY <1>1, <1>2

LEMMA SizeOf ==
  ASSUME NEW f, Len(f.lines) \in Nat
  PROVE  /\ ~f.bare => Size(f) = 2 * Len(f.lines)
         /\ f.bare => Size(f) = 2 * Len(f.lines) - 1
<1>1. CASE f.bare
  BY <1>1 DEF Size
<1>2. CASE ~f.bare
  BY <1>2 DEF Size
<1>3. QED
  BY <1>1, <1>2

\* The lines stay, some of them are forced, ended or their torn rest is cut.
SameLines ==
  /\ file'.lines = file.lines /\ (file'.bare => file.bare)
  /\ file'.bare => file'.fragment = "none"
  /\ file'.fragment = "torn" => file.fragment = "torn"
  /\ forced' = forced \/ forced' = Size(file) \/ forced' = Size(file')
  /\ Named => Named'

LEMMA ForcingLines ==
  ASSUME TypeInv, DiskInv, TypeInv', legacy' = legacy, SameLines
  PROVE  /\ ForcedCount' = ForcedCount \/ ForcedCount' = Len(file.lines)
         /\ forced' = forced => ForcedCount' = ForcedCount
         /\ forced' = Size(file) \/ forced' = Size(file') => ForcedCount' = Len(file.lines)
         /\ forced' <= Size(file') /\ forced <= forced'
         /\ Len(file.lines) \in Nat
<1>1. /\ file.lines \in Seq(Line) /\ file.bare \in BOOLEAN /\ forced \in Nat
      /\ file'.lines = file.lines /\ file'.bare \in BOOLEAN /\ forced' \in Nat
      /\ file'.bare => file.bare
  BY DEF TypeInv, SameLines
<1>2. Size(file) <= Size(file') /\ Len(file.lines) \in Nat
      /\ Size(file) = 2 * Len(file.lines) - (IF file.bare THEN 1 ELSE 0)
      /\ Size(file') = 2 * Len(file.lines) - (IF file'.bare THEN 1 ELSE 0)
  BY <1>1 DEF Size
<1>3. forced <= Size(file)
  BY DEF DiskInv
<1>4. forced' = forced \/ forced' = Size(file) \/ forced' = Size(file')
  BY DEF SameLines
<1> DEFINE L == Len(file.lines)
<1>5. /\ ~file.bare => Size(file) = 2 * L
      /\ file.bare => Size(file) = 2 * L - 1
      /\ ~file'.bare => Size(file') = 2 * L
      /\ file'.bare => Size(file') = 2 * L - 1
  <2>1. L \in Nat /\ Len(file'.lines) = L
    BY <1>1, <1>2
  <2>2. Len(file'.lines) \in Nat
    BY <2>1
  <2>3. QED
    BY <2>1, <2>2, SizeOf
<1>6. \A m, l \in Int : (m = 2 * l \/ m = 2 * l - 1) => (m + 1) \div 2 = l
  OBVIOUS
<1>7. Size(file) \in Int /\ Size(file') \in Int /\ L \in Int
  BY <1>2, <1>5
<1>8. forced' = Size(file) \/ forced' = Size(file') => (forced' + 1) \div 2 = L
  <2> HIDE DEF L
  <2>1. \A m \in Int : m = Size(file) \/ m = Size(file') => m = 2 * L \/ m = 2 * L - 1
    BY <1>5
  <2>2. QED
    BY <1>6, <1>7, <2>1
<1>9. forced' <= Size(file') /\ forced <= forced'
  <2>1. Size(file) <= Size(file')
    BY <1>2
  <2>2. QED
    BY <1>1, <1>3, <1>4, <1>7, <2>1
<1>10. QED
  BY <1>2, <1>4, <1>8, <1>9 DEF ForcedCount

LEMMA DiskSame ==
  ASSUME TypeInv, DiskInv, TypeInv', legacy' = legacy, SameLines
  PROVE  /\ DiskInv' /\ Grows(Rebuilt(PrefixLines), Rebuilt(PrefixLines)')
         /\ Settled => Settled' /\ Rebuilt(PrefixLines)' = Rebuilt(PrefixLines)
         /\ forced' = forced => Rebuilt(PrefixLines)' = Rebuilt(PrefixLines) /\ (LastIsNew => LastIsNew')
         /\ forced' = Size(file) \/ forced' = Size(file') =>
              Settled' /\ Rebuilt(PrefixLines)' = Rebuilt(file.lines)
         /\ Rebuilt(file.lines)' = Rebuilt(file.lines)
<1>1. file'.lines = file.lines /\ file.lines \in Seq(Line)
  BY DEF SameLines, TypeInv
<1>2. CASE forced' = forced
  <2>1. ForcedCount' = ForcedCount
    BY <1>2, ForcingLines
  <2>2. PrefixLines' = PrefixLines
    BY <1>1, <1>2 DEF PrefixLines, ForcedCount
  <2>3. (Settled <=> Settled') /\ (LastIsNew <=> LastIsNew')
    BY <1>1, <2>1 DEF Settled, LastIsNew
  <2>4. Rebuilt(PrefixLines)' = Rebuilt(PrefixLines)
    BY <2>2
  <2>5. Settled => Rebuilt(PrefixLines) = Rebuilt(file.lines)
    BY SettledRebuilt
  <2>6. Grows(Rebuilt(PrefixLines), Rebuilt(PrefixLines)')
    BY <2>4, GrowsSame, RebuiltType, ForcedFacts
  <2>7. forced' = Size(file) \/ forced' = Size(file') => Settled
    BY <2>1, ForcingLines DEF Settled
  <2>8. DiskInv'
    BY <1>1, <1>2, <2>3, ForcingLines DEF DiskInv, SameLines
  <2>9. QED
    BY <1>1, <2>3, <2>4, <2>5, <2>6, <2>7, <2>8
<1>3. CASE forced' = Size(file) \/ forced' = Size(file')
  <2>1. ForcedCount' = Len(file.lines) /\ Len(file.lines) \in Nat
    BY <1>3, ForcingLines
  <2>2. Settled'
    BY <1>1, <2>1 DEF Settled
  <2>3. PrefixLines' = file.lines
    <3>1. PrefixLines' = SubSeq(file.lines, 1, Len(file.lines))
      BY <1>1, <2>1 DEF PrefixLines, ForcedCount
    <3>2. QED
      BY <1>1, <3>1
  <2>4. Rebuilt(PrefixLines)' = Rebuilt(file.lines)
    BY <2>3
  <2>5. Settled => Rebuilt(PrefixLines) = Rebuilt(file.lines)
    BY SettledRebuilt
  <2>6. Grows(Rebuilt(PrefixLines), Rebuilt(PrefixLines)')
    BY <2>4, ForcedGrows
  <2>7. forced' = forced => ForcedCount' = ForcedCount
    BY ForcingLines
  <2>8. forced' = forced => Settled
    BY <1>1, <2>2, <2>7 DEF Settled
  <2>9. LastIsNew => ForcedCount # Len(file.lines)
    BY <2>1, ForcedFacts DEF LastIsNew
  <2>10. DiskInv'
    BY <1>1, <1>3, <2>2, ForcingLines DEF DiskInv, SameLines, TypeInv
  <2>11. QED
    BY <1>1, <2>1, <2>2, <2>4, <2>5, <2>6, <2>7, <2>8, <2>9, <2>10
<1>4. QED
  BY <1>2, <1>3 DEF SameLines

-----------------------------------------------------------------------------
(* Lines the loader accepts stay accepted.                                 *)

LEMMA AppendFacts ==
  ASSUME NEW s \in Seq(Line), NEW x \in Line
  PROVE  /\ Append(s, x) \in Seq(Line) /\ Len(Append(s, x)) = Len(s) + 1 /\ Len(s) \in Nat
         /\ Append(s, x) # <<>> /\ Append(s, x)[Len(s) + 1] = x
         /\ \A i \in 1..Len(s) : Append(s, x)[i] = s[i]
         /\ DOMAIN s = 1..Len(s) /\ DOMAIN Append(s, x) = 1..Len(s) + 1
         /\ \A n \in 0..Len(s) : SubSeq(Append(s, x), 1, n) = SubSeq(s, 1, n)
         /\ Front(Append(s, x)) = s
<1>1. /\ Append(s, x) \in Seq(Line) /\ Len(Append(s, x)) = Len(s) + 1 /\ Len(s) \in Nat
      /\ Append(s, x) # <<>> /\ Append(s, x)[Len(s) + 1] = x
      /\ \A i \in 1..Len(s) : Append(s, x)[i] = s[i]
      /\ DOMAIN s = 1..Len(s) /\ DOMAIN Append(s, x) = 1..Len(s) + 1
  OBVIOUS
<1>2. ASSUME NEW n \in 0..Len(s) PROVE SubSeq(Append(s, x), 1, n) = SubSeq(s, 1, n)
  BY <1>1
<1>3. Front(Append(s, x)) = s
  BY <1>1 DEF Front
<1>4. QED
  BY <1>1, <1>2, <1>3

LEMMA PrefixFits ==
  ASSUME NEW lines \in Seq(Line), NEW n \in 0..Len(lines), NEW s, ~Malformed(lines, s)
  PROVE  ~Malformed(SubSeq(lines, 1, n), s)
<1> DEFINE P == SubSeq(lines, 1, n)
<1>1. /\ DOMAIN P = 1..n /\ DOMAIN lines = 1..Len(lines) /\ Len(lines) \in Nat
      /\ \A i \in 1..n : P[i] = lines[i]
  OBVIOUS
<1> HIDE DEF P
<1>2. \A i \in DOMAIN P : i \in DOMAIN lines /\ P[i] = lines[i]
  BY <1>1
<1>3. \A i \in RecordsAt(P) : i \in RecordsAt(lines) /\ P[i] = lines[i]
  BY <1>2 DEF RecordsAt
<1>4. ~Malformed(P, s)
  BY <1>2, <1>3 DEF Malformed
<1>5. QED
  BY <1>4 DEF P

LEMMA HeaderFits ==
  ASSUME NEW lines \in Seq(Line), NEW s \in Schedules
  PROVE  /\ ~Malformed(lines, s) => ~Malformed(Append(lines, Header(s)), s)
         /\ Rebuilt(Append(lines, Header(s))) = Rebuilt(lines)
         /\ RecordsAt(Append(lines, Header(s))) = RecordsAt(lines)
<1> DEFINE Q == Append(lines, Header(s))
<1>1. Header(s) \in Line /\ Header(s).kind = "schedule" /\ Header(s).schedule = s /\ Header(s) # Junk
  BY LineMembers DEF Junk
<1>2. RecordsAt(Q) = RecordsAt(lines) /\ Rebuilt(Q) = Rebuilt(lines)
  BY <1>1, AppendOther
<1>3. \A i \in DOMAIN Q : Q[i] = Header(s) \/ (i \in DOMAIN lines /\ Q[i] = lines[i])
  BY <1>1, AppendFacts
<1>4. \A i \in RecordsAt(lines) : Q[i] = lines[i]
  BY <1>1, AppendFacts DEF RecordsAt
<1> HIDE DEF Q
<1>5. ~Malformed(lines, s) => ~Malformed(Q, s)
  BY <1>1, <1>2, <1>3, <1>4 DEF Malformed
<1>6. QED
  BY <1>2, <1>5 DEF Q

LEMMA RecordFits ==
  ASSUME NEW lines \in Seq(Line), NEW r, Extends(lines, r), NEW s
  PROVE  /\ ~Malformed(lines, s) => ~Malformed(Append(lines, r), s)
         /\ ~HasGap(Rebuilt(lines)) => ~HasGap(Rebuilt(Append(lines, r)))
         /\ ~HasGap(Rebuilt(Append(lines, r))) => ~HasGap(Rebuilt(lines))
<1> DEFINE Q == Append(lines, r)
           L == Len(lines)
           old == Rebuilt(lines)[r.bucket]
<1>1. /\ r \in Line /\ r.kind = "record" /\ r.bucket \in Buckets
      /\ r.index = Len(old)
      /\ Rebuilt(Q) = [Rebuilt(lines) EXCEPT ![r.bucket] = Append(@, r)]
  BY ExtendsRebuilt
<1>2. /\ \A i \in DOMAIN Q : (i = L + 1 /\ Q[i] = r) \/ (i \in DOMAIN lines /\ Q[i] = lines[i])
      /\ \A i \in DOMAIN lines : Q[i] = lines[i]
  BY <1>1, AppendFacts
<1>3. Junk.kind # "record"
  BY LineMembers
<1> HIDE DEF Q, L
<1>4. \A i \in RecordsAt(Q) : Q[i] = r \/ (i \in RecordsAt(lines) /\ Q[i] = lines[i])
  BY <1>2 DEF RecordsAt
<1>5. ASSUME ~Malformed(lines, s) PROVE ~Malformed(Q, s)
  <2>1. \A i \in DOMAIN Q : Q[i] # Junk
    BY <1>1, <1>2, <1>3, <1>5 DEF Malformed
  <2>2. \A i \in DOMAIN Q : Q[i].kind = "schedule" => Q[i].schedule = s
    BY <1>1, <1>2, <1>5 DEF Malformed
  <2>3. ASSUME NEW i \in RecordsAt(Q), NEW j \in RecordsAt(Q), Q[i].bucket = Q[j].bucket
        PROVE  /\ keyOf(Q[i]) = keyOf(Q[j]) => sameRegistrationRecord(Q[i], Q[j])
               /\ Q[i].decl = Q[j].decl
    <3>1. \A k \in RecordsAt(lines) : lines[k].bucket = r.bucket =>
            keyOf(lines[k]) # keyOf(r) /\ lines[k].decl = r.decl
      BY DEF Extends
    <3>2. CASE Q[i] = r /\ Q[j] = r
      BY <3>2 DEF sameRegistrationRecord
    <3>3. CASE (Q[i] = r /\ j \in RecordsAt(lines) /\ Q[j] = lines[j])
               \/ (Q[j] = r /\ i \in RecordsAt(lines) /\ Q[i] = lines[i])
      BY <2>3, <3>1, <3>3
    <3>4. CASE i \in RecordsAt(lines) /\ Q[i] = lines[i] /\ j \in RecordsAt(lines) /\ Q[j] = lines[j]
      BY <1>5, <2>3, <3>4 DEF Malformed
    <3>5. QED
      BY <1>4, <3>2, <3>3, <3>4
  <2>4. QED
    BY <2>1, <2>2, <2>3 DEF Malformed
<1>6. /\ old \in Seq(Line) /\ DOMAIN old = 1..Len(old) /\ Len(old) \in Nat
      /\ DOMAIN Append(old, r) = 1..Len(old) + 1 /\ Len(Append(old, r)) = Len(old) + 1
      /\ Append(old, r)[Len(old) + 1] = r
      /\ \A i \in 1..Len(old) : Append(old, r)[i] = old[i]
  BY <1>1, RebuiltFacts, AppendFacts
<1>7. \A i \in DOMAIN old : old[i].index <= Len(old) /\ old[i].index \in Nat
  <2>1. \A i \in DOMAIN old : old[i].index <= Len(old)
    BY <1>1 DEF Extends
  <2>2. \A i \in 1..Len(old) : old[i].index \in Nat
    BY <1>1, RebuiltFacts
  <2>3. QED
    BY <1>6, <2>1, <2>2
<1>8. /\ Rebuilt(Q)[r.bucket] = Append(old, r)
      /\ \A b \in Buckets : b # r.bucket => Rebuilt(Q)[b] = Rebuilt(lines)[b]
  BY <1>1, RebuiltType
<1> HIDE DEF old
<1>9. (\A i \in DOMAIN Append(old, r) : ~(Append(old, r)[i].index > Len(Append(old, r))))
       /\ \A i \in DOMAIN old : ~(old[i].index > Len(old))
  BY <1>1, <1>6, <1>7
<1>10. ASSUME NEW b \in Buckets
       PROVE  (\E i \in DOMAIN Rebuilt(Q)[b] : Rebuilt(Q)[b][i].index > Len(Rebuilt(Q)[b]))
              <=> (\E i \in DOMAIN Rebuilt(lines)[b] : Rebuilt(lines)[b][i].index > Len(Rebuilt(lines)[b]))
  <2>1. CASE b = r.bucket
    BY <1>8, <1>9, <2>1 DEF old
  <2>2. CASE b # r.bucket
    BY <1>8, <2>2
  <2>3. QED
    BY <2>1, <2>2
<1>11. HasGap(Rebuilt(Q)) <=> HasGap(Rebuilt(lines))
  BY <1>10 DEF HasGap
<1>12. QED
  BY <1>5, <1>11 DEF Q

-----------------------------------------------------------------------------
(* What each write of the file leaves on disk.                             *)

\* The disk keeps its invariant and its leaf order, and a file the loader
\* accepts stays one.
DiskHolds ==
  /\ DiskInv'
  /\ ~OrphanDirs => Grows(Rebuilt(PrefixLines), Rebuilt(PrefixLines)')
  /\ StaysLoadable'

LEMMA LegacyKept ==
  ASSUME TypeInv, DiskInv, legacy' = legacy, StaysLoadable,
         SubSeq(file'.lines, 1, legacy) = SubSeq(file.lines, 1, legacy),
         Loadable(file.lines) => Loadable(file'.lines)
  PROVE  StaysLoadable'
  BY DEF StaysLoadable

LEMMA SameLinesHold ==
  ASSUME TypeInv, DiskInv, TypeInv', legacy' = legacy, StaysLoadable, SameLines
  PROVE  DiskHolds
<1>1. file'.lines = file.lines
  BY DEF SameLines
<1>2. StaysLoadable'
  BY <1>1 DEF StaysLoadable
<1>3. QED
  BY <1>2, DiskSame DEF DiskHolds

LEMMA SettledNext ==
  ASSUME TypeInv', Settled', forced' <= Size(file')
  PROVE  Rebuilt(PrefixLines)' = Rebuilt(file'.lines)
<1>1. file'.lines \in Seq(Line) /\ file'.bare \in BOOLEAN /\ forced' \in Nat
  BY DEF TypeInv
<1>2. ForcedCount' \in 0..Len(file'.lines)
  BY <1>1, CountFacts DEF ForcedCount
<1>3. Rebuilt(SubSeq(file'.lines, 1, ForcedCount')) = Rebuilt(file'.lines)
  BY <1>1, <1>2, PrefixOf DEF Settled
<1>4. QED
  BY <1>3 DEF PrefixLines, ForcedCount

LEMMA SettledWhenForced ==
  ASSUME TypeInv', forced' = Size(file')
  PROVE  Settled' /\ ForcedCount' = Len(file'.lines) /\ Len(file'.lines) \in Nat
<1>1. file'.lines \in Seq(Line) /\ file'.bare \in BOOLEAN /\ forced' \in Nat
  BY DEF TypeInv
<1>2. Size(file') <= Size(file')
  BY <1>1
<1>3. ForcedCount' = Len(file'.lines) /\ Len(file'.lines) \in Nat
  BY <1>1, <1>2, CountFacts DEF ForcedCount
<1>4. QED
  BY <1>3 DEF Settled

(* The schedule header, whole or in part. *)
LEMMA HeaderHolds ==
  ASSUME TypeInv, DiskInv, TypeInv', legacy' = legacy, StaysLoadable, Clean, Settled,
         ~Malformed(file.lines, schedule), Named' = Named,
         NEW extent \in Extents, file' = Written(file, Header(schedule), extent),
         forced' = forced \/ forced' = Size(file')
  PROVE  /\ DiskHolds /\ Settled'
         /\ Rebuilt(file'.lines) = Rebuilt(file.lines)
         /\ Rebuilt(PrefixLines)' = Rebuilt(PrefixLines)
         /\ ~Malformed(file'.lines, schedule)
         /\ extent = "line" => Clean' /\ file'.lines = Append(file.lines, Header(schedule))
<1> DEFINE L == Len(file.lines)
           Q == Append(file.lines, Header(schedule))
<1>1. /\ file.lines \in Seq(Line) /\ L \in Nat /\ forced \in Nat /\ forced' \in Nat
      /\ legacy \in Nat /\ schedule \in Schedules /\ Header(schedule) \in Line
      /\ file'.lines \in Seq(Line) /\ Len(file'.lines) \in Nat
  BY SizeFacts, LineMembers DEF TypeInv
<1>2. \/ file' = file
      \/ file' = [lines |-> file.lines, bare |-> FALSE, fragment |-> "torn"]
      \/ file' = [lines |-> Q, bare |-> TRUE, fragment |-> "none"]
      \/ file' = [lines |-> Q, bare |-> FALSE, fragment |-> "none"]
  BY WrittenClean DEF Clean, Extents
<1>3. file'.lines = file.lines \/ file'.lines = Q
  BY <1>2
<1>4. /\ ~Malformed(Q, schedule) /\ Rebuilt(Q) = Rebuilt(file.lines)
      /\ RecordsAt(Q) = RecordsAt(file.lines)
  BY <1>1, HeaderFits
<1>5. /\ Len(Q) = L + 1 /\ Q # <<>> /\ \A n \in 0..L : SubSeq(Q, 1, n) = SubSeq(file.lines, 1, n)
      /\ DOMAIN file.lines = 1..L
  BY <1>1, AppendFacts
<1> HIDE DEF Q
<1>6. /\ Rebuilt(file'.lines) = Rebuilt(file.lines) /\ ~Malformed(file'.lines, schedule)
      /\ RecordsAt(file'.lines) = RecordsAt(file.lines)
  BY <1>3, <1>4
<1>7. Size(file) = 2 * L /\ Size(file) <= Size(file')
  <2>1. Size(file) = 2 * L
    BY <1>1, SizeOf DEF Clean
  <2>2. CASE file' = file
    BY <1>1, <2>1, <2>2
  <2>3. CASE file' = [lines |-> file.lines, bare |-> FALSE, fragment |-> "torn"]
    BY <1>1, <2>1, <2>3, SizeOf
  <2>4. CASE file' = [lines |-> Q, bare |-> TRUE, fragment |-> "none"]
    <3>1. Size(file') = 2 * (L + 1) - 1
      BY <1>1, <1>5, <2>4, SizeOf
    <3>2. QED
      BY <1>1, <2>1, <3>1
  <2>5. CASE file' = [lines |-> Q, bare |-> FALSE, fragment |-> "none"]
    <3>1. Size(file') = 2 * (L + 1)
      BY <1>1, <1>5, <2>5, SizeOf
    <3>2. QED
      BY <1>1, <2>1, <3>1
  <2>6. QED
    BY <1>2, <2>1, <2>2, <2>3, <2>4, <2>5
<1>8. forced <= forced' /\ forced' <= Size(file')
  <2>1. Size(file') = 2 * Len(file'.lines) \/ Size(file') = 2 * Len(file'.lines) - 1
    BY <1>1, SizeOf
  <2>2. forced <= Size(file) /\ Size(file) \in Int /\ Size(file') \in Int
    BY <1>1, <1>7, <2>1 DEF DiskInv
  <2>3. QED
    BY <1>1, <1>7, <2>2
<1>9. Settled'
  <2>1. CASE forced' = Size(file')
    BY <2>1, SettledWhenForced
  <2>2. CASE forced' = forced
    <3>1. ForcedCount' = ForcedCount
      BY <2>2 DEF ForcedCount
    <3>2. ForcedCount \in 0..L
      BY ForcedFacts
    <3>3. \A n \in ForcedCount + 1..Len(file'.lines) : n \notin RecordsAt(file.lines)
      <4>1. \A n \in RecordsAt(file.lines) : n \in 1..L
        BY <1>5 DEF RecordsAt
      <4>2. QED
        BY <1>1, <3>2, <4>1 DEF Settled
    <3>4. QED
      BY <1>6, <3>1, <3>3 DEF Settled
  <2>3. QED
    BY <2>1, <2>2
<1>10. Rebuilt(PrefixLines)' = Rebuilt(PrefixLines)
  BY <1>6, <1>8, <1>9, SettledNext, SettledRebuilt
<1>11. DiskInv'
  <2>1. 2 * legacy <= forced'
    BY <1>1, <1>8 DEF DiskInv
  <2>2. file'.bare => file'.lines # <<>> /\ file'.fragment = "none"
    BY <1>2, <1>5 DEF DiskInv
  <2>3. QED
    BY <1>6, <1>8, <1>9, <2>1, <2>2 DEF DiskInv
<1>12. StaysLoadable'
  <2>1. SubSeq(file'.lines, 1, legacy) = SubSeq(file.lines, 1, legacy)
    <3>1. legacy \in 0..L
      BY ForcedFacts
    <3>2. QED
      BY <1>3, <1>5, <3>1
  <2>2. Loadable(file.lines) => Loadable(file'.lines)
    BY <1>1, <1>6 DEF Loadable
  <2>3. QED
    BY <2>1, <2>2, LegacyKept
<1>13. Grows(Rebuilt(PrefixLines), Rebuilt(PrefixLines)')
  BY <1>10, GrowsSame, RebuiltType, ForcedFacts
<1>14. extent = "line" => Clean' /\ file'.lines = Q
  <2>1. extent = "line" => file' = [lines |-> Q, bare |-> FALSE, fragment |-> "none"]
    BY WrittenClean DEF Clean, Q
  <2>2. QED
    BY <2>1 DEF Clean
<1>15. QED
  BY <1>6, <1>9, <1>10, <1>11, <1>12, <1>13, <1>14 DEF DiskHolds, Q

(* A record, whole or in part: it is the one line a power loss may take. *)
LEMMA RecordHolds ==
  ASSUME TypeInv, DiskInv, TypeInv', legacy' = legacy, StaysLoadable, Clean, Settled,
         ~Malformed(file.lines, schedule), Named, Named', forced' = forced,
         NEW r, Extends(file.lines, r),
         NEW extent \in Extents, file' = Written(file, r, extent)
  PROVE  /\ DiskHolds
         /\ Rebuilt(PrefixLines)' = Rebuilt(PrefixLines)
         /\ ~Malformed(file'.lines, schedule)
         /\ ~HasGap(Rebuilt(file.lines)) => ~HasGap(Rebuilt(file'.lines))
         /\ file'.lines = file.lines \/ file'.lines = Append(file.lines, r)
         /\ extent = "line" => Clean' /\ LastIsNew' /\ file'.lines = Append(file.lines, r)
<1> DEFINE L == Len(file.lines)
           Q == Append(file.lines, r)
<1>1. /\ file.lines \in Seq(Line) /\ L \in Nat /\ forced \in Nat /\ forced' \in Nat
      /\ legacy \in Nat /\ schedule \in Schedules
      /\ file'.lines \in Seq(Line) /\ Len(file'.lines) \in Nat
  BY SizeFacts DEF TypeInv
<1>2. r \in Line /\ r.kind = "record"
  BY <1>1, ExtendsRebuilt
<1>3. \/ file' = file
      \/ file' = [lines |-> file.lines, bare |-> FALSE, fragment |-> "torn"]
      \/ file' = [lines |-> Q, bare |-> TRUE, fragment |-> "none"]
      \/ file' = [lines |-> Q, bare |-> FALSE, fragment |-> "none"]
  BY WrittenClean DEF Clean, Extents
<1>4. file'.lines = file.lines \/ file'.lines = Q
  BY <1>3
<1>5. /\ ~Malformed(Q, schedule)
      /\ ~HasGap(Rebuilt(file.lines)) => ~HasGap(Rebuilt(Q))
  BY <1>1, RecordFits
<1>6. /\ Len(Q) = L + 1 /\ Q # <<>> /\ \A n \in 0..L : SubSeq(Q, 1, n) = SubSeq(file.lines, 1, n)
      /\ Front(Q) = file.lines /\ Q[L + 1] = r /\ DOMAIN file.lines = 1..L /\ DOMAIN Q = 1..L + 1
      /\ \A i \in 1..L : Q[i] = file.lines[i]
  BY <1>1, <1>2, AppendFacts
<1> HIDE DEF Q
<1>7. ForcedCount' = ForcedCount /\ ForcedCount \in 0..L
  BY ForcedFacts DEF ForcedCount
<1>8. Rebuilt(PrefixLines)' = Rebuilt(PrefixLines)
  <2>1. SubSeq(file'.lines, 1, ForcedCount) = SubSeq(file.lines, 1, ForcedCount)
    BY <1>4, <1>6, <1>7
  <2>2. PrefixLines' = PrefixLines
    BY <1>7, <2>1 DEF PrefixLines, ForcedCount
  <2>3. QED
    BY <2>2
<1>9. forced <= Size(file')
  <2>1. Size(file) = 2 * L
    BY <1>1, SizeOf DEF Clean
  <2>2. Size(file') = 2 * Len(file'.lines) \/ (file'.lines = Q /\ Size(file') = 2 * Len(file'.lines) - 1)
    <3>1. file'.bare => file'.lines = Q
      BY <1>3 DEF Clean
    <3>2. QED
      BY <1>1, <3>1, SizeOf
  <2>3. 2 * L <= Size(file')
    BY <1>1, <1>4, <1>6, <2>2
  <2>4. forced <= 2 * L
    BY <2>1 DEF DiskInv
  <2>5. Size(file') \in Int
    BY <1>1, <2>2
  <2>6. QED
    BY <1>1, <2>3, <2>4, <2>5
<1>10. CASE file'.lines = file.lines
  <2>1. Settled'
    BY <1>7, <1>10 DEF Settled
  <2>2. file'.bare => file'.lines # <<>> /\ file'.fragment = "none"
    BY <1>3, <1>6 DEF DiskInv
  <2>3. DiskInv'
    BY <1>9, <2>1, <2>2 DEF DiskInv
  <2>4. extent # "line"
    <3>1. extent = "line" => file'.lines = Q
      BY WrittenClean DEF Clean, Q
    <3>2. Len(Q) # L
      BY <1>1, <1>6
    <3>3. QED
      BY <1>10, <3>1, <3>2
  <2>5. StaysLoadable'
    BY <1>10 DEF StaysLoadable
  <2>6. QED
    BY <1>8, <1>10, <2>3, <2>4, <2>5, GrowsSame, RebuiltType, ForcedFacts DEF DiskHolds
<1>11. CASE file'.lines = Q
  <2>1. file'.fragment # "torn" \/ file'.lines = file.lines
    BY <1>3
  <2>2. file'.fragment # "torn"
    BY <1>1, <1>6, <1>11, <2>1
  <2>3. file'.bare => file'.lines # <<>> /\ file'.fragment = "none"
    BY <1>3, <1>6 DEF DiskInv, Clean
  <2>4. LastIsNew'
    <3>1. Len(file'.lines) = L + 1 /\ ForcedCount' < L + 1
      BY <1>1, <1>6, <1>7, <1>11
    <3>2. Extends(Front(file'.lines), file'.lines[L + 1])
      BY <1>6, <1>11
    <3>3. \A n \in ForcedCount' + 1..L : n \notin RecordsAt(file'.lines)
      <4>1. \A n \in 1..L : n \in RecordsAt(Q) => n \in RecordsAt(file.lines)
        BY <1>1, <1>6 DEF RecordsAt
      <4>2. \A n \in ForcedCount + 1..L : n \in 1..L
        BY <1>1, <1>7
      <4>3. QED
        BY <1>7, <1>11, <4>1, <4>2 DEF Settled
    <3>4. (L + 1) - 1 = L
      BY <1>1
    <3>5. QED
      BY <3>1, <3>2, <3>3, <3>4 DEF LastIsNew
  <2>5. DiskInv'
    BY <1>9, <2>2, <2>3, <2>4 DEF DiskInv
  <2>6. StaysLoadable'
    <3>1. SubSeq(file'.lines, 1, legacy) = SubSeq(file.lines, 1, legacy)
      <4>1. legacy \in 0..L
        BY ForcedFacts
      <4>2. QED
        BY <1>6, <1>11, <4>1
    <3>2. Loadable(file.lines) => Loadable(file'.lines)
      BY <1>1, <1>5, <1>11 DEF Loadable
    <3>3. QED
      BY <3>1, <3>2, LegacyKept
  <2>7. extent = "line" => Clean'
    <3>1. extent = "line" => file' = [lines |-> Q, bare |-> FALSE, fragment |-> "none"]
      BY WrittenClean DEF Clean, Q
    <3>2. QED
      BY <3>1 DEF Clean
  <2>8. DiskHolds
    BY <1>8, <2>5, <2>6, GrowsSame, RebuiltType, ForcedFacts DEF DiskHolds
  <2>9. QED
    BY <1>5, <1>8, <1>11, <2>4, <2>7, <2>8 DEF Q
<1>12. QED
  BY <1>4, <1>10, <1>11

(* What a power loss leaves: the file without the new record, or with it. *)
LEMMA SurvivingLines ==
  ASSUME TypeInv, DiskInv, NEW n \in ForcedCount..Len(file.lines)
  PROVE  n = Len(file.lines) \/ Rebuilt(SubSeq(file.lines, 1, n)) = Rebuilt(PrefixLines)
<1> DEFINE L == Len(file.lines)
<1>1. file.lines \in Seq(Line) /\ L \in Nat /\ ForcedCount \in 0..L
  BY SizeFacts, ForcedFacts DEF TypeInv
<1>2. n \in 0..L
  BY <1>1
<1>3. CASE Settled
  <2>1. \A m \in n + 1..L : m \notin RecordsAt(file.lines)
    BY <1>1, <1>3 DEF Settled
  <2>2. Rebuilt(SubSeq(file.lines, 1, n)) = Rebuilt(file.lines)
    BY <1>1, <1>2, <2>1, PrefixOf
  <2>3. QED
    BY <1>3, <2>2, SettledRebuilt
<1>4. CASE LastIsNew /\ n # L
  <2>1. file.lines # <<>> /\ Rebuilt(Front(file.lines)) = Rebuilt(PrefixLines)
    BY <1>4, NewRebuilt
  <2>2. n \in 0..L - 1
    BY <1>1, <1>2, <1>4
  <2>3. /\ Front(file.lines) \in Seq(Line) /\ Len(Front(file.lines)) = L - 1
        /\ SubSeq(Front(file.lines), 1, n) = SubSeq(file.lines, 1, n)
        /\ RecordsAt(Front(file.lines)) = RecordsAt(file.lines) \ {L}
    BY <1>1, <2>1, <2>2, FrontFacts
  <2>4. \A m \in n + 1..L - 1 : m \notin RecordsAt(Front(file.lines))
    BY <1>1, <1>4, <2>3 DEF LastIsNew
  <2>5. Rebuilt(SubSeq(Front(file.lines), 1, n)) = Rebuilt(Front(file.lines))
    BY <2>2, <2>3, <2>4, PrefixOf
  <2>6. QED
    BY <2>1, <2>3, <2>5
<1>5. QED
  BY <1>3, <1>4 DEF DiskInv

LEMMA ForcedLoadable ==
  ASSUME TypeInv, DiskInv, ~HasGap(Rebuilt(file.lines))
  PROVE  ~HasGap(Rebuilt(PrefixLines))
<1>1. CASE Settled
  BY <1>1, SettledRebuilt
<1>2. CASE LastIsNew
  <2>1. file.lines # <<>> /\ Rebuilt(Front(file.lines)) = Rebuilt(PrefixLines)
    BY <1>2, NewRebuilt
  <2>2. /\ Front(file.lines) \in Seq(Line)
        /\ file.lines = Append(Front(file.lines), file.lines[Len(file.lines)])
    BY <2>1, FrontFacts DEF TypeInv
  <2>3. Extends(Front(file.lines), file.lines[Len(file.lines)])
    BY <1>2 DEF LastIsNew
  <2>4. ~HasGap(Rebuilt(Front(file.lines)))
    BY <2>2, <2>3, RecordFits
  <2>5. QED
    BY <2>1, <2>4
<1>3. QED
  BY <1>1, <1>2 DEF DiskInv

LEMMA PowerHolds ==
  ASSUME TypeInv, PathInv, DiskInv, TypeInv', legacy' = legacy, StaysLoadable, PowerLoss
  PROVE  DiskHolds
<1> DEFINE L == Len(file.lines)
<1>1. /\ file.lines \in Seq(Line) /\ L \in Nat /\ forced \in Nat /\ forced' \in Nat
      /\ legacy \in Nat /\ file'.lines \in Seq(Line) /\ Len(file'.lines) \in Nat
  BY SizeFacts DEF TypeInv
<1>2. /\ forced' = Size(file') /\ (~Named' => file' = NoFile)
      /\ file' \in Survivors(file, forced) \/ (unforced # {} /\ file' = NoFile)
  <2>1. ~Named' => file' = NoFile
    BY DEF PowerLoss, Named
  <2>2. file' \in Survivors(file, forced) \/ (unforced # {} /\ file' = NoFile)
    BY DEF PowerLoss
  <2>3. QED
    BY <2>1, <2>2 DEF PowerLoss
<1>3. Settled' /\ ForcedCount' = Len(file'.lines) /\ forced' <= Size(file')
  BY <1>1, <1>2, SettledWhenForced
<1>4. Rebuilt(PrefixLines)' = Rebuilt(file'.lines)
  BY <1>3, SettledNext
<1>5. ~Named' => file' = NoFile /\ RecordsAt(file'.lines) = {}
  <2>1. ~Named' => file' = NoFile
    BY <1>2
  <2>2. NoFile.lines = <<>> /\ RecordsAt(<<>>) = {}
    BY DEF NoFile, RecordsAt
  <2>3. QED
    BY <2>1, <2>2
<1>6. CASE unforced # {} /\ file' = NoFile
  <2>1. file'.lines = <<>> /\ ~file'.bare /\ file'.fragment = "none"
    BY <1>6 DEF NoFile
  <2>2. legacy = 0 /\ (~OrphanDirs => RecordsAt(file.lines) = {})
    BY <1>6 DEF PathInv, DiskInv, Named
  <2>3. ~OrphanDirs => Settled
    BY <2>2 DEF Settled
  <2>4. SubSeq(file.lines, 1, 0) = <<>>
    BY <1>1
  <2>5. ~OrphanDirs => Rebuilt(SubSeq(file.lines, 1, 0)) = Rebuilt(file.lines)
    BY <1>1, <2>2, PrefixOf
  <2>6. ~OrphanDirs => Rebuilt(PrefixLines)' = Rebuilt(PrefixLines)
    BY <1>4, <2>1, <2>3, <2>4, <2>5, SettledRebuilt
  <2>7. DiskInv'
    BY <1>1, <1>3, <1>5, <2>1, <2>2 DEF DiskInv
  <2>8. StaysLoadable'
    <3>1. SubSeq(<<>>, 1, 0) = <<>>
      OBVIOUS
    <3>2. SubSeq(file'.lines, 1, legacy') = file'.lines
      BY <2>1, <2>2, <3>1
    <3>3. QED
      BY <3>2 DEF StaysLoadable
  <2>9. QED
    BY <2>6, <2>7, <2>8, GrowsSame, RebuiltType, ForcedFacts DEF DiskHolds
<1>7. CASE file' \in Survivors(file, forced)
  <2>1. PICK n \in 0..L : file'.lines = SubSeq(file.lines, 1, n)
    BY <1>7 DEF Survivors
  <2>2. /\ file'.bare \in BOOLEAN
        /\ file'.bare => Len(file'.lines) > 0
        /\ forced <= Size(file') /\ file'.fragment \in {"none", "torn"}
        /\ file'.fragment = "torn" => ~file'.bare
    <3>1. /\ file'.bare \in BOOLEAN /\ file'.fragment \in {"none", "torn"}
          /\ file'.bare => Len(file'.lines) > 0
          /\ Size(file') \in forced..Size(file)
          /\ file'.fragment = "torn" => ~file'.bare
      BY <1>7 DEF Survivors
    <3>2. QED
      BY <1>1, <1>2, <3>1
  <2>3. Len(file'.lines) = n
    BY <1>1, <2>1, PrefixFacts
  <2>4. n \in ForcedCount..L
    <3>1. (forced + 1) \div 2 \in 0..Len(file'.lines)
      <4>1. /\ file'.lines \in Seq(Line) /\ file'.bare \in BOOLEAN
            /\ forced \in Nat /\ forced <= Size(file')
        BY <1>1, <2>2
      <4>2. QED
        BY ONLY <4>1, CountFacts
    <3>2. ForcedCount \in Int
      BY <1>1 DEF ForcedCount
    <3>3. QED
      BY <1>1, <2>3, <3>1, <3>2 DEF ForcedCount
  <2>5. DiskInv'
    <3>1. 2 * legacy <= forced'
      BY <1>1, <1>2, <2>2 DEF DiskInv
    <3>2. file'.bare => file'.lines # <<>> /\ file'.fragment = "none"
      BY <1>1, <2>2
    <3>3. ~Named' => legacy = 0
      <4>1. Size(NoFile) = 0
        BY SizeOf DEF NoFile
      <4>2. ~Named' => forced' = 0
        BY <1>2, <4>1
      <4>3. QED
        BY <1>1, <3>1, <4>2
    <3>4. QED
      BY <1>3, <1>5, <3>1, <3>2, <3>3 DEF DiskInv
  <2>6. CASE n = L
    <3>1. file'.lines = file.lines
      BY <1>1, <2>1, <2>6
    <3>2. StaysLoadable'
      BY <3>1 DEF StaysLoadable
    <3>3. QED
      BY <1>4, <2>5, <3>1, <3>2, ForcedGrows DEF DiskHolds
  <2>7. CASE n # L
    <3>1. Rebuilt(file'.lines) = Rebuilt(PrefixLines)
      BY <2>1, <2>4, <2>7, SurvivingLines
    <3>2. StaysLoadable'
      <4>1. SubSeq(file'.lines, 1, legacy) = SubSeq(file.lines, 1, legacy)
        <5>1. legacy \in 0..n
          BY <1>1, <2>4, ForcedFacts
        <5>2. QED
          BY <1>1, <2>1, <5>1
      <4>2. Loadable(file.lines) => Loadable(file'.lines)
        <5>1. \A s \in Schedules : ~Malformed(file.lines, s) => ~Malformed(file'.lines, s)
          BY <1>1, <2>1, PrefixFits
        <5>2. ~HasGap(Rebuilt(file.lines)) => ~HasGap(Rebuilt(file'.lines))
          BY <3>1, ForcedLoadable
        <5>3. QED
          BY <5>1, <5>2 DEF Loadable
      <4>3. QED
        BY <4>1, <4>2, LegacyKept
    <3>3. QED
      BY <1>4, <2>5, <3>1, <3>2, GrowsSame, RebuiltType, ForcedFacts DEF DiskHolds
  <2>8. QED
    BY <2>6, <2>7
<1>8. QED
  BY <1>2, <1>6, <1>7

-----------------------------------------------------------------------------
(* What the process knows of the file.                                     *)

ProcessHolds == ServeInv' /\ LoaderInv' /\ AppenderInv'

LEMMA EndKept ==
  ASSUME Rebuilt(file'.lines) = Rebuilt(file.lines), appender'.rec = appender.rec,
         AtItsEnd(appender.rec)
  PROVE  AtItsEnd(appender.rec)'
  BY DEF AtItsEnd

LEMMA NewProcessHolds ==
  ASSUME NewProcess
  PROVE  ProcessHolds
<1>1. ~Serving' /\ loader'.pc = "idle" /\ appender'.pc = "idle"
  BY DEF NewProcess, Serving, Idle
<1>2. QED
  BY <1>1 DEF ProcessHolds, ServeInv, LoaderInv, AppenderInv, Holding

\* The appends a load in flight can meet.
LEMMA BesideALoad ==
  ASSUME StoreInv, loader.pc # "idle" \/ ~Serving
  PROVE  /\ appender.pc \in {"idle", "ready", "close", "retry", "join"}
         /\ appender.pc = "close" => appender.durable = FALSE
<1>1. AppenderInv /\ appender.pc \in AppenderPcs
  BY DEF StoreInv, TypeInv
<1>2. QED
  BY <1>1 DEF AppenderInv, AppenderPcs

\* A rejected load leaves a store that does not serve.
LEMMA RejectHolds ==
  ASSUME StoreInv, RejectLoad, loader.pc # "idle", Rebuilt(file'.lines) = Rebuilt(file.lines)
  PROVE  ProcessHolds
<1>1. ~Serving' /\ loader'.pc = "idle"
  BY DEF RejectLoad, Serving
<1>2. ServeInv' /\ LoaderInv'
  BY <1>1 DEF ServeInv, LoaderInv
<1>3. CASE appender'.pc = "idle"
  BY <1>2, <1>3 DEF AppenderInv, Holding, ProcessHolds
<1>4. CASE appender'.pc # "idle"
  <2>1. /\ appender' = appender /\ appender.pc \in {"close", "retry"}
        /\ appender.pc = "close" => appender.durable = FALSE
    BY <1>4, BesideALoad DEF RejectLoad, Idle
  <2>2. AppenderInv
    BY DEF StoreInv
  <2>3. AtItsEnd(appender.rec)'
    BY <2>1, <2>2, EndKept DEF AppenderInv, Holding
  <2>4. AppenderInv'
    BY <2>1, <2>2, <2>3 DEF AppenderInv, Holding
  <2>5. QED
    BY <1>2, <2>4 DEF ProcessHolds
<1>5. QED
  BY <1>3, <1>4

\* A load that goes on changes neither the flags nor the index.
LEMMA RollingHolds ==
  ASSUME StoreInv, UNCHANGED <<schedule, loaded, stale, unbarriered, view, appender>>,
         loader.pc # "idle" \/ ~Serving, loader'.pc # "idle",
         Rebuilt(file'.lines) = Rebuilt(file.lines),
         Serving => /\ Named' /\ Settled' /\ Clean'
                    /\ Rebuilt(PrefixLines)' = Rebuilt(PrefixLines)
                    /\ ~Malformed(file'.lines, schedule)
  PROVE  ServeInv' /\ AppenderInv'
<1>1. Serving' = Serving
  BY DEF Serving
<1>2. AppenderInv /\ ServeInv
  BY DEF StoreInv
<1>3. /\ appender.pc \in {"idle", "ready", "close", "retry", "join"}
      /\ appender.pc = "close" => appender.durable = FALSE
  BY BesideALoad
<1>4. ServeInv'
  <2>1. CASE ~Serving
    BY <1>1, <2>1 DEF ServeInv
  <2>2. CASE Serving
    <3>1. appender.pc = "join" /\ ~HasGap(Rebuilt(file.lines)) /\ view = Rebuilt(PrefixLines)
      BY <1>2, <2>2 DEF ServeInv
    <3>2. QED
      BY <2>2, <3>1 DEF ServeInv
  <2>3. QED
    BY <2>1, <2>2
<1>5. appender.pc \in Holding => AtItsEnd(appender.rec)'
  BY <1>2, EndKept DEF AppenderInv
<1>6. AppenderInv'
  BY <1>2, <1>3, <1>5 DEF AppenderInv, Holding
<1>7. QED
  BY <1>4, <1>6

LEMMA ServingBesideALoad ==
  ASSUME StoreInv, loader.pc # "idle" \/ ~Serving, Serving
  PROVE  Named /\ Settled /\ Clean /\ ~Malformed(file.lines, schedule)
<1>1. ServeInv
  BY DEF StoreInv
<1>2. appender.pc = "join"
  BY <1>1 DEF ServeInv
<1>3. QED
  BY <1>1, <1>2 DEF ServeInv

LEMMA RollingSame ==
  ASSUME StoreInv, TypeInv', legacy' = legacy, SameLines,
         UNCHANGED <<schedule, loaded, stale, unbarriered, view, appender>>,
         loader.pc # "idle" \/ ~Serving, loader'.pc # "idle"
  PROVE  DiskHolds /\ ServeInv' /\ AppenderInv'
<1>1. DiskHolds
  BY SameLinesHold DEF StoreInv
<1>2. Rebuilt(file'.lines) = Rebuilt(file.lines)
  BY DEF SameLines
<1>3. ASSUME Serving
      PROVE  /\ Named' /\ Settled' /\ Clean'
             /\ Rebuilt(PrefixLines)' = Rebuilt(PrefixLines)
             /\ ~Malformed(file'.lines, schedule)
  <2>1. Named /\ Settled /\ Clean /\ ~Malformed(file.lines, schedule)
    BY <1>3, ServingBesideALoad
  <2>2. Settled' /\ Rebuilt(PrefixLines)' = Rebuilt(PrefixLines)
    BY <2>1, DiskSame DEF StoreInv
  <2>3. QED
    BY <2>1, <2>2 DEF SameLines, Clean
<1>4. QED
  BY <1>1, <1>2, <1>3, RollingHolds

LEMMA SyncedLines ==
  ASSUME TypeInv, DiskInv, file' = Synced(file), forced' = Size(file), Named' = Named
  PROVE  SameLines /\ (file'.fragment = "torn" <=> file.fragment = "torn") /\ file'.bare = file.bare
<1>1. /\ file'.lines = file.lines /\ file'.bare = file.bare
      /\ file'.fragment = "torn" <=> file.fragment = "torn"
      /\ file'.fragment \in {"none", "torn"}
  BY SyncedFacts
<1>2. file.bare => file.fragment = "none"
  BY DEF DiskInv
<1>3. QED
  BY <1>1, <1>2 DEF SameLines

LEMMA KeptLines ==
  ASSUME DiskInv, UNCHANGED disk
  PROVE  SameLines
  BY DEF SameLines, DiskInv, disk, path, Named

\* Directories are made only where the file is not yet named.
LEMMA MadeIsNamed ==
  ASSUME PathInv, NEW n \in 0..lacking, MakeDownTo(n), Named
  PROVE  Named'
<1>1. CASE OrphanDirs
  BY <1>1 DEF Named
<1>2. CASE ~OrphanDirs
  <2>1. unforced = {} /\ lacking = 0
    BY <1>2 DEF Named, PathInv
  <2>2. (n + 1)..lacking = {}
    BY <2>1
  <2>3. QED
    BY <2>1, <2>2 DEF MakeDownTo, Named
<1>3. QED
  BY <1>1, <1>2

LEMMA CallHolds ==
  ASSUME StoreInv, TypeInv', legacy' = legacy, Call
  PROVE  DiskHolds /\ ProcessHolds
<1>1. /\ SameLines /\ loader'.pc \in {"barrier", "mkdir"}
      /\ UNCHANGED <<schedule, loaded, stale, unbarriered, view, appender>>
  <2>1. loader'.pc \in {"barrier", "mkdir"}
    BY DEF Call, StoreInv, TypeInv
  <2>2. QED
    <3>1. /\ DiskInv /\ PathInv /\ OthersMakeDirs
          /\ UNCHANGED <<file, forced, schedule, loaded, stale, unbarriered, view, appender>>
      BY DEF Call, StoreInv, flags
    <3>2. Named => Named'
      BY <3>1, MadeIsNamed DEF OthersMakeDirs
    <3>3. QED
      BY <2>1, <3>1, <3>2 DEF SameLines, DiskInv
<1>2. DiskHolds /\ ServeInv' /\ AppenderInv'
  BY <1>1, RollingSame DEF Call
<1>3. LoaderInv'
  BY <1>1 DEF LoaderInv
<1>4. QED
  BY <1>2, <1>3 DEF ProcessHolds

LEMMA LoadBarrierHolds ==
  ASSUME StoreInv, TypeInv', legacy' = legacy, LoadBarrier
  PROVE  DiskHolds /\ ProcessHolds
<1>1. /\ loader.pc # "idle" /\ loader'.pc = "mkdir"
      /\ Named' = Named /\ UNCHANGED <<schedule, loaded, stale, unbarriered, view, appender>>
      /\ \/ file' = Synced(file) /\ forced' = Size(file)
         \/ UNCHANGED disk
  BY DEF LoadBarrier, StoreInv, TypeInv, flags, disk, path, Named
<1>2. SameLines
  BY <1>1, SyncedLines, KeptLines DEF StoreInv
<1>3. DiskHolds /\ ServeInv' /\ AppenderInv'
  BY <1>1, <1>2, RollingSame
<1>4. LoaderInv'
  BY <1>1 DEF LoaderInv
<1>5. QED
  BY <1>3, <1>4 DEF ProcessHolds

LEMMA LoadReadHolds ==
  ASSUME StoreInv, TypeInv', legacy' = legacy, LoadRead
  PROVE  DiskHolds /\ ProcessHolds
<1>1. loader.pc # "idle" /\ UNCHANGED disk /\ file'.lines = file.lines
  BY DEF LoadRead, disk
<1>2. SameLines
  BY <1>1, KeptLines DEF StoreInv
<1>3. DiskHolds
  BY <1>2, SameLinesHold DEF StoreInv
<1>4. CASE Malformed(file.lines, schedule)
  BY <1>1, <1>3, <1>4, RejectHolds DEF LoadRead
<1>5. CASE ~Malformed(file.lines, schedule)
  <2>1. /\ loader' = [pc |-> "repair", lines |-> file.lines]
        /\ UNCHANGED <<schedule, loaded, stale, unbarriered, view, appender>>
    BY <1>5 DEF LoadRead, flags
  <2>2. ServeInv' /\ AppenderInv'
    BY <1>1, <1>2, <2>1, RollingSame
  <2>3. LoaderInv'
    BY <1>1, <1>5, <2>1 DEF LoaderInv
  <2>4. QED
    BY <1>3, <2>2, <2>3 DEF ProcessHolds
<1>6. QED
  BY <1>4, <1>5

LEMMA LoadRepairHolds ==
  ASSUME StoreInv, TypeInv', legacy' = legacy, LoadRepair
  PROVE  DiskHolds /\ ProcessHolds
<1>1. /\ TypeInv /\ DiskInv /\ LoaderInv /\ loader.pc = "repair"
      /\ Named' = Named /\ UNCHANGED <<schedule, loaded, stale, unbarriered, view, appender>>
  BY DEF LoadRepair, StoreInv, flags, path, Named
<1>2. loader.lines = file.lines /\ ~Malformed(loader.lines, schedule)
  BY <1>1 DEF LoaderInv
<1>3. /\ SameLines /\ Settled'
      /\ \/ loader' = [loader EXCEPT !.pc = "stamp"] /\ Clean'
         \/ loader' = [loader EXCEPT !.pc = "terminate"] /\ file'.fragment # "torn"
  <2>1. CASE /\ file.fragment = "torn" /\ file' = Truncated(file)
             /\ loader' = [loader EXCEPT !.pc = "stamp"] /\ UNCHANGED forced
    <3>1. file' = [lines |-> file.lines, bare |-> file.bare, fragment |-> "cut"] /\ ~file.bare /\ Settled
      BY <1>1, <2>1, SyncedFacts DEF DiskInv
    <3>2. SameLines /\ Clean'
      BY <1>1, <2>1, <3>1 DEF SameLines, Clean
    <3>3. Settled'
      BY <1>1, <3>1, <3>2, DiskSame
    <3>4. QED
      BY <2>1, <3>2, <3>3
  <2>2. CASE /\ file.fragment # "torn" /\ file' = Synced(file) /\ forced' = Size(file)
             /\ \/ loader' = [loader EXCEPT !.pc = "terminate"]
                \/ loader' = [loader EXCEPT !.pc = "stamp"] /\ ~file.bare
    <3>1. SameLines /\ file'.fragment # "torn" /\ file'.bare = file.bare
      BY <1>1, <2>2, SyncedLines
    <3>2. Settled'
      BY <1>1, <2>2, <3>1, DiskSame
    <3>3. ~file.bare => Clean'
      BY <3>1 DEF Clean
    <3>4. QED
      BY <2>2, <3>1, <3>2, <3>3
  <2>3. CASE /\ file.fragment # "torn" /\ ~file.bare /\ ~TailNeedsBarrier(loader.lines)
             /\ UNCHANGED <<file, forced>> /\ loader' = [loader EXCEPT !.pc = "stamp"]
    <3>1. SameLines
      BY <1>1, <2>3 DEF SameLines, DiskInv
    <3>2. Settled
      BY <1>2, <2>3 DEF TailNeedsBarrier, Settled
    <3>3. Settled' /\ Clean'
      BY <1>1, <2>3, <3>1, <3>2, DiskSame DEF Clean
    <3>4. QED
      BY <2>3, <3>1, <3>3
  <2>4. QED
    BY <2>1, <2>2, <2>3 DEF LoadRepair
<1>4. loader'.pc \in {"stamp", "terminate"} /\ loader'.lines = file'.lines
      /\ (loader'.pc = "stamp" => Clean') /\ (loader'.pc = "terminate" => file'.fragment # "torn")
  BY <1>1, <1>2, <1>3 DEF TypeInv, SameLines
<1>5. DiskHolds /\ ServeInv' /\ AppenderInv'
  BY <1>1, <1>3, <1>4, RollingSame
<1>6. ~Malformed(loader'.lines, schedule')
  BY <1>1, <1>2, <1>3, <1>4 DEF SameLines
<1>7. LoaderInv'
  BY <1>3, <1>4, <1>6 DEF LoaderInv
<1>8. QED
  BY <1>5, <1>7 DEF ProcessHolds

LEMMA LoadTerminateHolds ==
  ASSUME StoreInv, TypeInv', legacy' = legacy, LoadTerminate
  PROVE  DiskHolds /\ ProcessHolds
<1>1. /\ TypeInv /\ DiskInv /\ LoaderInv /\ loader.pc = "terminate" /\ Named' = Named
      /\ file' = [file EXCEPT !.bare = FALSE]
  BY DEF LoadTerminate, StoreInv, path, Named
<1>2. /\ loader.lines = file.lines /\ ~Malformed(loader.lines, schedule)
      /\ Settled /\ file.fragment # "torn"
  BY <1>1 DEF LoaderInv
<1>3. file' = [lines |-> file.lines, bare |-> FALSE, fragment |-> file.fragment]
  BY <1>1 DEF TypeInv
<1>4. SameLines
  BY <1>1, <1>2, <1>3 DEF LoadTerminate, SameLines
<1>5. DiskHolds /\ Settled'
  BY <1>1, <1>2, <1>4, SameLinesHold, DiskSame DEF StoreInv
<1>6. CASE RejectLoad
  BY <1>1, <1>3, <1>5, <1>6, RejectHolds
<1>7. CASE ~RejectLoad
  <2>1. /\ loader' = [loader EXCEPT !.pc = "stamp"]
        /\ UNCHANGED <<schedule, loaded, stale, unbarriered, view, appender>>
    BY <1>7 DEF LoadTerminate, flags
  <2>2. loader'.pc = "stamp" /\ loader'.lines = loader.lines
    BY <1>1, <2>1 DEF TypeInv
  <2>3. ServeInv' /\ AppenderInv'
    BY <1>1, <1>4, <2>1, <2>2, RollingSame
  <2>4. LoaderInv'
    BY <1>2, <1>3, <1>5, <2>1, <2>2 DEF LoaderInv, Clean
  <2>5. QED
    BY <1>5, <2>3, <2>4 DEF ProcessHolds
<1>8. QED
  BY <1>6, <1>7

LEMMA LoadStampHolds ==
  ASSUME StoreInv, TypeInv', legacy' = legacy, LoadStamp
  PROVE  DiskHolds /\ ProcessHolds
<1>1. TypeInv /\ DiskInv /\ LoaderInv /\ StaysLoadable /\ loader.pc = "stamp"
  BY DEF LoadStamp, StoreInv
<1>2. /\ loader.lines = file.lines /\ ~Malformed(file.lines, schedule)
      /\ Settled /\ Clean
  BY <1>1 DEF LoaderInv
<1>3. CASE UNCHANGED disk
  <2>1. SameLines /\ DiskHolds /\ Settled' /\ Clean' /\ file'.lines = file.lines
    BY <1>1, <1>2, <1>3, KeptLines, SameLinesHold, DiskSame DEF disk, Clean
  <2>2. CASE RejectLoad
    BY <1>1, <2>1, <2>2, RejectHolds
  <2>3. CASE ~RejectLoad /\ loader' = [loader EXCEPT !.pc = "dir"]
             /\ UNCHANGED <<schedule, loaded, stale, unbarriered, view, appender>>
    <3>1. loader'.pc = "dir" /\ loader'.lines = file'.lines
      BY <1>1, <1>2, <2>1, <2>3 DEF TypeInv
    <3>2. ServeInv' /\ AppenderInv'
      BY <1>1, <2>1, <2>3, <3>1, RollingSame
    <3>3. LoaderInv'
      BY <1>2, <2>1, <2>3, <3>1 DEF LoaderInv
    <3>4. QED
      BY <2>1, <3>2, <3>3 DEF ProcessHolds
  <2>4. QED
    BY <2>2, <2>3 DEF LoadStamp, flags
<1>4. CASE ~UNCHANGED disk
  <2>1. PICK extent \in Extents :
          /\ file' = Written(file, Header(schedule), extent) /\ Named' = Named
          /\ \/ RejectLoad /\ forced' = forced
             \/ /\ extent = "line" /\ forced' = Size(file')
                /\ loader' = [loader EXCEPT !.pc = "dir"]
                /\ UNCHANGED <<schedule, loaded, stale, unbarriered, view, appender>>
    <3>1. "line" \in Extents
      BY DEF Extents
    <3>2. QED
      BY <1>4, <3>1 DEF LoadStamp, flags, disk, path, Named
  <2>2. /\ DiskHolds /\ Settled'
        /\ Rebuilt(file'.lines) = Rebuilt(file.lines)
        /\ Rebuilt(PrefixLines)' = Rebuilt(PrefixLines)
        /\ ~Malformed(file'.lines, schedule)
        /\ extent = "line" => Clean' /\ file'.lines = Append(file.lines, Header(schedule))
    BY <1>1, <1>2, <2>1, HeaderHolds
  <2>3. CASE RejectLoad
    BY <1>1, <2>2, <2>3, RejectHolds
  <2>4. CASE ~RejectLoad
    <3>1. /\ loader' = [loader EXCEPT !.pc = "dir"] /\ extent = "line"
          /\ UNCHANGED <<schedule, loaded, stale, unbarriered, view, appender>>
      BY <2>1, <2>4
    <3>2. loader'.pc = "dir" /\ loader'.lines = file.lines
      BY <1>1, <1>2, <3>1 DEF TypeInv
    <3>3. Serving => Named
      BY <1>1, ServingBesideALoad
    <3>4. ServeInv' /\ AppenderInv'
      BY <1>1, <2>1, <2>2, <3>1, <3>2, <3>3, RollingHolds
    <3>5. LoaderInv'
      BY <1>2, <2>2, <3>1, <3>2 DEF LoaderInv
    <3>6. QED
      BY <2>2, <3>4, <3>5 DEF ProcessHolds
  <2>5. QED
    BY <2>3, <2>4
<1>5. QED
  BY <1>3, <1>4

LEMMA LoadDirHolds ==
  ASSUME StoreInv, TypeInv', legacy' = legacy, LoadDir
  PROVE  DiskHolds /\ ProcessHolds
<1>1. /\ TypeInv /\ DiskInv /\ LoaderInv /\ loader.pc = "dir"
      /\ Named' /\ loader' = [loader EXCEPT !.pc = "install"]
      /\ UNCHANGED <<file, forced, schedule, loaded, stale, unbarriered, view, appender>>
  <2>1. TypeInv /\ PathInv /\ DiskInv /\ LoaderInv
    BY DEF StoreInv
  <2>2. ~OrphanDirs => unforced' = {}
    BY <2>1 DEF LoadDir, PathInv
  <2>3. QED
    BY <2>1, <2>2 DEF LoadDir, Named
<1>2. loader'.pc = "install" /\ loader'.lines = loader.lines
  BY <1>1 DEF TypeInv
<1>3. SameLines
  BY <1>1 DEF SameLines, DiskInv
<1>4. DiskHolds /\ ServeInv' /\ AppenderInv'
  BY <1>1, <1>2, <1>3, RollingSame
<1>5. Settled' /\ Clean'
  BY <1>1, <1>3, DiskSame DEF LoaderInv, Clean
<1>6. LoaderInv'
  BY <1>1, <1>2, <1>5 DEF LoaderInv
<1>7. QED
  BY <1>4, <1>6 DEF ProcessHolds

(* What an append that waited for the load is told. *)
LEMMA LandedAtItsLeaf ==
  ASSUME TypeInv, AppenderInv, appender.pc = "join", NEW r \in Landed(Rebuilt(file.lines))
  PROVE  AtItsLeaf(Rebuilt(file.lines), r)
<1> DEFINE leaves == Rebuilt(file.lines)[appender.rec.bucket]
<1>1. PICK d \in Requests, n \in Nat : appender.rec = recordOf(d, n)
  BY DEF AppenderInv, Holding
<1>2. appender.rec.bucket \in Buckets /\ file.lines \in Seq(Line) /\ appender.rec.index \in Nat
  BY <1>1, LineMembers DEF TypeInv
<1>3. PICK i \in DOMAIN leaves : r = leaves[i] /\ sameRegistrationRecord(r, appender.rec)
  BY DEF Landed
<1>4. AtItsEnd(appender.rec)
  BY DEF AppenderInv, Holding
<1>5. r = appender.rec /\ i = r.index + 1
  BY <1>3, <1>4 DEF AtItsEnd, sameRegistrationRecord
<1>6. leaves \in Seq(Line) /\ DOMAIN leaves = 1..Len(leaves) /\ Len(leaves) \in Nat
  BY <1>2, RebuiltFacts
<1>7. r.index < Len(leaves)
  BY <1>2, <1>3, <1>5, <1>6
<1>8. QED
  BY <1>3, <1>5, <1>7 DEF AtItsLeaf, sameRegistrationRecord

LEMMA LoadInstallHolds ==
  ASSUME StoreInv, TypeInv', legacy' = legacy, LoadInstall
  PROVE  /\ DiskHolds /\ ProcessHolds
         /\ \A r \in acked' : r \in acked \/ AtItsLeaf(Rebuilt(PrefixLines), r)
<1>1. TypeInv /\ DiskInv /\ LoaderInv /\ AppenderInv /\ loader.pc = "install" /\ UNCHANGED disk
  BY DEF LoadInstall, StoreInv
<1>2. /\ ~Malformed(loader.lines, schedule) /\ Settled /\ Clean /\ Named
      /\ loader.lines = file.lines \/ file.lines = Append(loader.lines, Header(schedule))
  BY <1>1 DEF LoaderInv
<1>3. ~Malformed(file.lines, schedule) /\ Rebuilt(loader.lines) = Rebuilt(file.lines)
  BY <1>1, <1>2, HeaderFits DEF TypeInv
<1>4. Rebuilt(PrefixLines) = Rebuilt(file.lines)
  BY <1>1, <1>2, SettledRebuilt
<1>5. SameLines /\ DiskHolds
  BY <1>1, KeptLines, SameLinesHold DEF StoreInv
<1>6. file'.lines = file.lines /\ Settled' /\ Clean' /\ Named' /\ PrefixLines' = PrefixLines
  BY <1>1, <1>2, <1>5, DiskSame DEF disk, path, Named, Clean, PrefixLines, ForcedCount
<1>7. CASE RejectLoad
  BY <1>1, <1>5, <1>6, <1>7, RejectHolds DEF RejectLoad, history
<1>8. CASE ~RejectLoad
  <2>1. /\ ~HasGap(Rebuilt(loader.lines)) /\ view' = Rebuilt(loader.lines)
        /\ loader' = [pc |-> "idle", lines |-> <<>>] /\ schedule' = schedule
        /\ SettleAppend(Rebuilt(loader.lines))
    BY <1>8 DEF LoadInstall
  <2>2. /\ appender.pc \in {"idle", "ready", "close", "retry", "join"}
        /\ appender.pc = "close" => appender.durable = FALSE
    BY <1>1, BesideALoad
  <2>3. appender'.pc # "sync" /\ appender'.pc # "join"
        /\ (appender' = Idle \/ (appender' = appender /\ appender.pc \in {"idle", "ready", "close", "retry"}))
    BY <2>1, <2>2 DEF SettleAppend, Idle
  <2>4. ServeInv'
    <3>1. view' = Rebuilt(PrefixLines)'
      BY <1>3, <1>4, <1>6, <2>1
    <3>2. QED
      BY <1>3, <1>6, <2>1, <2>3, <3>1 DEF ServeInv
  <2>5. LoaderInv'
    BY <2>1 DEF LoaderInv
  <2>6. AppenderInv'
    <3>1. CASE appender' = Idle
      BY <3>1 DEF AppenderInv, Holding, Idle
    <3>2. CASE appender' = appender /\ appender.pc \in {"idle", "ready", "close", "retry"}
      <4>1. appender.pc \in Holding => AtItsEnd(appender.rec)'
        BY <1>1, <1>6, <3>2, EndKept DEF AppenderInv
      <4>2. QED
        BY <1>1, <2>2, <3>2, <4>1 DEF AppenderInv, Holding
    <3>3. QED
      BY <2>3, <3>1, <3>2
  <2>7. \A r \in acked' : r \in acked \/ AtItsLeaf(Rebuilt(PrefixLines), r)
    <3>1. acked' = acked \/ (appender.pc = "join" /\ acked' = acked \cup Landed(Rebuilt(file.lines)))
      BY <1>3, <2>1 DEF SettleAppend
    <3>2. appender.pc = "join" => \A r \in Landed(Rebuilt(file.lines)) : AtItsLeaf(Rebuilt(file.lines), r)
      BY <1>1, LandedAtItsLeaf
    <3>3. QED
      BY <1>4, <3>1, <3>2
  <2>8. QED
    BY <1>1, <1>5, <2>4, <2>5, <2>6, <2>7 DEF ProcessHolds
<1>9. QED
  BY <1>7, <1>8

LEMMA LoadMkdirHolds ==
  ASSUME StoreInv, TypeInv', legacy' = legacy, LoadMkdir
  PROVE  DiskHolds /\ ProcessHolds
<1>1. /\ DiskInv /\ loader.pc # "idle" /\ loader'.pc = "read"
      /\ UNCHANGED <<file, forced, schedule, loaded, stale, unbarriered, view, appender>>
  BY DEF LoadMkdir, MakePath, StoreInv, TypeInv
<1>2. SameLines
  <2>1. Named => Named'
    <3>1. PathInv /\ MakeDownTo(0)
      BY DEF StoreInv, LoadMkdir, MakePath
    <3>2. 0 \in 0..lacking
      BY <3>1 DEF PathInv
    <3>3. QED
      BY <3>1, <3>2, MadeIsNamed
  <2>2. QED
    BY <1>1, <2>1 DEF SameLines, DiskInv
<1>3. DiskHolds /\ ServeInv' /\ AppenderInv'
  BY <1>1, <1>2, RollingSame
<1>4. LoaderInv'
  BY <1>1 DEF LoaderInv
<1>5. QED
  BY <1>3, <1>4 DEF ProcessHolds

LEMMA LoadFailsHolds ==
  ASSUME StoreInv, TypeInv', legacy' = legacy, LoadFails \/ MkdirFails \/ DirFails
  PROVE  DiskHolds /\ ProcessHolds
<1>1. loader.pc # "idle" /\ UNCHANGED <<file, forced>> /\ RejectLoad
  BY DEF LoadFails, MkdirFails, DirFails, disk
<1>2. Named => Named'
  <2>1. CASE LoadFails
    BY <2>1 DEF LoadFails, disk, path, Named
  <2>2. CASE MkdirFails
    BY <2>2, MadeIsNamed DEF StoreInv, MkdirFails, OthersMakeDirs
  <2>3. CASE DirFails
    BY <2>3 DEF DirFails, Named
  <2>4. QED
    BY <2>1, <2>2, <2>3
<1>3. SameLines
  BY <1>1, <1>2 DEF SameLines, StoreInv, DiskInv
<1>4. DiskHolds
  BY <1>3, SameLinesHold DEF StoreInv
<1>5. ProcessHolds
  BY <1>1, RejectHolds
<1>6. QED
  BY <1>4, <1>5

-----------------------------------------------------------------------------
(* The append in its turn.                                                 *)

\* An append's step, or another component's, beside the disk: the loader and the
\* flags stay.
DiskKept == UNCHANGED <<file, forced>> /\ (Named => Named')

LEMMA KeptDisk == UNCHANGED disk => DiskKept
  BY DEF disk, path, DiskKept, Named

LEMMA KeptBesideAppend ==
  ASSUME StoreInv, TypeInv', legacy' = legacy, DiskKept, UNCHANGED <<schedule, view, loader>>
  PROVE  /\ DiskHolds /\ LoaderInv' /\ Rebuilt(file'.lines) = Rebuilt(file.lines)
         /\ PrefixLines' = PrefixLines /\ (Settled => Settled') /\ (Clean => Clean')
         /\ LastIsNew => LastIsNew'
<1>1. TypeInv /\ DiskInv /\ LoaderInv
  BY DEF StoreInv
<1>2. SameLines /\ file' = file /\ forced' = forced /\ (Named => Named')
  BY <1>1 DEF DiskKept, SameLines, DiskInv
<1>3. DiskHolds
  BY <1>2, SameLinesHold DEF StoreInv
<1>4. PrefixLines' = PrefixLines /\ (Settled => Settled') /\ (LastIsNew => LastIsNew')
  BY <1>1, <1>2, DiskSame DEF PrefixLines, ForcedCount
<1>5. LoaderInv'
  BY <1>1, <1>2, <1>4 DEF LoaderInv, Clean
<1>6. QED
  BY <1>2, <1>3, <1>4, <1>5 DEF Clean

\* The store still serves the same index.
LEMMA ServeKept ==
  ASSUME StoreInv, TypeInv', legacy' = legacy, DiskKept, UNCHANGED <<schedule, flags, view, loader>>,
         Serving => appender'.pc = "sync" \/ (Settled /\ Clean),
         Serving => loader.pc = "idle" \/ appender'.pc = "join"
  PROVE  ServeInv'
<1>1. Serving' = Serving
  BY DEF Serving, flags
<1>2. ServeInv
  BY DEF StoreInv
<1>3. UNCHANGED <<file, schedule, view, loader>> /\ PrefixLines' = PrefixLines
      /\ (Settled => Settled') /\ (Clean => Clean') /\ (Named => Named')
  BY KeptBesideAppend DEF DiskKept
<1>4. QED
  BY <1>1, <1>2, <1>3 DEF ServeInv

LEMMA BeginAppendHolds ==
  ASSUME StoreInv, TypeInv', legacy' = legacy, NEW d \in Requests, BeginAppend(d)
  PROVE  DiskHolds /\ ProcessHolds
<1>1. /\ appender.pc = "idle" /\ appender' = [pc |-> "ready", req |-> d]
      /\ DiskKept /\ UNCHANGED <<schedule, flags, view, loader>>
  BY KeptDisk DEF BeginAppend
<1>2. DiskHolds /\ LoaderInv'
  BY <1>1, KeptBesideAppend
<1>3. ServeInv'
  BY <1>1, ServeKept DEF StoreInv, ServeInv
<1>4. AppenderInv'
  BY <1>1 DEF AppenderInv, Holding
<1>5. QED
  BY <1>2, <1>3, <1>4 DEF ProcessHolds

(* The record of a checked append extends the file. *)
LEMMA CheckedExtends ==
  ASSUME StoreInv, Serving, Settled, NEW d \in Requests,
         keyOf(d) \notin KnownKeys(d.bucket), declarationFor(d.bucket) \ {d.decl} = {}
  PROVE  /\ Extends(file.lines, recordOf(d, Len(view[d.bucket])))
         /\ AtItsEnd(recordOf(d, Len(view[d.bucket])))
         /\ Len(view[d.bucket]) \in Nat
<1> DEFINE b == d.bucket
           leaves == Rebuilt(file.lines)[b]
           r == recordOf(d, Len(leaves))
<1>1. TypeInv /\ DiskInv /\ ServeInv /\ file.lines \in Seq(Line) /\ b \in Buckets
  BY LineMembers DEF StoreInv, TypeInv
<1>2. /\ ~Malformed(file.lines, schedule) /\ ~HasGap(Rebuilt(file.lines))
      /\ view = Rebuilt(file.lines)
  BY <1>1, SettledRebuilt DEF ServeInv
<1>3. /\ leaves \in Seq(Line) /\ DOMAIN leaves = 1..Len(leaves) /\ Len(leaves) \in Nat
      /\ \A n \in 1..Len(leaves) :
           /\ leaves[n].bucket = b /\ leaves[n].index \in Nat
           /\ \E i \in RecordsAt(file.lines) : file.lines[i] = leaves[n]
      /\ \A i \in RecordsAt(file.lines) : file.lines[i].bucket = b =>
           \E n \in 1..Len(leaves) : keyOf(leaves[n]) = keyOf(file.lines[i])
  BY <1>1, RebuiltFacts
<1>4. view[b] = leaves
  BY <1>2
<1>5. \A n \in 1..Len(leaves) : keyOf(leaves[n]) # keyOf(d)
  BY <1>3, <1>4 DEF KnownKeys
<1>6. 1 \in 1..Len(leaves) => leaves[1].decl = d.decl
  BY <1>3, <1>4 DEF declarationFor
<1>7. \A n \in 1..Len(leaves) : leaves[n].index <= Len(leaves)
  <2>1. \A n \in DOMAIN leaves : ~(leaves[n].index > Len(leaves))
    BY <1>1, <1>2 DEF HasGap
  <2>2. QED
    BY <1>3, <2>1
<1>8. r.bucket = b /\ r.index = Len(leaves) /\ keyOf(r) = keyOf(d) /\ r.decl = d.decl
  BY <1>3, LineMembers
<1>9. ASSUME NEW i \in RecordsAt(file.lines), file.lines[i].bucket = b
      PROVE  keyOf(file.lines[i]) # keyOf(d) /\ file.lines[i].decl = d.decl
  <2>1. PICK n \in 1..Len(leaves) : keyOf(leaves[n]) = keyOf(file.lines[i])
    BY <1>3, <1>9
  <2>2. 1 \in 1..Len(leaves)
    BY <1>3
  <2>3. PICK j \in RecordsAt(file.lines) : file.lines[j] = leaves[1] /\ leaves[1].bucket = b
    BY <1>3, <2>2
  <2>4. file.lines[i].decl = file.lines[j].decl
    BY <1>2, <1>9, <2>3 DEF Malformed
  <2>5. QED
    BY <1>5, <1>6, <2>1, <2>2, <2>3, <2>4
<1>10. Extends(file.lines, r)
  <2>1. \E c \in Requests : r = recordOf(c, Len(Rebuilt(file.lines)[c.bucket]))
    OBVIOUS
  <2>2. \A n \in DOMAIN Rebuilt(file.lines)[r.bucket] : Rebuilt(file.lines)[r.bucket][n].index <= r.index
    BY <1>3, <1>7, <1>8
  <2> HIDE DEF r
  <2>3. QED
    BY <1>8, <1>9, <2>1, <2>2 DEF Extends
<1>11. AtItsEnd(r)
  <2>1. \A n \in DOMAIN Rebuilt(file.lines)[r.bucket] : keyOf(Rebuilt(file.lines)[r.bucket][n]) # keyOf(r)
    BY <1>3, <1>5, <1>8
  <2> HIDE DEF r
  <2>2. QED
    BY <2>1 DEF AtItsEnd
<1>12. QED
  BY <1>3, <1>4, <1>10, <1>11

LEMMA CheckAppendHolds ==
  ASSUME StoreInv, TypeInv', legacy' = legacy, CheckAppend
  PROVE  DiskHolds /\ ProcessHolds
<1>1. /\ appender.pc = "ready" /\ Serving /\ DiskKept /\ UNCHANGED <<schedule, flags, view, loader>>
      /\ AppenderInv /\ ServeInv
  BY KeptDisk DEF CheckAppend, StoreInv
<1>2. appender.req \in Requests /\ Settled /\ Clean /\ loader.pc = "idle"
  BY <1>1 DEF AppenderInv, ServeInv
<1>3. DiskHolds /\ LoaderInv' /\ Rebuilt(file'.lines) = Rebuilt(file.lines)
  BY <1>1, KeptBesideAppend
<1>4. ServeInv'
  BY <1>1, <1>2, ServeKept
<1> DEFINE d == appender.req
           r == recordOf(d, Len(view[d.bucket]))
<1>5. CASE appender' = Idle
  <2>1. AppenderInv'
    BY <1>5 DEF AppenderInv, Holding, Idle
  <2>2. QED
    BY <1>3, <1>4, <2>1 DEF ProcessHolds
<1>6. CASE appender' # Idle
  <2>1. /\ keyOf(d) \notin KnownKeys(d.bucket) /\ declarationFor(d.bucket) \ {d.decl} = {}
        /\ appender' = [pc |-> "open", rec |-> r]
    BY <1>6 DEF CheckAppend
  <2>2. Extends(file.lines, r) /\ AtItsEnd(r) /\ Len(view[d.bucket]) \in Nat
    BY <1>1, <1>2, <2>1, CheckedExtends
  <2>3. appender'.pc = "open" /\ appender'.rec = r
    BY <2>1
  <2>4. \E c \in Requests, i \in Nat : r = recordOf(c, i)
    BY <1>2, <2>2
  <2> HIDE DEF r, d
  <2>5. AtItsEnd(appender.rec)'
    BY <1>3, <2>2, <2>3 DEF AtItsEnd
  <2>6. Extends(file'.lines, appender'.rec) /\ Serving' /\ loader'.pc = "idle"
    BY <1>1, <1>2, <2>2, <2>3 DEF DiskKept, flags, Serving
  <2>7. AppenderInv'
    BY <2>3, <2>4, <2>5, <2>6 DEF AppenderInv, Holding
  <2>8. QED
    BY <1>3, <1>4, <2>7 DEF ProcessHolds
<1>7. QED
  BY <1>5, <1>6

\* A record at the end of its bucket is where its index says.
LEMMA AtTheEnd ==
  ASSUME NEW lines \in Seq(Line), NEW r, Extends(lines, r)
  PROVE  /\ AtItsLeaf(Rebuilt(Append(lines, r)), r)
         /\ \A i \in DOMAIN Rebuilt(Append(lines, r))[r.bucket] :
              keyOf(Rebuilt(Append(lines, r))[r.bucket][i]) = keyOf(r) =>
                Rebuilt(Append(lines, r))[r.bucket][i] = r /\ i = r.index + 1
<1> DEFINE old == Rebuilt(lines)[r.bucket]
           new == Rebuilt(Append(lines, r))[r.bucket]
<1>1. /\ r \in Line /\ r.bucket \in Buckets /\ r.index = Len(old)
      /\ Rebuilt(Append(lines, r)) = [Rebuilt(lines) EXCEPT ![r.bucket] = Append(@, r)]
  BY ExtendsRebuilt
<1>2. new = Append(old, r)
  BY <1>1, RebuiltType
<1>3. /\ old \in Seq(Line) /\ Len(old) \in Nat
      /\ \A n \in 1..Len(old) : old[n].bucket = r.bucket /\ \E i \in RecordsAt(lines) : lines[i] = old[n]
  BY <1>1, RebuiltFacts
<1>4. \A n \in 1..Len(old) : keyOf(old[n]) # keyOf(r)
  BY <1>3 DEF Extends
<1> HIDE DEF old
<1>5. /\ Len(new) = Len(old) + 1 /\ DOMAIN new = 1..Len(old) + 1 /\ new[Len(old) + 1] = r
      /\ \A i \in 1..Len(old) : new[i] = old[i]
  <2>1. old \in Seq(Line) /\ r \in Line
    BY <1>1, <1>3
  <2> HIDE DEF new
  <2>2. QED
    BY ONLY <1>2, <2>1, AppendFacts
<1> HIDE DEF new
<1>6. \A i \in DOMAIN new : keyOf(new[i]) = keyOf(r) => new[i] = r /\ i = r.index + 1
  BY <1>1, <1>3, <1>4, <1>5
<1>7. r.index < Len(new) /\ sameRegistrationRecord(new[r.index + 1], r)
  BY <1>1, <1>3, <1>5 DEF sameRegistrationRecord
<1>8. QED
  BY <1>6, <1>7 DEF new, AtItsLeaf

LEMMA WriteRecordHolds ==
  ASSUME StoreInv, TypeInv', legacy' = legacy, WriteRecord
  PROVE  DiskHolds /\ ProcessHolds
<1> DEFINE r == appender.rec
<1>1. /\ appender.pc = "open" /\ Named' = Named /\ UNCHANGED <<forced, schedule, flags, view, loader>>
      /\ TypeInv /\ DiskInv /\ ServeInv /\ LoaderInv /\ AppenderInv /\ StaysLoadable
  BY DEF WriteRecord, StoreInv, path, Named
<1>2. PICK extent \in Extents :
        /\ file' = Written(file, r, extent)
        /\ appender' = [pc |-> "sync", rec |-> r, whole |-> extent = "line"]
  BY DEF WriteRecord
<1>3. /\ Serving /\ loader.pc = "idle" /\ Extends(file.lines, r) /\ AtItsEnd(r)
      /\ \E d \in Requests, i \in Nat : r = recordOf(d, i)
  BY <1>1 DEF AppenderInv, Holding
<1>4. /\ Named /\ Settled /\ Clean /\ view = Rebuilt(PrefixLines)
      /\ ~Malformed(file.lines, schedule) /\ ~HasGap(Rebuilt(file.lines))
  BY <1>1, <1>3 DEF ServeInv
<1>5. /\ DiskHolds
      /\ Rebuilt(PrefixLines)' = Rebuilt(PrefixLines)
      /\ ~Malformed(file'.lines, schedule)
      /\ ~HasGap(Rebuilt(file'.lines))
      /\ file'.lines = file.lines \/ file'.lines = Append(file.lines, r)
      /\ extent = "line" => Clean' /\ LastIsNew' /\ file'.lines = Append(file.lines, r)
  BY <1>1, <1>2, <1>3, <1>4, RecordHolds
<1>6. Serving' /\ loader'.pc = "idle" /\ appender'.pc = "sync" /\ appender'.rec = r
  BY <1>1, <1>2, <1>3 DEF Serving, flags
<1>7. ServeInv'
  BY <1>1, <1>4, <1>5, <1>6 DEF ServeInv
<1>8. LoaderInv'
  BY <1>6 DEF LoaderInv
<1>9. AtItsEnd(appender.rec)'
  <2>1. CASE file'.lines = file.lines
    BY <1>3, <1>6, <2>1 DEF AtItsEnd
  <2>2. CASE file'.lines = Append(file.lines, r)
    <3>1. file.lines \in Seq(Line)
      BY <1>1 DEF TypeInv
    <3>2. \A i \in DOMAIN Rebuilt(file'.lines)[r.bucket] :
            keyOf(Rebuilt(file'.lines)[r.bucket][i]) = keyOf(r) =>
              Rebuilt(file'.lines)[r.bucket][i] = r /\ i = r.index + 1
      BY <1>3, <2>2, <3>1, AtTheEnd
    <3>3. QED
      BY <1>6, <3>2 DEF AtItsEnd
  <2>3. QED
    BY <1>5, <2>1, <2>2
<1>10. /\ appender'.whole \in BOOLEAN
       /\ appender'.whole => Clean' /\ LastIsNew' /\ file'.lines[Len(file'.lines)] = appender'.rec
  <2>1. appender'.whole = (extent = "line")
    BY <1>2
  <2>2. file'.lines = Append(file.lines, r) => file'.lines[Len(file'.lines)] = r
    BY <1>1, <1>3, ExtendsRebuilt, AppendFacts DEF TypeInv
  <2>3. QED
    BY <1>5, <1>6, <2>1, <2>2
<1>11. AppenderInv'
  BY <1>3, <1>6, <1>9, <1>10 DEF AppenderInv, Holding
<1>12. QED
  BY <1>5, <1>7, <1>8, <1>11 DEF ProcessHolds

LEMMA SyncRecordHolds ==
  ASSUME StoreInv, TypeInv', legacy' = legacy, SyncRecord
  PROVE  DiskHolds /\ ProcessHolds
<1> DEFINE r == appender.rec
           P == Front(file.lines)
<1>1. /\ appender.pc = "sync" /\ appender.whole /\ file' = Synced(file) /\ forced' = Size(file)
      /\ view' = [view EXCEPT ![r.bucket] = Append(@, r)]
      /\ appender' = [pc |-> "close", rec |-> r, durable |-> TRUE]
      /\ Named' = Named /\ UNCHANGED <<schedule, flags, loader>>
      /\ TypeInv /\ DiskInv /\ ServeInv /\ LoaderInv /\ AppenderInv
  BY DEF SyncRecord, StoreInv, path, Named
<1>2. /\ Serving /\ loader.pc = "idle" /\ Clean /\ LastIsNew
      /\ file.lines[Len(file.lines)] = r /\ AtItsEnd(r)
      /\ \E d \in Requests, i \in Nat : r = recordOf(d, i)
  BY <1>1 DEF AppenderInv, Holding
<1>3. /\ Named /\ view = Rebuilt(PrefixLines)
      /\ ~Malformed(file.lines, schedule) /\ ~HasGap(Rebuilt(file.lines))
  BY <1>1, <1>2 DEF ServeInv
<1>4. SameLines /\ file'.fragment # "torn" /\ ~file'.bare /\ file'.lines = file.lines
  BY <1>1, <1>2, SyncedLines DEF Clean, SameLines
<1>5. DiskHolds /\ Settled' /\ Clean' /\ Rebuilt(PrefixLines)' = Rebuilt(file.lines)
  BY <1>1, <1>4, SameLinesHold, DiskSame DEF StoreInv, Clean
<1>6. Rebuilt(file.lines) = [Rebuilt(PrefixLines) EXCEPT ![r.bucket] = Append(@, r)]
  BY <1>1, <1>2, NewRebuilt
<1>7. Serving' /\ loader'.pc = "idle" /\ appender'.pc = "close" /\ appender'.rec = r /\ appender'.durable = TRUE
  BY <1>1, <1>2 DEF Serving, flags
<1>8. ServeInv'
  <2>1. view' = Rebuilt(PrefixLines)'
    BY <1>1, <1>3, <1>5, <1>6
  <2>2. QED
    BY <1>1, <1>3, <1>4, <1>5, <1>7, <2>1 DEF ServeInv
<1>9. LoaderInv'
  BY <1>7 DEF LoaderInv
<1>10. AtItsLeaf(Rebuilt(file.lines), r)
  <2>1. file.lines # <<>> /\ file.lines \in Seq(Line)
    BY <1>1, <1>2, NewRebuilt DEF TypeInv
  <2>2. P \in Seq(Line) /\ file.lines = Append(P, r)
    BY <1>2, <2>1, FrontFacts
  <2>3. Extends(P, r)
    BY <1>2 DEF LastIsNew
  <2> HIDE DEF P, r
  <2>4. AtItsLeaf(Rebuilt(Append(P, r)), r)
    BY <2>2, <2>3, AtTheEnd
  <2>5. QED
    BY <2>2, <2>4
<1>11. AtItsEnd(appender.rec)'
  BY <1>2, <1>4, <1>7, EndKept
<1>12. AtItsLeaf(Rebuilt(PrefixLines), appender.rec)'
  BY <1>5, <1>7, <1>10
<1>13. AppenderInv'
  BY <1>2, <1>5, <1>7, <1>11, <1>12 DEF AppenderInv, Holding
<1>14. QED
  BY <1>5, <1>8, <1>9, <1>13 DEF ProcessHolds

\* A step that marks the store, or leaves it as it was, and ends or retries the append.
LEMMA MarkHolds ==
  ASSUME StoreInv, TypeInv', legacy' = legacy, WriteFails \/ CatchWrite \/ OpenFails
  PROVE  DiskHolds /\ ProcessHolds
<1>1. /\ DiskKept /\ UNCHANGED <<schedule, view, loader>> /\ ~Serving' /\ appender.pc \in Holding
      /\ \/ appender' = [pc |-> "retry", rec |-> appender.rec]
         \/ appender' = [pc |-> "close", rec |-> appender.rec, durable |-> FALSE]
  <2>1. CASE WriteFails
    BY <2>1, KeptDisk DEF WriteFails, mark, Serving, Holding
  <2>2. CASE CatchWrite
    BY <2>2, KeptDisk DEF CatchWrite, mark, Serving, Holding
  <2>3. CASE OpenFails
    BY <2>3, KeptDisk DEF OpenFails, mark, Serving, Holding
  <2>4. QED
    BY <2>1, <2>2, <2>3
<1>2. AppenderInv
  BY DEF StoreInv
<1>3. DiskHolds /\ LoaderInv' /\ Rebuilt(file'.lines) = Rebuilt(file.lines)
  BY <1>1, KeptBesideAppend
<1>4. ServeInv'
  BY <1>1 DEF ServeInv
<1>5. appender'.rec = appender.rec /\ AtItsEnd(appender.rec)'
      /\ \E d \in Requests, i \in Nat : appender.rec = recordOf(d, i)
  BY <1>1, <1>2, <1>3, EndKept DEF AppenderInv
<1>6. AppenderInv'
  <2>1. CASE appender' = [pc |-> "retry", rec |-> appender.rec]
    BY <1>5, <2>1 DEF AppenderInv, Holding
  <2>2. CASE appender' = [pc |-> "close", rec |-> appender.rec, durable |-> FALSE]
    BY <1>5, <2>2 DEF AppenderInv, Holding
  <2>3. QED
    BY <1>1, <2>1, <2>2
<1>7. QED
  BY <1>3, <1>4, <1>6 DEF ProcessHolds

LEMMA EndAppendHolds ==
  ASSUME StoreInv, TypeInv', legacy' = legacy, CloseRecord \/ RetryFails
  PROVE  /\ DiskHolds /\ ProcessHolds
         /\ \A r \in acked' : r \in acked \/ AtItsLeaf(Rebuilt(PrefixLines), r)
<1>1. /\ DiskKept /\ UNCHANGED <<schedule, flags, view, loader>> /\ appender' = Idle
      /\ \/ acked' = acked
         \/ /\ appender.pc = "close" /\ appender.durable
            /\ acked' = acked \cup {appender.rec}
      /\ appender.pc \in {"close", "retry"}
  BY KeptDisk DEF CloseRecord, RetryFails, history
<1>2. AppenderInv /\ ServeInv
  BY DEF StoreInv
<1>3. DiskHolds /\ LoaderInv'
  BY <1>1, KeptBesideAppend
<1>4. ServeInv'
  BY <1>1, <1>2, ServeKept DEF ServeInv
<1>5. AppenderInv'
  BY <1>1 DEF AppenderInv, Holding, Idle
<1>6. \A r \in acked' : r \in acked \/ AtItsLeaf(Rebuilt(PrefixLines), r)
  BY <1>1, <1>2 DEF AppenderInv
<1>7. QED
  BY <1>1, <1>3, <1>4, <1>5, <1>6 DEF ProcessHolds

LEMMA RetryBarrierHolds ==
  ASSUME StoreInv, TypeInv', legacy' = legacy, RetryBarrier
  PROVE  DiskHolds /\ ProcessHolds
<1>1. /\ appender.pc = "retry" /\ file' = Synced(file) /\ forced' = Size(file)
      /\ loader' = IF loader.pc = "idle" THEN [loader EXCEPT !.pc = "barrier"] ELSE loader
      /\ Named' = Named /\ UNCHANGED <<schedule, flags, view>>
      /\ TypeInv /\ DiskInv /\ ServeInv /\ LoaderInv /\ AppenderInv
  BY DEF RetryBarrier, StoreInv, path, Named
<1>2. /\ appender' = [pc |-> "join", rec |-> appender.rec] /\ AtItsEnd(appender.rec)
      /\ \E d \in Requests, i \in Nat : appender.rec = recordOf(d, i)
  BY <1>1 DEF AppenderInv, Holding, RetryBarrier
<1>3. /\ SameLines /\ (file'.fragment = "torn" <=> file.fragment = "torn")
      /\ file'.bare = file.bare /\ file'.lines = file.lines
  BY <1>1, SyncedLines DEF SameLines
<1>4. DiskHolds /\ Settled' /\ Rebuilt(PrefixLines)' = Rebuilt(file.lines)
  BY <1>1, <1>3, SameLinesHold, DiskSame DEF StoreInv
<1>5. loader'.pc # "idle"
  BY <1>1 DEF TypeInv
<1>6. LoaderInv'
  <2>1. CASE loader.pc = "idle"
    <3>1. loader'.pc = "barrier"
      BY <1>1, <2>1 DEF TypeInv
    <3>2. QED
      BY <3>1 DEF LoaderInv
  <2>2. CASE loader.pc # "idle"
    <3>1. loader' = loader /\ schedule' = schedule /\ Named' = Named
      BY <1>1, <2>2
    <3>2. QED
      BY <1>1, <1>3, <1>4, <3>1 DEF LoaderInv, Clean
  <2>3. QED
    BY <2>1, <2>2
<1>7. ServeInv'
  <2>1. Serving' = Serving
    BY <1>1 DEF Serving, flags
  <2>2. CASE Serving
    <3>1. Settled /\ Clean /\ Named /\ view = Rebuilt(PrefixLines)
          /\ ~Malformed(file.lines, schedule) /\ ~HasGap(Rebuilt(file.lines))
      BY <1>1, <2>2 DEF ServeInv
    <3>2. view' = Rebuilt(PrefixLines)'
      BY <1>1, <1>4, <3>1, SettledRebuilt
    <3>3. QED
      BY <1>1, <1>2, <1>3, <1>4, <3>1, <3>2 DEF ServeInv, Clean
  <2>3. CASE ~Serving
    BY <2>1, <2>3 DEF ServeInv
  <2>4. QED
    BY <2>2, <2>3
<1>8. AtItsEnd(appender.rec)'
  BY <1>2, <1>3, EndKept
<1>9. AppenderInv'
  BY <1>2, <1>5, <1>8 DEF AppenderInv, Holding
<1>10. QED
  BY <1>4, <1>6, <1>7, <1>9 DEF ProcessHolds

-----------------------------------------------------------------------------
(* The invariant.                                                          *)

LEMMA StoreInit ==
  ASSUME Init
  PROVE  StoreInv
<1>1. PICK f \in InitialFiles :
        /\ file = [lines |-> f.lines, bare |-> FALSE, fragment |-> "none"]
        /\ forced = 2 * Len(f.lines)
        /\ IF f.lines = <<>>
           THEN lacking \in 0..PathDirs /\ unforced = {0}
           ELSE lacking = 0 /\ unforced = {}
        /\ legacy = Len(f.lines) /\ acked = f.acked
  BY DEF Init
<1>2. /\ f.lines \in Seq({f.lines[i] : i \in DOMAIN f.lines})
      /\ \A r \in f.acked :
           r.bucket \in Buckets /\ r.index \in Nat /\ AtItsLeaf(Rebuilt(f.lines), r)
  BY FilesAssumption
<1>3. f.lines \in Seq(Line)
  <2>1. \A i \in DOMAIN f.lines : f.lines[i] \in Line
    BY DEF Line, OldLines
  <2>2. DOMAIN f.lines = 1..Len(f.lines) /\ Len(f.lines) \in Nat /\ f.lines = [i \in 1..Len(f.lines) |-> f.lines[i]]
    BY <1>2
  <2>3. QED
    BY <2>1, <2>2, IsASequence
<1>4. /\ schedule \in Schedules /\ loaded = FALSE /\ stale = FALSE /\ unbarriered = FALSE
      /\ loader = [pc |-> "idle", lines |-> <<>>] /\ appender.pc = "idle"
  BY DEF Init, Idle
<1>5. Len(f.lines) \in Nat /\ file.lines = f.lines /\ ~file.bare /\ file.fragment = "none"
  BY <1>1, <1>3
<1>6. TypeInv
  <2>1. loader \in [pc : LoaderPcs, lines : Seq(Line)] /\ appender.pc \in AppenderPcs
    BY <1>4 DEF LoaderPcs, AppenderPcs
  <2>2. /\ file.lines \in Seq(Line) /\ file.bare \in BOOLEAN /\ file.fragment \in {"none", "torn", "cut"}
        /\ file = [lines |-> file.lines, bare |-> file.bare, fragment |-> file.fragment]
    BY <1>1, <1>3
  <2>3. forced \in Nat /\ legacy \in Nat
    BY <1>1, <1>5
  <2>4. \A r \in acked : IsRecord(r)
    BY <1>1, <1>2 DEF IsRecord
  <2>5. QED
    BY <1>4, <2>1, <2>2, <2>3, <2>4 DEF TypeInv
<1>7. Size(file) = 2 * Len(file.lines) /\ forced = 2 * Len(file.lines)
  BY <1>1, <1>5, SizeOf
<1>8. ForcedCount = Len(file.lines) /\ Settled
  <2>1. \A n \in Nat : (2 * n + 1) \div 2 = n
    OBVIOUS
  <2>2. ForcedCount = Len(file.lines)
    BY <1>5, <1>7, <2>1 DEF ForcedCount
  <2>3. QED
    BY <1>5, <2>2 DEF Settled
<1>9. DiskInv
  <2>1. ~Named => RecordsAt(file.lines) = {} /\ legacy = 0
    <3>1. ~Named => f.lines = <<>>
      BY <1>1 DEF Named
    <3>2. RecordsAt(<<>>) = {} /\ Len(<<>>) = 0
      BY DEF RecordsAt
    <3>3. QED
      BY <1>1, <1>5, <3>1, <3>2
  <2>2. forced <= Size(file) /\ 2 * legacy <= forced
    BY <1>1, <1>5, <1>7
  <2>3. QED
    BY <1>5, <1>8, <2>1, <2>2 DEF DiskInv
<1>10. ServeInv /\ LoaderInv /\ AppenderInv
  BY <1>4 DEF ServeInv, Serving, LoaderInv, AppenderInv, Holding
<1>11. Rebuilt(PrefixLines) = Rebuilt(f.lines)
  BY <1>5, <1>6, <1>8, <1>9, SettledRebuilt
<1>12. AckedAtTheirLeaf
  BY <1>1, <1>2, <1>11 DEF AckedAtTheirLeaf
<1>13. StaysLoadable
  <2>1. SubSeq(file.lines, 1, legacy) = file.lines
    BY <1>1, <1>3, <1>5
  <2>2. QED
    BY <2>1 DEF StaysLoadable
<1>14. PathInv
  <2>1. boundary = 0
    BY DEF Init
  <2>2. CASE f.lines = <<>>
    <3>1. lacking \in Nat /\ unforced = {0} /\ legacy = 0 /\ file = NoFile
      BY <1>1, <2>2, ConstantsAssumption DEF NoFile
    <3>2. QED
      BY <1>4, <2>1, <3>1 DEF Init, PathInv, Early
  <2>3. CASE f.lines # <<>>
    BY <1>1, <1>4, <2>1, <2>3 DEF Init, PathInv
  <2>4. QED
    BY <2>2, <2>3
<1>15. QED
  BY <1>6, <1>9, <1>10, <1>12, <1>13, <1>14 DEF StoreInv

\* Nothing is left of no file.
LEMMA NothingSurvives ==
  ASSUME NEW g \in Survivors(NoFile, forced), forced \in Nat
  PROVE  g = NoFile
<1>1. NoFile.lines = <<>> /\ NoFile.fragment = "none" /\ Size(NoFile) = 0
  BY SizeOf DEF NoFile
<1>2. PICK n \in 0..Len(NoFile.lines) : g.lines = SubSeq(NoFile.lines, 1, n)
  BY DEF Survivors
<1>3. g.lines = <<>>
  BY <1>1, <1>2
<1>4. /\ g.bare \in BOOLEAN /\ g.fragment \in {"none", "torn"}
      /\ g = [lines |-> g.lines, bare |-> g.bare, fragment |-> g.fragment]
      /\ g.bare => Len(g.lines) > 0
      /\ Size(g) \in forced..Size(NoFile)
      /\ g.fragment = "torn" => ~g.bare /\ (Size(g) < Size(NoFile) \/ NoFile.fragment # "none")
  BY DEF Survivors
<1>5. ~g.bare /\ Size(g) = 0
  BY <1>3, <1>4, SizeOf
<1>6. g.fragment = "none"
  BY <1>1, <1>4, <1>5
<1>7. QED
  BY <1>3, <1>4, <1>5, <1>6 DEF NoFile

\* A step that makes or flushes no directory.
LEMMA PathStays ==
  ASSUME PathInv, legacy' = legacy, UNCHANGED <<path, dirEnsured, boundary>>,
         lacking = 0 \/ file' = file \/ file' = Synced(file),
         lacking = 0 \/ (loaded' = loaded /\ (loader'.pc = loader.pc \/ loader'.pc \in Early)),
         loader'.pc = "install" => loader.pc = "install"
  PROVE  PathInv'
<1>1. Synced(NoFile) = NoFile
  BY DEF Synced, NoFile
<1>2. lacking' = lacking /\ unforced' = unforced /\ boundary' = boundary /\ dirEnsured' = dirEnsured
  BY DEF path
<1>3. lacking > 0 => file' = NoFile /\ loaded' = loaded /\ loader'.pc \in Early
  <2>1. lacking > 0 => lacking # 0 /\ file = NoFile /\ loader.pc \in Early
    BY DEF PathInv
  <2>2. QED
    BY <1>1, <2>1
<1>4. QED
  BY <1>2, <1>3 DEF PathInv

\* Directories made by the load, or by somebody else.
LEMMA MadeLevels ==
  ASSUME PathInv, NEW n \in 0..lacking, MakeDownTo(n)
  PROVE  /\ lacking' \in Nat /\ lacking' <= lacking /\ unforced' \subseteq Nat
         /\ unforced \subseteq unforced' /\ unforced' \subseteq unforced \cup 0..lacking
         /\ n = lacking \/ lacking = 0 => unforced' = unforced
         /\ unforced' # {} => unforced # {}
<1>1. lacking \in Nat /\ unforced \subseteq Nat /\ n \in Nat /\ n <= lacking
  BY DEF PathInv
<1>2. (n + 1)..lacking \subseteq 0..lacking /\ (n = lacking => (n + 1)..lacking = {})
  BY <1>1
<1>3. lacking # 0 => unforced # {}
  BY <1>1 DEF PathInv
<1>4. QED
  BY <1>1, <1>2, <1>3 DEF MakeDownTo

LEMMA PathNext ==
  ASSUME StoreInv, TypeInv', legacy' = legacy, [Next]_vars
  PROVE  PathInv'
<1>1. PathInv /\ TypeInv
  BY DEF StoreInv
<1>2. lacking > 0 \/ lacking = 0
  BY <1>1 DEF PathInv
<1>3. CASE LoadMkdir
  <2>1. /\ MakeDownTo(0) /\ 0 \in 0..lacking /\ lacking' = 0
        /\ boundary' = IF boundary = 0 THEN lacking ELSE boundary
        /\ loader'.pc = "read" /\ dirEnsured' = dirEnsured
    BY <1>1, <1>3 DEF LoadMkdir, MakePath, MakeDownTo, PathInv, TypeInv
  <2>2. /\ unforced' \subseteq Nat /\ unforced' \subseteq unforced \cup 0..lacking
        /\ lacking = 0 => unforced' = unforced
        /\ unforced' # {} => unforced # {}
    BY <1>1, <2>1, MadeLevels
  <2>3. boundary' \in Nat /\ (lacking > 0 => boundary' = lacking) /\ (lacking = 0 => boundary' = boundary)
    BY <1>1, <2>1 DEF PathInv
  <2>4. ~OrphanDirs => unforced' \subseteq 0..boundary'
    <3>1. CASE lacking = 0
      BY <1>1, <2>2, <2>3, <3>1 DEF PathInv
    <3>2. CASE lacking > 0
      <4>1. ~OrphanDirs => unforced \subseteq 0..lacking
        BY <1>1, <3>2 DEF PathInv
      <4>2. QED
        BY <2>2, <2>3, <3>2, <4>1
    <3>3. QED
      BY <1>2, <3>1, <3>2
  <2>5. ~OrphanDirs /\ dirEnsured' => unforced' = {}
    BY <1>1, <2>1, <2>2 DEF PathInv
  <2>6. unforced' # {} => legacy' = 0
    BY <1>1, <2>2 DEF PathInv
  <2>7. QED
    BY <2>1, <2>2, <2>3, <2>4, <2>5, <2>6 DEF PathInv
<1>4. CASE MkdirFails \/ Call
  <2>1. PICK n \in 0..lacking : MakeDownTo(n) /\ (n = lacking \/ OrphanDirs)
    BY <1>1, <1>4 DEF MkdirFails, Call, OthersMakeDirs, PathInv
  <2>2. UNCHANGED <<file, loaded, boundary, dirEnsured>> /\ loader'.pc \in {"idle", "barrier", "mkdir"}
    BY <1>1, <1>4 DEF MkdirFails, Call, RejectLoad, flags, TypeInv
  <2>3. /\ lacking' \in Nat /\ lacking' <= lacking /\ unforced' \subseteq Nat
        /\ unforced \subseteq unforced' /\ (unforced' # {} => unforced # {})
        /\ n = lacking => unforced' = unforced
    BY <1>1, <2>1, MadeLevels
  <2>4. lacking' > 0 => lacking > 0
    BY <1>1, <2>3 DEF PathInv
  <2>5. ~OrphanDirs => unforced' = unforced
    BY <2>1, <2>3
  <2>6. QED
    BY <1>1, <2>2, <2>3, <2>4, <2>5 DEF PathInv, Early
<1>5. CASE LoadDir \/ DirFails
  <2>1. loader.pc = "dir" /\ lacking = 0
    <3>1. loader.pc = "dir"
      BY <1>5 DEF LoadDir, DirFails
    <3>2. QED
      BY <1>1, <1>2, <3>1 DEF PathInv, Early
  <2>2. /\ unforced' \subseteq unforced /\ UNCHANGED <<file, lacking, loaded, boundary>>
        /\ loader'.pc = "install" => dirEnsured'
    <3>1. CASE LoadDir
      BY <3>1 DEF LoadDir
    <3>2. CASE DirFails
      BY <3>2 DEF DirFails, RejectLoad
    <3>3. QED
      BY <1>5, <3>1, <3>2
  <2>3. ~OrphanDirs /\ dirEnsured' => unforced' = {}
    <3>1. CASE LoadDir
      BY <1>1, <3>1 DEF LoadDir, PathInv
    <3>2. CASE DirFails
      BY <1>1, <3>2 DEF DirFails, RejectLoad, PathInv
    <3>3. QED
      BY <1>5, <3>1, <3>2
  <2>4. /\ lacking' = 0 /\ boundary' \in Nat /\ unforced' \subseteq Nat
        /\ unforced' # {} => legacy' = 0
    BY <1>1, <2>1, <2>2 DEF PathInv
  <2>5. ~OrphanDirs => unforced' \subseteq 0..boundary'
    <3>1. ~OrphanDirs => unforced \subseteq 0..boundary
      BY <1>1 DEF PathInv
    <3>2. QED
      BY <2>2, <3>1
  <2>6. QED
    BY <2>2, <2>3, <2>4, <2>5 DEF PathInv
<1>6. CASE Kill
  <2>1. UNCHANGED <<file, lacking, unforced>> /\ NewProcess /\ (OrphanDirs \/ unforced \subseteq {0})
    BY <1>6 DEF Kill, disk, path
  <2>2. loader'.pc = "idle" /\ boundary' = 0 /\ dirEnsured' = FALSE /\ loaded' = FALSE
    BY <2>1 DEF NewProcess
  <2>3. /\ lacking \in Nat /\ unforced \subseteq Nat
        /\ lacking > 0 => 0 \in unforced /\ file = NoFile
        /\ unforced # {} => legacy = 0
    BY <1>1 DEF PathInv
  <2>4. ~OrphanDirs => unforced' \subseteq 0..boundary'
    BY <2>1, <2>2, <2>3
  <2>5. QED
    BY <2>1, <2>2, <2>3, <2>4 DEF PathInv, Early
<1>7. CASE PowerLoss
  <2>1. loader'.pc = "idle" /\ boundary' = 0 /\ dirEnsured' = FALSE /\ loaded' = FALSE
    BY <1>7 DEF PowerLoss, NewProcess
  <2>2. unforced' = (IF file' = NoFile THEN {0} ELSE {}) /\ unforced' \subseteq {0}
    BY <1>7 DEF PowerLoss
  <2>3. lacking' \in Nat /\ (lacking' > 0 => file' = NoFile)
    <3>1. CASE lacking' \in unforced \ {0} /\ file' = NoFile
      BY <1>1, <3>1 DEF PathInv
    <3>2. CASE lacking' = lacking /\ file' = NoFile
      BY <1>1, <3>2 DEF PathInv
    <3>3. CASE lacking' = lacking /\ file' \in Survivors(file, forced)
      <4>1. lacking > 0 => file = NoFile
        BY <1>1 DEF PathInv
      <4>2. file = NoFile => file' = NoFile
        <5>1. SUFFICES ASSUME file = NoFile
                       PROVE  file' = NoFile
          OBVIOUS
        <5>2. forced \in Nat
          BY <1>1 DEF TypeInv
        <5>3. file' \in Survivors(NoFile, forced)
          BY <3>3, <5>1
        <5>4. QED
          BY <5>2, <5>3, NothingSurvives
      <4>3. QED
        BY <1>1, <3>3, <4>1, <4>2 DEF PathInv
    <3>4. QED
      BY <1>7, <3>1, <3>2, <3>3 DEF PowerLoss
  <2>4. unforced' # {} => legacy' = 0
    <3>1. CASE file' # NoFile
      BY <2>2, <3>1
    <3>2. CASE file' = NoFile
      <4>1. Size(NoFile) = 0
        BY SizeOf DEF NoFile
      <4>2. forced' = 0 /\ 2 * legacy' <= forced' /\ legacy' \in Nat
        BY <1>7, <3>2, <4>1, PowerHolds DEF PowerLoss, DiskHolds, DiskInv, TypeInv, StoreInv
      <4>3. QED
        BY <4>2
    <3>3. QED
      BY <3>1, <3>2
  <2>5. QED
    BY <2>1, <2>2, <2>3, <2>4 DEF PathInv, Early
<1>8. CASE LoadBarrier \/ LoadRead \/ LoadRepair \/ LoadTerminate \/ LoadStamp \/ LoadInstall \/ LoadFails
  <2>1. /\ UNCHANGED <<path, dirEnsured, boundary>>
        /\ lacking = 0 \/ file' = file \/ file' = Synced(file)
        /\ lacking = 0 \/ (loaded' = loaded /\ loader'.pc \in Early)
        /\ loader'.pc # "install"
    <3>1. loader.pc \notin Early => lacking = 0
      BY <1>1, <1>2 DEF PathInv
    <3>2. loader \in [pc : LoaderPcs, lines : Seq(Line)]
      BY <1>1 DEF TypeInv
    <3>3. CASE LoadBarrier
      BY <3>2, <3>3 DEF LoadBarrier, flags, disk, Early
    <3>4. CASE LoadRead
      BY <3>1, <3>4 DEF LoadRead, RejectLoad, flags, disk, Early
    <3>5. CASE LoadRepair
      BY <3>1, <3>2, <3>5 DEF LoadRepair, flags, Early
    <3>6. CASE LoadTerminate
      BY <3>1, <3>2, <3>6 DEF LoadTerminate, RejectLoad, flags, Early
    <3>7. CASE LoadStamp
      BY <3>1, <3>2, <3>7 DEF LoadStamp, RejectLoad, flags, disk, Early
    <3>8. CASE LoadInstall
      BY <3>1, <3>8 DEF LoadInstall, RejectLoad, disk, Early
    <3>9. CASE LoadFails
      BY <3>9 DEF LoadFails, RejectLoad, disk, Early
    <3>10. QED
      BY <1>8, <3>3, <3>4, <3>5, <3>6, <3>7, <3>8, <3>9
  <2>2. QED
    BY <1>1, <2>1, PathStays
<1>9. CASE AppendStep \/ OpenFails \/ RetryFails \/ (\E d \in Requests : BeginAppend(d)) \/ TroubleEnds \/ UNCHANGED vars
  <2>1. UNCHANGED <<path, dirEnsured, boundary, loaded>>
    BY <1>9 DEF AppendStep, CheckAppend, WriteRecord, SyncRecord, WriteFails, CloseRecord, CatchWrite,
       RetryBarrier, OpenFails, RetryFails, BeginAppend, TroubleEnds, vars, flags, disk
  <2>2. lacking = 0 \/ file' = file \/ file' = Synced(file)
    <3>1. CASE WriteRecord
      <4>1. loaded
        BY <3>1 DEF WriteRecord, StoreInv, AppenderInv, Serving
      <4>2. QED
        BY <1>1, <1>2, <4>1 DEF PathInv
    <3>2. CASE ~WriteRecord
      BY <1>9, <3>2 DEF AppendStep, CheckAppend, SyncRecord, WriteFails, CloseRecord, CatchWrite,
         RetryBarrier, OpenFails, RetryFails, BeginAppend, TroubleEnds, vars, disk
    <3>3. QED
      BY <3>1, <3>2
  <2>3. loader' = loader \/ loader'.pc = "barrier"
    <3>1. CASE RetryBarrier
      BY <1>1, <3>1 DEF RetryBarrier, TypeInv
    <3>2. CASE ~RetryBarrier
      BY <1>9, <3>2 DEF AppendStep, CheckAppend, WriteRecord, SyncRecord, WriteFails, CloseRecord, CatchWrite,
         OpenFails, RetryFails, BeginAppend, TroubleEnds, vars
    <3>3. QED
      BY <3>1, <3>2
  <2>4. QED
    BY <1>1, <2>1, <2>2, <2>3, PathStays DEF Early
<1>10. QED
  BY <1>3, <1>4, <1>5, <1>6, <1>7, <1>8, <1>9 DEF Next, LoadStep, Fault

\* A step adds to the reported records only what stands at its leaf.
Reports == \A r \in acked' : r \in acked \/ AtItsLeaf(Rebuilt(PrefixLines), r)

LEMMA StepHolds ==
  ASSUME StoreInv, TypeInv', legacy' = legacy, [Next]_vars
  PROVE  DiskHolds /\ ProcessHolds /\ Reports
<1>1. ASSUME acked' = acked PROVE Reports
  BY <1>1 DEF Reports
<1>2. CASE LoadStep
  <2>1. CASE LoadInstall
    BY <2>1, LoadInstallHolds DEF Reports
  <2>2. CASE ~LoadInstall
    <3>1. acked' = acked
      BY <1>2, <2>2 DEF LoadStep, LoadBarrier, LoadRead, LoadRepair, LoadTerminate, LoadStamp, LoadDir,
         LoadMkdir, MakePath, RejectLoad, history
    <3>2. DiskHolds /\ ProcessHolds
      BY <1>2, <2>2, LoadBarrierHolds, LoadMkdirHolds, LoadReadHolds, LoadRepairHolds,
         LoadTerminateHolds, LoadStampHolds, LoadDirHolds DEF LoadStep
    <3>3. QED
      BY <1>1, <3>1, <3>2
  <2>3. QED
    BY <2>1, <2>2
<1>3. CASE CloseRecord \/ RetryFails
  BY <1>3, EndAppendHolds DEF Reports
<1>4. CASE CheckAppend \/ WriteRecord \/ SyncRecord \/ WriteFails \/ CatchWrite \/ OpenFails \/ RetryBarrier
  <2>1. acked' = acked
    BY <1>4 DEF CheckAppend, WriteRecord, SyncRecord, WriteFails, CatchWrite, OpenFails, RetryBarrier, history
  <2>2. DiskHolds /\ ProcessHolds
    BY <1>4, CheckAppendHolds, WriteRecordHolds, SyncRecordHolds, MarkHolds, RetryBarrierHolds
  <2>3. QED
    BY <1>1, <2>1, <2>2
<1>5. CASE Call \/ LoadFails \/ MkdirFails \/ DirFails \/ \E d \in Requests : BeginAppend(d)
  <2>1. acked' = acked
    BY <1>5 DEF Call, LoadFails, MkdirFails, DirFails, RejectLoad, BeginAppend, history
  <2>2. DiskHolds /\ ProcessHolds
    BY <1>5, CallHolds, LoadFailsHolds, BeginAppendHolds
  <2>3. QED
    BY <1>1, <2>1, <2>2
<1>6. CASE Kill
  <2>1. NewProcess /\ UNCHANGED <<disk, history>>
    BY <1>6 DEF Kill
  <2>2. SameLines
    BY <2>1, KeptLines DEF StoreInv
  <2>3. DiskHolds
    BY <2>2, SameLinesHold DEF StoreInv
  <2>4. QED
    BY <1>1, <2>1, <2>3, NewProcessHolds DEF history
<1>7. CASE PowerLoss
  <2>1. NewProcess /\ acked' = acked
    BY <1>7 DEF PowerLoss, history
  <2>2. DiskHolds
    BY <1>7, PowerHolds DEF StoreInv
  <2>3. QED
    BY <1>1, <2>1, <2>2, NewProcessHolds
<1>8. CASE TroubleEnds \/ UNCHANGED vars
  <2>1. DiskKept /\ UNCHANGED <<schedule, flags, view, loader, appender, history>>
    BY <1>8, KeptDisk DEF TroubleEnds, vars
  <2>2. ServeInv /\ AppenderInv
    BY DEF StoreInv
  <2>3. /\ DiskHolds /\ LoaderInv' /\ Rebuilt(file'.lines) = Rebuilt(file.lines)
        /\ PrefixLines' = PrefixLines /\ (Settled => Settled') /\ (Clean => Clean')
        /\ LastIsNew => LastIsNew'
    BY <2>1, KeptBesideAppend
  <2>4. ServeInv'
    BY <2>1, <2>2, ServeKept DEF ServeInv
  <2>5. Serving' = Serving /\ file' = file
    BY <2>1 DEF Serving, flags, DiskKept
  <2>6. appender.pc \in Holding => AtItsEnd(appender.rec)'
    BY <2>1, <2>2, <2>3, EndKept DEF AppenderInv
  <2>7. Rebuilt(PrefixLines)' = Rebuilt(PrefixLines)
    BY <2>3
  <2>8. AppenderInv'
    BY <2>1, <2>2, <2>3, <2>5, <2>6, <2>7 DEF AppenderInv, Holding
  <2>9. QED
    BY <1>1, <2>1, <2>3, <2>4, <2>8 DEF ProcessHolds, history
<1>9. QED
  BY <1>2, <1>3, <1>4, <1>5, <1>6, <1>7, <1>8 DEF Next, AppendStep, Fault

LEMMA StoreNext ==
  ASSUME StoreInv, [Next]_vars
  PROVE  StoreInv' /\ (~OrphanDirs => Grows(Rebuilt(PrefixLines), Rebuilt(PrefixLines)'))
<1>1. TypeInv' /\ legacy' = legacy
  BY TypeNext
<1>2. DiskHolds /\ ProcessHolds /\ Reports
  BY <1>1, StepHolds
<1>3. /\ DiskInv' /\ StaysLoadable' /\ ServeInv' /\ LoaderInv' /\ AppenderInv'
      /\ ~OrphanDirs => Grows(Rebuilt(PrefixLines), Rebuilt(PrefixLines)')
  BY <1>2 DEF DiskHolds, ProcessHolds
<1>4. ASSUME ~OrphanDirs PROVE AckedAtTheirLeaf'
  <2>1. Rebuilt(PrefixLines) \in [Buckets -> Seq(Line)]
    BY ForcedFacts, RebuiltType DEF StoreInv
  <2>2. Rebuilt(PrefixLines)' \in [Buckets -> Seq(Line)]
    <3>1. file'.lines \in Seq(Line) /\ file'.bare \in BOOLEAN /\ forced' \in Nat /\ forced' <= Size(file')
      BY <1>1, <1>3 DEF TypeInv, DiskInv
    <3>2. (forced' + 1) \div 2 \in 0..Len(file'.lines)
      BY ONLY <3>1, CountFacts
    <3>3. PrefixLines' \in Seq(Line)
      BY <3>1, <3>2, PrefixFacts DEF PrefixLines, ForcedCount
    <3>4. QED
      BY <3>3, RebuiltType
  <2>3. ASSUME NEW r \in acked' PROVE AtItsLeaf(Rebuilt(PrefixLines)', r)
    <3>1. IsRecord(r)
      BY <1>1 DEF TypeInv, IsRecord
    <3>2. AtItsLeaf(Rebuilt(PrefixLines), r)
      BY <1>2, <1>4 DEF Reports, StoreInv, AckedAtTheirLeaf
    <3>3. QED
      BY <1>3, <1>4, <2>1, <2>2, <3>1, <3>2, GrowsKeepLeaf
  <2>4. QED
    BY <2>3 DEF AckedAtTheirLeaf
<1>5. PathInv'
  BY <1>1, PathNext
<1>6. QED
  BY <1>1, <1>3, <1>4, <1>5 DEF StoreInv

\* What a restart rebuilds from the lines no power loss can take, is what the
\* forced lines hold: while it can take the file itself they hold no record.
ForcedIsPrefix == Rebuilt(ForcedLines) = Rebuilt(PrefixLines)

LEMMA ForcedLeaves ==
  ASSUME ~OrphanDirs, StoreInv
  PROVE  ForcedIsPrefix
<1>1. file.lines \in Seq(Line) /\ DiskInv /\ TypeInv
  BY DEF StoreInv, TypeInv
<1>2. CASE unforced = {}
  BY <1>2 DEF ForcedIsPrefix, ForcedLines, PrefixLines, ForcedCount
<1>3. CASE unforced # {}
  <2>1. ForcedLines = <<>> /\ RecordsAt(file.lines) = {}
    BY <1>1, <1>3 DEF ForcedLines, DiskInv, Named
  <2>2. Settled
    BY <2>1 DEF Settled
  <2>3. SubSeq(file.lines, 1, 0) = <<>> /\ 0 \in 0..Len(file.lines)
    BY <1>1
  <2>4. Rebuilt(SubSeq(file.lines, 1, 0)) = Rebuilt(file.lines)
    BY <1>1, <2>1, <2>3, PrefixOf
  <2>5. QED
    BY <1>1, <2>1, <2>2, <2>3, <2>4, SettledRebuilt DEF ForcedIsPrefix
<1>4. QED
  BY <1>2, <1>3

-----------------------------------------------------------------------------
(* The theorems.  Those of what a power loss can take hold when everything  *)
(* made of the path is flushed by who made it; where directories are left   *)
(* to chance a reported registration can be lost with them.                 *)

\* What a deployment starts from satisfies the invariant of the store and every
\* step of a call, a load, an append or a fault keeps it (FileBackend), whoever
\* makes the directories.
THEOREM StoreStaysSound == Spec => []StoreInv
<1>1. Init => StoreInv
  BY StoreInit
<1>2. StoreInv /\ [Next]_vars => StoreInv'
  BY StoreNext
<1>3. QED
  BY <1>1, <1>2, PTL DEF Spec

\* Whenever has(), forSeasonContext(), declarationFor() or seasonHasEngine() may
\* answer, the index is what a restart would rebuild from stable storage.
THEOREM ReadsStayDurable == ~OrphanDirs => (Spec => []ReadsAreDurable)
<1> SUFFICES ASSUME ~OrphanDirs PROVE Spec => []ReadsAreDurable
  OBVIOUS
<1>1. StoreInv => ReadsAreDurable
  BY ForcedLeaves DEF StoreInv, ServeInv, ReadsAreDurable, ForcedIsPrefix
<1>2. QED
  BY <1>1, StoreStaysSound, PTL

\* A registration append() reported is on stable storage, at the leaf index its
\* member was told, after any failures, reloads, restarts and power losses, when
\* nobody leaves a directory of the path unflushed.
THEOREM AckedStayAtTheirLeaf == ~OrphanDirs => (Spec => []AckedKeepTheirLeaf)
<1> SUFFICES ASSUME ~OrphanDirs PROVE Spec => []AckedKeepTheirLeaf
  OBVIOUS
<1>1. StoreInv => AckedKeepTheirLeaf
  BY ForcedLeaves DEF StoreInv, AckedAtTheirLeaf, AckedKeepTheirLeaf, ForcedIsPrefix
<1>2. QED
  BY <1>1, StoreStaysSound, PTL

\* The file of a deployment #load() accepts is accepted at every later boot,
\* whoever makes the directories.
THEOREM FileStaysLoadable == Spec => []StaysLoadable
<1>1. StoreInv => StaysLoadable
  BY DEF StoreInv
<1>2. QED
  BY <1>1, StoreStaysSound, PTL

\* No step, a power loss included, takes or moves a leaf that a restart rebuilds:
\* the leaf order of a bucket grows at its end, when nobody leaves a directory of
\* the path unflushed.
THEOREM LeavesStayInOrder == ~OrphanDirs => (Spec => LeavesOnlyGrow)
<1> SUFFICES ASSUME ~OrphanDirs PROVE Spec => LeavesOnlyGrow
  OBVIOUS
<1>1. StoreInv => ForcedIsPrefix
  BY ForcedLeaves
<1>2. StoreInv /\ ForcedIsPrefix /\ ForcedIsPrefix' /\ [Next]_vars =>
        [\/ ForcedLines' = ForcedLines
         \/ LET old == Rebuilt(ForcedLines)
                new == Rebuilt(ForcedLines)'
            IN \A b \in Buckets :
                 Len(old[b]) <= Len(new[b]) /\ SubSeq(new[b], 1, Len(old[b])) = old[b]]_vars
  BY StoreNext DEF Grows, ForcedIsPrefix
<1>3. QED
  BY <1>1, <1>2, StoreStaysSound, PTL DEF Spec, LeavesOnlyGrow
==============================================================================
