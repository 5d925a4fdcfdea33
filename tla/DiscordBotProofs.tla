-------------------------- MODULE DiscordBotProofs --------------------------
(***************************************************************************)
(* Proofs about GrantLedger and about DiscordBot, which extends it, for    *)
(* any members, targets, platforms, legacy files, passes and bounds.       *)
(*                                                                         *)
(* Part 1, the ledger: the types, that the rows always cover the access    *)
(* that is live, that a deadline called lapsed is never accepted again,    *)
(* and that an abandoned renewal extends nobody.                           *)
(*                                                                         *)
(* Part 2, the bot: its calls channel by channel, its startup passes and   *)
(* the decommission command implement GrantLedger, so what is proved of    *)
(* every ledger holds of this bot; and the gate that the startup passes    *)
(* put on interactions does what it is there for.  The step that           *)
(* GrantLedger does not allow is a denial that is set while a call is in   *)
(* flight, which DenialsRace adds.                                         *)
(***************************************************************************)
EXTENDS DiscordBot, WellFoundedInduction, TLAPS

(***************************************************************************)
(* PART 1.  The ledger.                                                    *)
(***************************************************************************)

------------------------------------------------------------------------------
(* The inductive invariants. *)

(* A member without a row has no revision ahead of the counter, also while
   no process is up to seed it. *)
EmptyRowsAreOld == \A u \in Users : grants[u].targets = {} => grants[u].rev <= revSeq

TypeInv == TypeOK /\ EmptyRowsAreOld

(* Operations run only in a process that is up, and until the JSON file is
   adopted the database is empty, unbound and not opened. *)
StartInv ==
  /\ up # "up" => \A u \in Users : op[u].phase = "idle"
  /\ up = "rename" => importedFrom
  /\ ~importedFrom /\ legacy # NoLegacy =>
       up \in {"down", "import"} /\ scope = NoScope /\ NoRows

(* A scoped process works on a database of its place, and what the ledger
   has given lies there. *)
PlaceInv ==
  adapter.scoped =>
    /\ up # "down" /\ scope # NoScope => scope = conf.place
    /\ up = "up" => scope # NoScope
    /\ scope # NoScope => \A u \in Users : \A t \in live[u] \ stray[u] : PlaceOf[t] = scope

(* What the operation under way may rely on. *)
MigrateInv(u) ==
  op[u].phase = "migrate" =>
    /\ op[u].prev # NoRow
    /\ live[u] \subseteq op[u].prev.targets \cup stray[u]
    /\ live[u] \subseteq op[u].rec.targets \cup op[u].todo \cup stray[u]
    /\ ~adapter.covers => grants[u] = op[u].prev

GiveInv(u) ==
  /\ op[u].phase \in {"apply", "admit"} => op[u].todo \subseteq grants[u].targets
  /\ op[u].phase = "apply" /\ op[u].prev = NoRow /\ ~op[u].sent
       /\ grants[u].rev = op[u].rec.rev => live[u] \subseteq stray[u]

(* A row of the revision the operation knows is the row it knows. *)
RevInv(u) ==
  op[u].phase \in {"apply", "undo", "sweep"} =>
    /\ op[u].rec.rev <= revSeq
    /\ grants[u].rev = op[u].rec.rev => grants[u].targets = op[u].rec.targets

TakeInv(u) ==
  op[u].phase \in {"undo", "sweep"} /\ grants[u].rev = op[u].rec.rev =>
    live[u] \subseteq op[u].todo \cup stray[u]

MemberInv(u) ==
  /\ MigrateInv(u) /\ GiveInv(u) /\ RevInv(u) /\ TakeInv(u)
  /\ live[u] \subseteq Named(u) \cup stray[u]

CoverInv == TypeInv /\ StartInv /\ PlaceInv /\ \A u \in Users : MemberInv(u)

(* The floor has reached every deadline called lapsed; before the JSON file
   is adopted, the floor it brings has. *)
FloorInv ==
  \/ lapsed <= clockMark
  \/ ~importedFrom /\ legacy # NoLegacy /\ lapsed <= legacy.mark

(* Every target of a row was promised the deadline of the row, but for the
   covering row of a migration, which stands in for the prior one. *)
Standing(u) == IF op[u].phase = "migrate" THEN op[u].prev ELSE grants[u]

PromiseInv ==
  \A u \in Users : \A t \in Standing(u).targets : Standing(u).exp <= promised[u][t]

------------------------------------------------------------------------------
(* Lemmas about the operators of the model. *)

LEMMA BoundTypes ==
  /\ MaxTime \in Nat /\ MaxRev \in Nat /\ 0 \in Time /\ 0 \in Revs
  /\ \A a, b \in Time : Larger(a, b) \in Time /\ Larger(a, b) >= a /\ Larger(a, b) >= b
  /\ \A a, b \in Revs : Larger(a, b) \in Revs /\ Larger(a, b) >= a /\ Larger(a, b) >= b
  /\ \A a \in Time : a \in Int
  /\ \A a \in Revs : a \in Int
  BY LedgerAssumption DEF Larger, Time, Revs

LEMMA EmptyTypes ==
  /\ NoRow \in Records /\ NoRow.targets = {} /\ NoRow.rev = 0 /\ NoRow.exp = 0
  /\ Idle \in [phase : Phases, rec : Records, prev : Records,
               todo : SUBSET Targets, sent : BOOLEAN]
  /\ Idle.phase = "idle" /\ Idle.todo = {}
  /\ NoPromise \in [Targets -> Time]
  /\ NoLegacy.rows \in [Users -> Records] /\ NoLegacy.mark \in Time
  /\ NoLegacy.mark = 0 /\ \A u \in Users : NoLegacy.rows[u] = NoRow
<1>1. NoRow \in Records /\ NoRow.targets = {} /\ NoRow.rev = 0 /\ NoRow.exp = 0
  BY BoundTypes DEF NoRow, Records, Time, Revs
<1>2. QED
  BY <1>1, BoundTypes DEF Idle, Phases, NoPromise, NoLegacy, Time

(* Facts about the rows of what may be imported, and about a configuration. *)
LEMMA FileTypes ==
  ASSUME TypeOK
  PROVE  /\ legacy.rows \in [Users -> Records] /\ legacy.mark \in Time
         /\ floor \in Time /\ floor >= clockMark /\ floor >= now
         /\ conf.targets \subseteq Targets /\ conf.ctx \in Contexts /\ conf.place \in Places
         /\ \A t \in Time : Offer(t) \in Records /\ Offer(t).exp = t
                            /\ Offer(t).targets = conf.targets
<1>1. /\ legacy.rows \in [Users -> Records] /\ legacy.mark \in Time
      /\ conf.targets \subseteq Targets /\ conf.ctx \in Contexts /\ conf.place \in Places
  BY LedgerAssumption, EmptyTypes DEF TypeOK
<1>2. floor \in Time /\ floor >= clockMark /\ floor >= now
  BY BoundTypes DEF TypeOK, floor
<1>3. \A t \in Time : Offer(t) \in Records /\ Offer(t).exp = t
                      /\ Offer(t).targets = conf.targets
  BY <1>1, BoundTypes DEF Offer, Records, Revs
<1>4. QED
  BY <1>1, <1>2, <1>3

(* A write spends a revision, and changes one row. *)
LEMMA PutEffect ==
  ASSUME TypeOK, NEW u \in Users, NEW r \in Records, Put(u, r)
  PROVE  /\ grants' \in [Users -> Records] /\ revSeq' \in Revs
         /\ revSeq' = revSeq + 1
         /\ grants'[u].targets = r.targets /\ grants'[u].exp = r.exp
         /\ grants'[u].rev = revSeq + 1
         /\ grants'[u] = [r EXCEPT !.rev = revSeq + 1]
         /\ \A v \in Users : v # u => grants'[v] = grants[v]
<1>1. revSeq + 1 \in Revs
  BY BoundTypes DEF TypeOK, Put, Revs
<1>2. [r EXCEPT !.rev = revSeq + 1] \in Records
  BY <1>1 DEF Records
<1>3. QED
  BY <1>1, <1>2 DEF TypeOK, Put, Records

LEMMA DelEffect ==
  ASSUME TypeOK, NEW u \in Users, NEW rev, Del(u, rev)
  PROVE  /\ grants' \in [Users -> Records] /\ promised' \in [Users -> [Targets -> Time]]
         /\ \A v \in Users : v # u => grants'[v] = grants[v] /\ promised'[v] = promised[v]
         /\ \/ /\ grants[u].rev = rev /\ grants'[u] = NoRow
            \/ /\ grants[u].rev # rev /\ grants'[u] = grants[u] /\ promised'[u] = promised[u]
  BY EmptyTypes DEF TypeOK, Del

LEMMA PromiseEffect ==
  ASSUME TypeOK, NEW u \in Users, NEW ts \in SUBSET Targets, NEW t \in Time,
         Promise(u, ts, t)
  PROVE  /\ promised' \in [Users -> [Targets -> Time]]
         /\ \A v \in Users : v # u => promised'[v] = promised[v]
         /\ \A x \in Targets : promised'[u][x] >= promised[u][x]
         /\ \A x \in ts : promised'[u][x] >= t
  BY BoundTypes DEF TypeOK, Promise

LEMMA CallEffect ==
  ASSUME TypeOK, NEW u \in Users, NEW ph \in Phases, NEW r \in Records,
         NEW p \in Records, NEW ts \in SUBSET Targets, Call(u, ph, r, p, ts)
  PROVE  /\ op' \in [Users -> [phase : Phases, rec : Records, prev : Records,
                               todo : SUBSET Targets, sent : BOOLEAN]]
         /\ \A v \in Users : v # u => op'[v] = op[v]
         /\ op'[u].phase = ph /\ op'[u].rec = r /\ op'[u].prev = p
         /\ op'[u].todo = ts /\ op'[u].sent = FALSE
  BY DEF TypeOK, Call

LEMMA SettleEffect ==
  ASSUME TypeOK, NEW u \in Users, Settle(u)
  PROVE  /\ op' \in [Users -> [phase : Phases, rec : Records, prev : Records,
                               todo : SUBSET Targets, sent : BOOLEAN]]
         /\ \A v \in Users : v # u => op'[v] = op[v]
         /\ op'[u] = Idle /\ op'[u].phase = "idle"
  BY EmptyTypes DEF TypeOK, Settle

------------------------------------------------------------------------------
(* Every variable has its type. *)

LEMMA TypeInit == Init => TypeInv
<1> SUFFICES ASSUME Init PROVE TypeInv
  OBVIOUS
<1>1. \A f \in LegacyFiles :
        /\ f.rows \in [Users -> Records] /\ f.mark \in Time
        /\ \A u \in Users : f.rows[u].targets = {} => f.rows[u].rev = 0
  BY LedgerAssumption, EmptyTypes
<1>2. /\ legacy.rows \in [Users -> Records] /\ legacy.mark \in Time
      /\ grants \in [Users -> Records]
      /\ \A u \in Users : grants[u].targets = {} => grants[u].rev = 0
  BY <1>1, EmptyTypes DEF Init
<1>3. op \in [Users -> [phase : Phases, rec : Records, prev : Records,
                        todo : SUBSET Targets, sent : BOOLEAN]]
  BY EmptyTypes DEF Init
<1>4. live \in [Users -> SUBSET Targets] /\ stray \in [Users -> SUBSET Targets]
  BY <1>2 DEF Init, Records
<1>5. promised \in [Users -> [Targets -> Time]]
  BY <1>2, BoundTypes DEF Init, Records
<1>6. revSeq \in Revs /\ clockMark \in Time /\ lapsed \in Time
  BY <1>2, BoundTypes DEF Init
<1>7. scope \in Places \cup {NoScope} /\ conf \in Configs
  BY LedgerAssumption DEF Init, AdapterShape
<1>8. TypeOK
  BY <1>2, <1>3, <1>4, <1>5, <1>6, <1>7 DEF Init, TypeOK
<1>9. QED
  BY <1>2, <1>8 DEF Init, TypeInv, EmptyRowsAreOld

Ops == [phase : Phases, rec : Records, prev : Records,
        todo : SUBSET Targets, sent : BOOLEAN]

(* A record is written and its application starts, or the write fails. *)
Written(u, r, p) ==
  /\ revSeq' = revSeq + 1
  /\ grants'[u].targets = r.targets /\ grants'[u].exp = r.exp
  /\ grants'[u].rev = revSeq + 1
  /\ op'[u].phase = "apply" /\ op'[u].prev = p
  /\ op'[u].todo \subseteq r.targets /\ op'[u].sent = FALSE
  /\ op'[u].rec.targets = r.targets /\ op'[u].rec.rev = revSeq + 1
  /\ op'[u].rec.exp = r.exp

Unwritten(u) ==
  grants' = grants /\ revSeq' = revSeq /\ op'[u] = Idle /\ op'[u].phase = "idle"

LEMMA WriteEffect ==
  ASSUME TypeOK, NEW u \in Users, NEW r \in Records, NEW p \in Records,
         WriteAndApply(u, r, p)
  PROVE  /\ grants' \in [Users -> Records] /\ revSeq' \in Revs
         /\ op' \in [Users -> Ops] /\ promised' \in [Users -> [Targets -> Time]]
         /\ \A v \in Users : v # u => /\ grants'[v] = grants[v] /\ op'[v] = op[v]
                                      /\ promised'[v] = promised[v]
         /\ \A x \in Targets : promised'[u][x] >= promised[u][x]
         /\ \A x \in grants'[u].targets : promised'[u][x] >= grants'[u].exp
         /\ Written(u, r, p) \/ Unwritten(u)
<1>1. r.targets \subseteq Targets /\ r.exp \in Time
  BY DEF Records
<1>2. CASE /\ Put(u, r)
           /\ Promise(u, r.targets, r.exp)
           /\ Call(u, "apply", [r EXCEPT !.rev = revSeq + 1], p,
                   IF adapter.applies THEN r.targets ELSE {})
  <2> DEFINE new == [r EXCEPT !.rev = revSeq + 1]
             ts  == IF adapter.applies THEN r.targets ELSE {}
  <2>1. /\ grants' \in [Users -> Records] /\ revSeq' \in Revs /\ revSeq' = revSeq + 1
        /\ grants'[u].targets = r.targets /\ grants'[u].exp = r.exp
        /\ grants'[u].rev = revSeq + 1 /\ grants'[u] = new
        /\ \A v \in Users : v # u => grants'[v] = grants[v]
    BY <1>2, PutEffect
  <2>2. new \in Records /\ ts \subseteq r.targets /\ ts \subseteq Targets /\ "apply" \in Phases
    BY <1>1, <2>1 DEF Phases
  <2>3. /\ op' \in [Users -> Ops]
        /\ \A v \in Users : v # u => op'[v] = op[v]
        /\ op'[u].phase = "apply" /\ op'[u].rec = new /\ op'[u].prev = p
        /\ op'[u].todo = ts /\ op'[u].sent = FALSE
    <3> HIDE DEF new, ts
    <3>1. Call(u, "apply", new, p, ts)
      BY <1>2 DEF new, ts
    <3>2. QED
      BY <2>2, <3>1, CallEffect DEF Ops
  <2>4. /\ promised' \in [Users -> [Targets -> Time]]
        /\ \A v \in Users : v # u => promised'[v] = promised[v]
        /\ \A x \in Targets : promised'[u][x] >= promised[u][x]
        /\ \A x \in r.targets : promised'[u][x] >= r.exp
    BY <1>1, <1>2, PromiseEffect
  <2> HIDE DEF ts
  <2>5. op'[u].rec.targets = r.targets /\ op'[u].rec.rev = revSeq + 1 /\ op'[u].rec.exp = r.exp
    BY <2>1, <2>3
  <2>6. QED
    BY <2>1, <2>2, <2>3, <2>4, <2>5 DEF Written
<1>3. CASE PutFails /\ Settle(u) /\ Stretch(u)
  <2>1. grants' = grants /\ revSeq' = revSeq
    BY <1>3 DEF PutFails
  <2>2. /\ op' \in [Users -> Ops] /\ op'[u] = Idle /\ op'[u].phase = "idle"
        /\ \A v \in Users : v # u => op'[v] = op[v]
    BY <1>3, SettleEffect DEF Ops
  <2>3. grants[u].targets \subseteq Targets /\ grants[u].exp \in Time
    BY DEF TypeOK, Records
  <2>4. /\ promised' \in [Users -> [Targets -> Time]]
        /\ \A v \in Users : v # u => promised'[v] = promised[v]
        /\ \A x \in Targets : promised'[u][x] >= promised[u][x]
        /\ \A x \in grants[u].targets : promised'[u][x] >= grants[u].exp
    BY <1>3, <2>3, PromiseEffect DEF Stretch
  <2>5. QED
    BY <2>1, <2>2, <2>4 DEF TypeOK, Unwritten
<1>4. QED
  BY <1>2, <1>3 DEF WriteAndApply

(* What a grant does up to its first platform call. *)
LEMMA GrantEffect ==
  ASSUME TypeOK, NEW u \in Users, GrantStarts(u)
  PROVE  /\ grants' \in [Users -> Records] /\ revSeq' \in Revs /\ clockMark' \in Time
         /\ op' \in [Users -> Ops] /\ promised' \in [Users -> [Targets -> Time]]
         /\ lapsed' \in Time
         /\ \A v \in Users : v # u => /\ grants'[v] = grants[v] /\ op'[v] = op[v]
                                      /\ promised'[v] = promised[v]
         /\ revSeq' >= revSeq
         /\ grants'[u] = grants[u] \/ (grants'[u].rev = revSeq + 1 /\ revSeq' = revSeq + 1)
<1> USE DEF Ops
<1>1. PICK t \in Time : \/ GrantTooLate(u, Offer(t))
                        \/ GrantMigrates(u, Offer(t))
                        \/ GrantWrites(u, Offer(t))
  BY DEF GrantStarts
<1> DEFINE r == Offer(t)
<1>2. r \in Records /\ r.exp = t /\ clockMark' \in Time
  BY FileTypes DEF GrantStarts, Observe
<1>3. r.targets \subseteq Targets /\ grants[u] \in Records /\ revSeq \in Int
  BY <1>2, BoundTypes DEF TypeOK, Records
<1> HIDE DEF r
<1>4. CASE GrantTooLate(u, r)
  BY <1>2, <1>3, <1>4, BoundTypes DEF GrantTooLate, TypeOK
<1>5. CASE GrantWrites(u, r)
  <2>1. WriteAndApply(u, r, grants[u]) /\ lapsed' = lapsed
    BY <1>5 DEF GrantWrites
  <2>2. grants[u] \in Records /\ lapsed' \in Time
    BY <1>3, <2>1 DEF TypeOK
  <2>3. /\ grants' \in [Users -> Records] /\ revSeq' \in Revs
        /\ op' \in [Users -> Ops] /\ promised' \in [Users -> [Targets -> Time]]
        /\ \A v \in Users : v # u => /\ grants'[v] = grants[v] /\ op'[v] = op[v]
                                     /\ promised'[v] = promised[v]
        /\ \/ revSeq' = revSeq + 1 /\ grants'[u].rev = revSeq + 1
           \/ grants' = grants /\ revSeq' = revSeq
    <3> HIDE DEF Ops
    <3>1. QED
      BY <1>2, <2>1, <2>2, WriteEffect DEF Written, Unwritten
  <2>4. revSeq' >= revSeq
    BY <1>3, <2>3
  <2>5. QED
    BY <1>2, <2>2, <2>3, <2>4
<1>6. CASE GrantMigrates(u, r)
  <2> DEFINE prev == grants[u]
             orphan == orphaned(prev, r)
             new == [r EXCEPT !.targets = covering(r, orphan)]
  <2>1. orphan \subseteq Targets /\ covering(r, orphan) \subseteq Targets
    BY <1>3 DEF orphaned, covering, Records
  <2>2. new \in Records
    BY <1>2, <2>1 DEF Records
  <2>3. "migrate" \in Phases
    BY DEF Phases
  <2>4. CASE /\ IF adapter.covers THEN Put(u, new) ELSE UNCHANGED <<grants, revSeq>>
             /\ Promise(u, r.targets, r.exp)
             /\ Call(u, "migrate", r, prev, orphan)
             /\ UNCHANGED lapsed
    <3> HIDE DEF prev, orphan, new
    <3>1. /\ grants' \in [Users -> Records] /\ revSeq' \in Revs
          /\ \A v \in Users : v # u => grants'[v] = grants[v]
          /\ revSeq' >= revSeq
          /\ grants'[u] = grants[u] \/ (grants'[u].rev = revSeq + 1 /\ revSeq' = revSeq + 1)
      <4>1. CASE adapter.covers
        <5>1. Put(u, new)
          BY <2>4, <4>1
        <5>2. /\ grants' \in [Users -> Records] /\ revSeq' \in Revs
              /\ \A v \in Users : v # u => grants'[v] = grants[v]
              /\ grants'[u].rev = revSeq + 1 /\ revSeq' = revSeq + 1
          BY <2>2, <5>1, PutEffect
        <5>3. QED
          BY <1>3, <5>2
      <4>2. CASE ~adapter.covers
        <5>1. grants' = grants /\ revSeq' = revSeq
          BY <2>4, <4>2
        <5>2. QED
          BY <1>3, <5>1 DEF TypeOK
      <4>3. QED
        BY <4>1, <4>2
    <3>2. /\ promised' \in [Users -> [Targets -> Time]]
          /\ \A v \in Users : v # u => promised'[v] = promised[v]
      BY <1>2, <1>3, <2>4, PromiseEffect
    <3>3. op' \in [Users -> Ops] /\ \A v \in Users : v # u => op'[v] = op[v]
      BY <1>2, <1>3, <2>1, <2>3, <2>4, CallEffect DEF prev
    <3>4. QED
      BY <2>4, <3>1, <3>2, <3>3, <1>2 DEF TypeOK
  <2>5. CASE PutFails /\ UNCHANGED <<op, promised, lapsed>>
    BY <1>2, <1>3, <2>5 DEF PutFails, TypeOK
  <2>6. QED
    BY <1>6, <2>4, <2>5 DEF GrantMigrates
<1>7. QED
  BY <1>1, <1>4, <1>5, <1>6 DEF r

(* What the code between two awaits does. *)
LEMMA ResumeEffect ==
  ASSUME TypeOK, NEW u \in Users, Resume(u)
  PROVE  /\ grants' \in [Users -> Records] /\ revSeq' \in Revs
         /\ op' \in [Users -> Ops] /\ promised' \in [Users -> [Targets -> Time]]
         /\ \A v \in Users : v # u => /\ grants'[v] = grants[v] /\ op'[v] = op[v]
                                      /\ promised'[v] = promised[v]
         /\ UNCHANGED rest
         /\ revSeq' >= revSeq
         /\ \/ grants'[u] = grants[u]
            \/ grants'[u] = NoRow
            \/ grants'[u].rev = revSeq + 1 /\ revSeq' = revSeq + 1
<1>1. /\ op[u].rec \in Records /\ op[u].prev \in Records /\ grants[u] \in Records
      /\ op[u].rec.targets \in SUBSET Targets /\ revSeq \in Int
      /\ grants[u].targets \in SUBSET Targets /\ grants[u].exp \in Time
  BY BoundTypes DEF TypeOK, Records
<1>2. CASE Migrated(u)
  <2>1. WriteAndApply(u, op[u].rec, op[u].prev) /\ UNCHANGED rest
    BY <1>2 DEF Migrated
  <2>2. /\ grants' \in [Users -> Records] /\ revSeq' \in Revs
        /\ op' \in [Users -> Ops] /\ promised' \in [Users -> [Targets -> Time]]
        /\ \A v \in Users : v # u => /\ grants'[v] = grants[v] /\ op'[v] = op[v]
                                     /\ promised'[v] = promised[v]
        /\ \/ revSeq' = revSeq + 1 /\ grants'[u].rev = revSeq + 1
           \/ grants' = grants /\ revSeq' = revSeq
    BY <1>1, <2>1, WriteEffect DEF Written, Unwritten
  <2>3. revSeq' >= revSeq
    BY <1>1, <2>2
  <2>4. QED
    BY <2>1, <2>2, <2>3
<1>3. ASSUME Settle(u)
      PROVE  op' \in [Users -> Ops] /\ \A v \in Users : v # u => op'[v] = op[v]
  BY <1>3, SettleEffect DEF Ops
<1>4. CASE Settle(u) /\ UNCHANGED <<grants, revSeq, promised>> /\ UNCHANGED rest
  BY <1>1, <1>3, <1>4 DEF TypeOK
<1>5. CASE MigrateFails(u)
  <2>1. CASE adapter.covers /\ Put(u, op[u].prev) /\ UNCHANGED promised
    <3>1. /\ grants' \in [Users -> Records] /\ revSeq' \in Revs /\ revSeq' = revSeq + 1
          /\ grants'[u].rev = revSeq + 1
          /\ \A v \in Users : v # u => grants'[v] = grants[v]
      BY <1>1, <2>1, PutEffect
    <3>2. revSeq' >= revSeq
      BY <1>1, <3>1
    <3>3. QED
      BY <1>3, <1>5, <2>1, <3>1, <3>2 DEF MigrateFails, TypeOK
  <2>2. CASE adapter.covers /\ PutFails /\ Stretch(u)
    <3>1. /\ promised' \in [Users -> [Targets -> Time]]
          /\ \A v \in Users : v # u => promised'[v] = promised[v]
      BY <1>1, <2>2, PromiseEffect DEF Stretch
    <3>2. grants' = grants /\ revSeq' = revSeq
      BY <2>2 DEF PutFails
    <3>3. QED
      BY <1>1, <1>3, <1>5, <3>1, <3>2 DEF MigrateFails, TypeOK
  <2>3. QED
    BY <1>4, <1>5, <2>1, <2>2 DEF MigrateFails
<1>6. CASE Settle(u) /\ Del(u, op[u].rec.rev) /\ UNCHANGED revSeq /\ UNCHANGED rest
  <2>1. /\ grants' \in [Users -> Records] /\ promised' \in [Users -> [Targets -> Time]]
        /\ \A v \in Users : v # u => grants'[v] = grants[v] /\ promised'[v] = promised[v]
        /\ grants'[u] = NoRow \/ grants'[u] = grants[u]
    BY <1>6, DelEffect
  <2>2. QED
    BY <1>1, <1>3, <1>6, <2>1 DEF TypeOK
<1>7. CASE ApplyFailsUndone(u)
  <2>1. "undo" \in Phases /\ NoRow \in Records
    BY EmptyTypes DEF Phases
  <2>2. op' \in [Users -> Ops] /\ \A v \in Users : v # u => op'[v] = op[v]
    <3> DEFINE r  == op[u].rec
               ts == r.targets
    <3>1. Call(u, "undo", r, NoRow, ts) /\ r \in Records /\ ts \in SUBSET Targets
      BY <1>1, <1>7 DEF ApplyFailsUndone
    <3> HIDE DEF r, ts
    <3>2. QED
      BY <2>1, <3>1, CallEffect DEF Ops
  <2>3. UNCHANGED <<grants, revSeq, promised>> /\ UNCHANGED rest
    BY <1>7 DEF ApplyFailsUndone
  <2>4. QED
    BY <1>1, <2>2, <2>3 DEF TypeOK
<1>8. QED
  BY <1>2, <1>4, <1>5, <1>6, <1>7
     DEF Resume, Applied, ApplyRefused, RefusalTaken, ApplyFailsKept, TakenBack,
         TakeBackFails, AdmitSettles

(* The types that a step of one member's rows has to keep. *)
LEMMA RowsKeepTypes ==
  ASSUME TypeInv, revSeq' \in Revs, revSeq' >= revSeq, up' = up,
         grants' \in [Users -> Records],
         \A v \in Users : \/ grants'[v] = grants[v]
                          \/ grants'[v] = NoRow
                          \/ grants'[v].rev = revSeq + 1 /\ revSeq' = revSeq + 1
  PROVE  EmptyRowsAreOld' /\ (up' # "down" => \A v \in Users : grants'[v].rev <= revSeq')
<1>1. revSeq \in Int /\ revSeq' \in Int /\ revSeq' >= 0
  BY BoundTypes DEF TypeInv, TypeOK, Revs
<1>2. \A v \in Users : grants[v].rev \in Int
  BY BoundTypes DEF TypeInv, TypeOK, Records
<1>3. ASSUME NEW v \in Users
      PROVE  grants'[v].rev <= revSeq' \/ (grants'[v] = grants[v] /\ ~(grants[v].rev <= revSeq))
  <2>1. CASE grants'[v] = grants[v]
    BY <1>1, <1>2, <2>1
  <2>2. CASE grants'[v] = NoRow
    BY <1>1, <2>2, EmptyTypes
  <2>3. CASE grants'[v].rev = revSeq + 1 /\ revSeq' = revSeq + 1
    BY <1>1, <2>3
  <2>4. QED
    BY <2>1, <2>2, <2>3
<1>4. QED
  BY <1>3 DEF TypeInv, TypeOK, EmptyRowsAreOld

LEMMA TypeGrant ==
  ASSUME TypeInv, NEW u \in Users, GrantStarts(u)
  PROVE  TypeInv'
<1>1. TypeOK
  BY DEF TypeInv
<1>2. /\ grants' \in [Users -> Records] /\ revSeq' \in Revs /\ clockMark' \in Time
      /\ op' \in [Users -> Ops] /\ promised' \in [Users -> [Targets -> Time]]
      /\ lapsed' \in Time /\ revSeq' >= revSeq
      /\ \A v \in Users : \/ grants'[v] = grants[v]
                          \/ grants'[v].rev = revSeq + 1 /\ revSeq' = revSeq + 1
  BY <1>1, GrantEffect
<1>3. UNCHANGED <<adapter, now, scope, importedFrom, legacy, up, conf, due, live, stray>>
  BY DEF GrantStarts
<1>4. EmptyRowsAreOld' /\ (up' # "down" => \A v \in Users : grants'[v].rev <= revSeq')
  BY <1>2, <1>3, RowsKeepTypes
<1>5. QED
  BY <1>1, <1>2, <1>3, <1>4 DEF TypeInv, TypeOK, Ops

LEMMA TypeResume ==
  ASSUME TypeInv, NEW u \in Users, Resume(u)
  PROVE  TypeInv'
<1>1. TypeOK
  BY DEF TypeInv
<1>2. /\ grants' \in [Users -> Records] /\ revSeq' \in Revs
      /\ op' \in [Users -> Ops] /\ promised' \in [Users -> [Targets -> Time]]
      /\ revSeq' >= revSeq /\ UNCHANGED rest
      /\ \A v \in Users : \/ grants'[v] = grants[v] \/ grants'[v] = NoRow
                          \/ grants'[v].rev = revSeq + 1 /\ revSeq' = revSeq + 1
  BY <1>1, ResumeEffect
<1>3. UNCHANGED <<adapter, now, clockMark, scope, importedFrom, legacy, up, conf, due,
                  live, stray, lapsed>>
  BY <1>2 DEF rest
<1>4. EmptyRowsAreOld' /\ (up' # "down" => \A v \in Users : grants'[v].rev <= revSeq')
  BY <1>2, <1>3, RowsKeepTypes
<1>5. QED
  BY <1>1, <1>2, <1>3, <1>4 DEF TypeInv, TypeOK, Ops

(* The visits of a sweep and the questions: no row and no access changes. *)
LEMMA TypeAsked ==
  ASSUME TypeInv, NEW u \in Users, SweepVisits(u) \/ Admit(u) \/ Asked(u)
  PROVE  TypeInv'
<1>1. TypeOK /\ EmptyRowsAreOld /\ floor \in Time /\ grants[u] \in Records
  BY FileTypes DEF TypeInv, TypeOK
<1>2. /\ grants[u].exp \in Time /\ grants[u].targets \in SUBSET Targets
      /\ \A a, b \in Time : Larger(a, b) \in Time
      /\ {"sweep", "admit"} \subseteq Phases /\ NoRow \in Records
  BY <1>1, BoundTypes, EmptyTypes DEF Records, Phases
<1>3. clockMark' \in Time /\ lapsed' \in Time /\ due' \subseteq Users
  BY <1>1, <1>2 DEF SweepVisits, Admit, Asked, SweepSkips, SweepTakes, Observe, TypeOK
<1>4. op' \in [Users -> Ops]
  <2>1. ASSUME NEW ts \in SUBSET Targets, NEW ph \in {"sweep", "admit"},
               Call(u, ph, grants[u], NoRow, ts)
        PROVE  op' \in [Users -> Ops]
    BY <1>1, <1>2, <2>1, CallEffect DEF Ops
  <2>2. CASE op' = op
    BY <1>1, <2>2 DEF TypeOK, Ops
  <2>3. CASE Call(u, "sweep", grants[u], NoRow, grants[u].targets)
    BY <1>2, <2>1, <2>3
  <2>4. CASE Call(u, "admit", grants[u], NoRow, grants[u].targets \cap conf.targets)
    BY <1>2, <2>1, <2>4
  <2>5. QED
    BY <2>2, <2>3, <2>4 DEF SweepVisits, Admit, Asked, SweepSkips, SweepTakes
<1>5. UNCHANGED <<adapter, now, grants, revSeq, scope, importedFrom, legacy, up,
                  conf, live, stray, promised>>
  BY DEF SweepVisits, Admit, Asked
<1>6. QED
  BY <1>1, <1>3, <1>4, <1>5 DEF TypeInv, TypeOK, EmptyRowsAreOld, Ops

(* The platform and the world outside: only access changes. *)
LEMMA TypePlatform ==
  ASSUME TypeInv, (\E u \in Users : Platform(u)) \/ Outside
  PROVE  TypeInv'
<1>1. TypeOK /\ EmptyRowsAreOld
  BY DEF TypeInv
<1>2. ASSUME UNCHANGED elsewhere, op' \in [Users -> Ops],
             live' \in [Users -> SUBSET Targets], stray' \in [Users -> SUBSET Targets]
      PROVE  TypeInv'
  BY <1>1, <1>2 DEF TypeInv, TypeOK, EmptyRowsAreOld, Ops, elsewhere
<1>3. ASSUME NEW u \in Users, NEW t \in Targets, NEW learned \in BOOLEAN, Gives(u, t, learned)
      PROVE  TypeInv'
  <2>1. op' \in [Users -> Ops] /\ UNCHANGED <<stray, elsewhere>>
    <3>1. /\ op' = [op EXCEPT ![u].sent = TRUE,
                             ![u].todo = IF learned THEN @ \ {t} ELSE @]
          /\ UNCHANGED <<stray, elsewhere>>
      BY <1>3 DEF Gives
    <3> DEFINE left == IF learned THEN op[u].todo \ {t} ELSE op[u].todo
               new  == [op[u] EXCEPT !.sent = TRUE, !.todo = left]
    <3>2. op \in [Users -> Ops] /\ op[u] \in Ops
      BY <1>1 DEF TypeOK, Ops
    <3>3. left \in SUBSET Targets
      BY <3>2 DEF Ops
    <3>4. op' = [op EXCEPT ![u] = new]
      BY <3>1, <3>2
    <3>5. new \in Ops
      <4> HIDE DEF left
      <4>1. QED
        BY <3>2, <3>3 DEF Ops
    <3> HIDE DEF new
    <3>6. QED
      BY <3>1, <3>2, <3>4, <3>5
  <2>2. live' \in [Users -> SUBSET Targets]
    BY <1>1, <1>3 DEF Gives, TypeOK
  <2>3. QED
    BY <1>1, <1>2, <2>1, <2>2 DEF TypeOK
<1>4. ASSUME NEW u \in Users, NEW t \in Targets, NEW learned \in BOOLEAN, Takes(u, t, learned)
      PROVE  TypeInv'
  <2>1. op' \in [Users -> Ops] /\ UNCHANGED elsewhere
    BY <1>1, <1>4 DEF Takes, TypeOK, Ops
  <2>2. live' \in [Users -> SUBSET Targets] /\ stray' \in [Users -> SUBSET Targets]
    <3>1. live \in [Users -> SUBSET Targets] /\ stray \in [Users -> SUBSET Targets]
      BY <1>1 DEF TypeOK
    <3>2. CASE Reachable(t)
      BY <1>4, <3>1, <3>2 DEF Takes
    <3>3. CASE ~Reachable(t)
      BY <1>4, <3>1, <3>3 DEF Takes
    <3>4. QED
      BY <3>2, <3>3
  <2>3. QED
    BY <1>2, <2>1, <2>2
<1>5. ASSUME NEW t \in Targets, NEW u \in Users, GivenOutside(u, t)
      PROVE  TypeInv'
  <2>1. /\ op' \in [Users -> Ops] /\ UNCHANGED elsewhere
        /\ live' \in [Users -> SUBSET Targets] /\ stray' \in [Users -> SUBSET Targets]
    BY <1>1, <1>5 DEF GivenOutside, TypeOK, Ops
  <2>2. QED
    BY <1>2, <2>1
<1>6. ASSUME NEW t \in Targets, NEW us \in SUBSET Users, TakenOutside(us, t)
      PROVE  TypeInv'
  <2>1. /\ op' \in [Users -> Ops] /\ UNCHANGED elsewhere
        /\ live' \in [Users -> SUBSET Targets] /\ stray' \in [Users -> SUBSET Targets]
    BY <1>1, <1>6 DEF TakenOutside, Without, TypeOK, Ops
  <2>2. QED
    BY <1>2, <2>1
<1>7. QED
  BY <1>3, <1>4, <1>5, <1>6 DEF Platform, Outside

LEMMA TypeOther ==
  ASSUME TypeInv, NEW u \in Users, NEW t \in Time, OtherProcessGrants(u, t)
  PROVE  TypeInv'
<1>1. TypeOK /\ revSeq \in Int
  BY BoundTypes DEF TypeInv, TypeOK
<1>2. Offer(t) \in Records /\ conf.targets \in SUBSET Targets /\ floor \in Time
  BY <1>1, FileTypes
<1>3. Put(u, Offer(t)) /\ Promise(u, conf.targets, t) /\ clockMark' = floor
  BY DEF OtherProcessGrants, Observe
<1>4. /\ grants' \in [Users -> Records] /\ revSeq' \in Revs /\ revSeq' = revSeq + 1
      /\ grants'[u].rev = revSeq + 1
      /\ \A v \in Users : v # u => grants'[v] = grants[v]
  BY <1>1, <1>2, <1>3, PutEffect
<1>5. promised' \in [Users -> [Targets -> Time]]
  BY <1>1, <1>2, <1>3, PromiseEffect
<1>6. live' \in [Users -> SUBSET Targets]
  BY <1>1, <1>2 DEF OtherProcessGrants, TypeOK
<1>7. UNCHANGED <<adapter, now, scope, importedFrom, legacy, up, conf, op, due, stray,
                  lapsed>>
  BY DEF OtherProcessGrants
<1>8. revSeq' >= revSeq
  BY <1>1, <1>4
<1>9. EmptyRowsAreOld' /\ (up' # "down" => \A v \in Users : grants'[v].rev <= revSeq')
  BY <1>4, <1>7, <1>8, RowsKeepTypes
<1>10. QED
  BY <1>1, <1>2, <1>3, <1>4, <1>5, <1>6, <1>7, <1>9 DEF TypeInv, TypeOK

(* A set of naturals has a least element: the theorem module offers the
   well-founded order, and the least element of a set is a minimal one. *)
LEMMA NatMin ==
  ASSUME NEW S \in SUBSET Nat, S # {}
  PROVE  \E m \in S : \A n \in S : m <= n
<1> DEFINE R == {ss \in Nat \X Nat : ss[1] < ss[2]}
<1>1. IsWellFoundedOn(R, Nat)
  BY NatLessThanWellFounded DEF OpToRel
<1>2. PICK m \in S : \A n \in S : <<n, m>> \notin R
  BY <1>1, WFMin
<1>3. ASSUME NEW n \in S PROVE m <= n
  <2>1. ~(n < m)
    BY <1>2, <1>3
  <2>2. QED
    BY <2>1
<1>4. QED
  BY <1>3

(* #seedRevSeq: the highest revision of the table bounds every row. *)
LEMMA SeedBounds ==
  ASSUME TypeInv
  PROVE  /\ HighestRev \in Revs
         /\ ~NoRows => \A u \in Users : grants[u].rev <= HighestRev
<1>1. /\ \A u \in Users : grants[u].rev \in Nat /\ grants[u].rev <= MaxRev
      /\ MaxRev \in Nat /\ 0 \in Revs
  BY BoundTypes DEF TypeInv, TypeOK, Records, Revs
<1>2. CASE NoRows
  BY <1>1, <1>2 DEF HighestRev
<1>3. CASE ~NoRows
  <2> DEFINE Above == {n \in Nat : \A u \in Users : grants[u].rev <= n}
             Top(m) == /\ \E u \in Users : grants[u].rev = m
                       /\ \A u \in Users : grants[u].rev <= m
  <2>1. MaxRev \in Above
    BY <1>1
  <2>2. PICK m \in Above : \A n \in Above : m <= n
    BY <2>1, NatMin
  <2>3. m \in Nat /\ m <= MaxRev /\ \A u \in Users : grants[u].rev <= m
    BY <2>1, <2>2
  <2>4. \E u \in Users : grants[u].rev = m
    <3>1. SUFFICES ASSUME \A u \in Users : grants[u].rev # m PROVE FALSE
      OBVIOUS
    <3>2. PICK v \in Users : grants[v].targets # {}
      BY <1>3 DEF NoRows, HasRow
    <3>3. m - 1 \in Nat
      BY <1>1, <2>3, <3>1, <3>2
    <3>4. ASSUME NEW u \in Users PROVE grants[u].rev <= m - 1
      <4>1. grants[u].rev \in Nat /\ grants[u].rev <= m /\ grants[u].rev # m /\ m \in Nat
        BY <1>1, <2>3, <3>1
      <4>2. QED
        BY <4>1
    <3>5. m - 1 \in Above
      BY <3>3, <3>4
    <3>6. QED
      BY <2>2, <2>3, <3>5
  <2>5. m \in Revs /\ Top(m)
    BY <1>1, <2>3, <2>4 DEF Revs
  <2>6. HighestRev = CHOOSE k \in Revs : Top(k)
    BY <1>3 DEF HighestRev
  <2> HIDE DEF Top
  <2>7. HighestRev \in Revs /\ Top(HighestRev)
    BY <2>5, <2>6
  <2>8. QED
    BY <2>7 DEF Top
<1>4. QED
  BY <1>2, <1>3

LEMMA TypeOpen ==
  ASSUME TypeInv, NEW c \in adapter.configs, Open(c)
  PROVE  TypeInv'
<1>1. TypeOK /\ EmptyRowsAreOld /\ HighestRev \in Revs
  BY SeedBounds DEF TypeInv
<1>2. revSeq' = Larger(revSeq, HighestRev) /\ revSeq' \in Revs
  BY <1>1, BoundTypes DEF Open, TypeOK
<1>3. revSeq' >= revSeq /\ revSeq' >= HighestRev
  BY <1>1, <1>2, BoundTypes DEF TypeOK
<1>4. \A u \in Users : grants[u].rev <= revSeq'
  <2>1. revSeq \in Int /\ revSeq' \in Int /\ HighestRev \in Int
        /\ \A u \in Users : grants[u].rev \in Int
    BY <1>1, <1>2, BoundTypes DEF TypeOK, Records
  <2>2. CASE NoRows
    <3>1. \A u \in Users : grants[u].rev <= revSeq
      BY <1>1, <2>2 DEF EmptyRowsAreOld, NoRows, HasRow
    <3>2. QED
      BY <1>3, <2>1, <3>1
  <2>3. CASE ~NoRows
    BY <1>3, <2>1, <2>3, SeedBounds
  <2>4. QED
    BY <2>2, <2>3
<1>5. conf' \in Configs
  BY <1>1, LedgerAssumption DEF Open, TypeOK, AdapterShape
<1>6. scope' \in Places \cup {NoScope}
  <2>1. c.place \in Places
    BY <1>1, <1>5, LedgerAssumption DEF Open
  <2>2. QED
    BY <1>1, <2>1 DEF Open, TypeOK, ScopeOf
<1>7. /\ UNCHANGED <<adapter, now, grants, clockMark, importedFrom, legacy, op, due,
                     live, stray, lapsed, promised>>
      /\ up' = "import"
  BY DEF Open, history
<1>8. QED
  BY <1>1, <1>2, <1>4, <1>5, <1>6, <1>7 DEF TypeInv, TypeOK, EmptyRowsAreOld

LEMMA AdoptedEffect ==
  ASSUME TypeInv, revSeq < MaxRev
  PROVE  /\ Adopted(legacy.rows) \in [Users -> Records] /\ revSeq + 1 \in Revs
         /\ \A u \in Users :
              /\ Adopted(legacy.rows)[u].targets = legacy.rows[u].targets
              /\ Adopted(legacy.rows)[u].rev <= revSeq + 1
              /\ legacy.rows[u].targets # {} =>
                   Adopted(legacy.rows)[u].exp = legacy.rows[u].exp
<1>1. legacy.rows \in [Users -> Records] /\ revSeq \in Nat
  BY FileTypes DEF TypeInv, TypeOK, Revs
<1>2. revSeq + 1 \in Revs
  BY <1>1, BoundTypes DEF Revs
<1>3. ASSUME NEW u \in Users
      PROVE  /\ Adopted(legacy.rows)[u] \in Records
             /\ Adopted(legacy.rows)[u].targets = legacy.rows[u].targets
             /\ Adopted(legacy.rows)[u].rev <= revSeq + 1
             /\ legacy.rows[u].targets # {} =>
                  Adopted(legacy.rows)[u].exp = legacy.rows[u].exp
  <2>1. CASE legacy.rows[u].targets = {}
    BY <1>1, <2>1, EmptyTypes DEF Adopted
  <2>2. CASE legacy.rows[u].targets # {}
    <3>1. Adopted(legacy.rows)[u] = [legacy.rows[u] EXCEPT !.rev = revSeq + 1]
      BY <2>2 DEF Adopted
    <3>2. legacy.rows[u] \in Records
      BY <1>1
    <3>3. QED
      BY <1>1, <1>2, <2>2, <3>1, <3>2 DEF Records
  <2>3. QED
    BY <2>1, <2>2
<1>4. QED
  BY <1>2, <1>3 DEF Adopted

LEMMA TypeBoot ==
  ASSUME TypeInv, Boot
  PROVE  TypeInv'
<1>1. /\ TypeOK /\ EmptyRowsAreOld /\ floor \in Time /\ legacy.mark \in Time
      /\ legacy.rows \in [Users -> Records]
  BY FileTypes DEF TypeInv
<1>2. CASE Import
  <2>1. UNCHANGED <<adapter, now, scope, legacy, conf, op, due, live, stray, lapsed>>
    BY <1>2 DEF Import
  <2>2. CASE NoPending
    BY <1>1, <1>2, <2>1, <2>2 DEF Import, TypeInv, TypeOK, EmptyRowsAreOld
  <2>3. CASE ~NoPending
    <3>1. /\ revSeq < MaxRev /\ up' = "rename" /\ revSeq' = revSeq + 1
          /\ grants' = Adopted(legacy.rows) /\ importedFrom' = TRUE
          /\ clockMark' = Larger(clockMark, legacy.mark)
          /\ promised' = [u \in Users |-> [t \in Targets |-> legacy.rows[u].exp]]
      BY <1>2, <2>3 DEF Import
    <3>2. clockMark' \in Time
      BY <1>1, <3>1, BoundTypes DEF TypeOK
    <3>3. promised' \in [Users -> [Targets -> Time]]
      BY <1>1, <3>1 DEF Records
    <3>4. QED
      BY <1>1, <2>1, <3>1, <3>2, <3>3, AdoptedEffect DEF TypeInv, TypeOK, EmptyRowsAreOld
  <2>4. QED
    BY <2>2, <2>3
<1>3. CASE Rename
  BY <1>1, <1>3 DEF Rename, db, history, TypeInv, TypeOK, EmptyRowsAreOld
<1>4. ASSUME NEW adopt \in BOOLEAN, NEW reset \in BOOLEAN, Bind(adopt, reset)
      PROVE  TypeInv'
  <2>1. scope' \in Places \cup {NoScope} /\ clockMark' \in Time /\ lapsed' \in Time
    <3>1. conf.place \in Places /\ now \in Time /\ 0 \in Time /\ scope \in Places \cup {NoScope}
          /\ clockMark \in Time /\ lapsed \in Time
      BY <1>1, FileTypes, BoundTypes DEF TypeOK
    <3>2. QED
      BY <1>1, <1>4, <3>1 DEF Bind, ScopeOf
  <2>2. up' \in {"up", "down"} /\ up = "bind"
    BY <1>4 DEF Bind
  <2>3. UNCHANGED <<adapter, now, grants, revSeq, importedFrom, legacy, conf, op, due,
                    live, stray, promised>>
    BY <1>4 DEF Bind
  <2>4. QED
    BY <1>1, <2>1, <2>2, <2>3 DEF TypeInv, TypeOK, EmptyRowsAreOld
<1>5. QED
  BY <1>2, <1>3, <1>4 DEF Boot

LEMMA RetireEffect ==
  ASSUME TypeOK, NEW lost \in [Users -> SUBSET Targets], RetireRows(lost)
  PROVE  /\ grants' \in [Users -> Records] /\ revSeq' \in Revs /\ revSeq' = revSeq + 1
         /\ \A u \in Users :
              /\ grants'[u].targets = grants[u].targets \ lost[u]
              /\ grants'[u].targets # {} => grants'[u].exp = grants[u].exp
              /\ \/ grants'[u] = grants[u]
                 \/ grants'[u] = NoRow
                 \/ grants'[u].rev = revSeq + 1
<1>1. revSeq + 1 \in Revs /\ revSeq' = revSeq + 1
  <2>1. revSeq < MaxRev /\ revSeq' = revSeq + 1
    BY DEF RetireRows
  <2>2. QED
    BY <2>1, BoundTypes DEF TypeOK, Revs
<1>2. ASSUME NEW u \in Users
      PROVE  /\ grants'[u] \in Records
             /\ grants'[u].targets = grants[u].targets \ lost[u]
             /\ grants'[u].targets # {} => grants'[u].exp = grants[u].exp
             /\ grants'[u] = grants[u] \/ grants'[u] = NoRow \/ grants'[u].rev = revSeq + 1
  <2> DEFINE left == grants[u].targets \ lost[u]
  <2>1. grants[u] \in Records /\ left \subseteq Targets
    BY DEF TypeOK, Records
  <2>2. grants'[u] = IF left = grants[u].targets THEN grants[u]
                     ELSE IF left = {} THEN NoRow
                     ELSE [grants[u] EXCEPT !.targets = left, !.rev = revSeq + 1]
    BY DEF RetireRows
  <2> HIDE DEF left
  <2>3. CASE left = grants[u].targets
    BY <2>1, <2>2, <2>3 DEF left
  <2>4. CASE left # grants[u].targets /\ left = {}
    BY <2>2, <2>4, EmptyTypes DEF left
  <2>5. CASE left # grants[u].targets /\ left # {}
    <3>1. grants'[u] = [grants[u] EXCEPT !.targets = left, !.rev = revSeq + 1]
      BY <2>2, <2>5
    <3>2. /\ grants'[u] \in Records /\ grants'[u].targets = left
          /\ grants'[u].exp = grants[u].exp /\ grants'[u].rev = revSeq + 1
      BY <1>1, <2>1, <3>1 DEF Records
    <3>3. QED
      BY <3>2 DEF left
  <2>6. QED
    BY <2>3, <2>4, <2>5
<1>3. grants' \in [Users -> Records]
  <2>1. DOMAIN grants' = Users /\ grants' = [u \in Users |-> grants'[u]]
    BY DEF RetireRows
  <2>2. QED
    BY <1>2, <2>1
<1>4. QED
  BY <1>1, <1>2, <1>3

LEMMA TypeDown ==
  ASSUME TypeInv,
         \/ Crash
         \/ \E lost \in [Users -> SUBSET Targets] : Retire(lost)
         \/ \E t \in Time : SetClock(t)
         \/ UNCHANGED vars
  PROVE  TypeInv'
<1>1. TypeOK /\ EmptyRowsAreOld
  BY DEF TypeInv
<1>2. CASE Crash
  <2>1. op' \in [Users -> Ops]
    BY <1>2, EmptyTypes DEF Crash, Ops
  <2>2. promised' \in [Users -> [Targets -> Time]]
    <3>1. \A u \in Users : grants[u].exp \in Time
      BY <1>1 DEF TypeOK, Records
    <3>2. \A u \in Users, t \in Targets :
            promised[u][t] \in Time /\ Larger(grants[u].exp, promised[u][t]) \in Time
      BY <1>1, <3>1, BoundTypes DEF TypeOK
    <3>3. QED
      BY <1>2, <3>2 DEF Crash
  <2>3. /\ UNCHANGED <<adapter, now, grants, revSeq, clockMark, scope, importedFrom,
                       legacy, conf, live, stray, lapsed>>
        /\ up' = "down" /\ due' = {}
    BY <1>2 DEF Crash, db
  <2>4. QED
    BY <1>1, <2>1, <2>2, <2>3 DEF TypeInv, TypeOK, EmptyRowsAreOld, Ops
<1>3. ASSUME NEW lost \in [Users -> SUBSET Targets], Retire(lost)
      PROVE  TypeInv'
  <2>1. /\ grants' \in [Users -> Records] /\ revSeq' \in Revs /\ revSeq' = revSeq + 1
        /\ \A u \in Users : \/ grants'[u] = grants[u]
                            \/ grants'[u] = NoRow
                            \/ grants'[u].rev = revSeq + 1 /\ revSeq' = revSeq + 1
    BY <1>1, <1>3, RetireEffect DEF Retire
  <2>2. revSeq' >= revSeq
    BY <1>1, <2>1, BoundTypes DEF TypeOK
  <2>3. UNCHANGED <<adapter, now, clockMark, scope, importedFrom, legacy, up, conf, op,
                    due, live, stray, lapsed, promised>>
    BY <1>3 DEF Retire, RetireRows, history
  <2>4. EmptyRowsAreOld' /\ (up' # "down" => \A v \in Users : grants'[v].rev <= revSeq')
    BY <2>1, <2>2, <2>3, RowsKeepTypes
  <2>5. QED
    BY <1>1, <2>1, <2>3, <2>4 DEF TypeInv, TypeOK
<1>4. ASSUME NEW t \in Time, SetClock(t)
      PROVE  TypeInv'
  BY <1>1, <1>4 DEF SetClock, db, history, TypeInv, TypeOK, EmptyRowsAreOld
<1>5. CASE UNCHANGED vars
  BY <1>1, <1>5 DEF vars, TypeInv, TypeOK, EmptyRowsAreOld
<1>6. QED
  BY <1>2, <1>3, <1>4, <1>5

LEMMA TypeNext == TypeInv /\ [Next]_vars => TypeInv'
<1> SUFFICES ASSUME TypeInv, [Next]_vars PROVE TypeInv'
  OBVIOUS
<1>1. ASSUME NEW u \in Users, Grant(u) \/ SweepVisits(u) \/ Admit(u) \/ Asked(u) \/ Resume(u)
      PROVE  TypeInv'
  BY <1>1, TypeGrant, TypeResume, TypeAsked DEF Grant
<1>2. ASSUME NEW u \in Users, NEW t \in Time, OtherProcessGrants(u, t) PROVE TypeInv'
  BY <1>2, TypeOther
<1>3. CASE Sweep
  <2>1. TypeOK /\ EmptyRowsAreOld /\ floor \in Time
    BY FileTypes DEF TypeInv
  <2>2. /\ UNCHANGED <<adapter, now, grants, revSeq, scope, importedFrom, legacy, up,
                       conf, op, live, stray, lapsed, promised>>
        /\ clockMark' = floor /\ due' \subseteq Users
    BY <1>3, <2>1 DEF Sweep, Observe, TypeOK
  <2>3. QED
    BY <2>1, <2>2 DEF TypeInv, TypeOK, EmptyRowsAreOld
<1>4. ASSUME NEW c \in adapter.configs, Open(c) PROVE TypeInv'
  BY <1>4, TypeOpen
<1>5. QED
  BY <1>1, <1>2, <1>3, <1>4, TypePlatform, TypeBoot, TypeDown DEF Next

------------------------------------------------------------------------------
(* The rows cover the access that is live. *)

(* A step that leaves a member's row, operation and access alone keeps what
   holds of the member. *)
LEMMA MemberKept ==
  ASSUME TypeInv, TypeInv', NEW v \in Users, MemberInv(v), revSeq' >= revSeq,
         UNCHANGED <<adapter, importedFrom, legacy>>,
         grants'[v] = grants[v], op'[v] = op[v], live'[v] = live[v], stray'[v] = stray[v]
  PROVE  MemberInv(v)'
<1>1. revSeq \in Int /\ revSeq' \in Int /\ op[v].rec.rev \in Int
  BY BoundTypes DEF TypeInv, TypeOK, Records
<1>2. MigrateInv(v)' /\ GiveInv(v)' /\ TakeInv(v)'
  BY DEF MemberInv, MigrateInv, GiveInv, TakeInv
<1>3. RevInv(v)'
  BY <1>1 DEF MemberInv, RevInv
<1>4. (live[v] \subseteq Named(v) \cup stray[v])'
  BY DEF MemberInv, Named
<1>5. QED
  BY <1>2, <1>3, <1>4 DEF MemberInv

(* A member without an operation needs no more than the cover. *)
LEMMA IdleMember ==
  ASSUME NEW v \in Users, op'[v].phase = "idle",
         live'[v] \subseteq grants'[v].targets \cup stray'[v]
  PROVE  MemberInv(v)'
  BY DEF MemberInv, MigrateInv, GiveInv, RevInv, TakeInv, Named

(* A process that is up has adopted the JSON file, so its rows are all. *)
LEMMA UpNames ==
  ASSUME StartInv, up \in {"bind", "up"} \/ importedFrom, NEW u \in Users
  PROVE  Named(u) = grants[u].targets
  BY EmptyTypes DEF StartInv, Named

(* A step of an operation happens in a process that is up. *)
LEMMA UpInvs ==
  ASSUME StartInv, PlaceInv, up = "up",
         UNCHANGED <<adapter, scope, importedFrom, legacy, up, conf>>
  PROVE  /\ StartInv'
         /\ UNCHANGED <<live, stray>> => PlaceInv'
  BY DEF StartInv, PlaceInv

LEMMA CoverInit == Init => CoverInv
<1> SUFFICES ASSUME Init PROVE CoverInv
  OBVIOUS
<1>1. StartInv
  BY EmptyTypes DEF Init, StartInv
<1>2. PlaceInv
  BY EmptyTypes DEF Init, PlaceInv
<1>3. ASSUME NEW u \in Users PROVE MemberInv(u)
  BY <1>3, EmptyTypes
     DEF Init, MemberInv, MigrateInv, GiveInv, RevInv, TakeInv, Named
<1>4. QED
  BY <1>1, <1>2, <1>3, TypeInit DEF CoverInv

(* A grant, up to its first platform call. *)
LEMMA CoverGrant ==
  ASSUME CoverInv, NEW u \in Users, Grant(u)
  PROVE  CoverInv'
<1>1. /\ TypeInv /\ TypeOK /\ StartInv /\ PlaceInv /\ MemberInv(u)
      /\ \A v \in Users : MemberInv(v)
      /\ up = "up" /\ op[u] = Idle /\ GrantStarts(u) /\ NoRoleRows
      /\ UNCHANGED <<adapter, scope, importedFrom, legacy, up, conf, live, stray>>
  BY DEF CoverInv, TypeInv, Grant, GrantStarts, MayStart
<1>2. TypeInv' /\ StartInv' /\ PlaceInv'
  BY <1>1, TypeGrant, UpInvs
<1>3. /\ revSeq' >= revSeq
      /\ \A v \in Users : v # u => grants'[v] = grants[v] /\ op'[v] = op[v]
  BY <1>1, GrantEffect
<1>4. ASSUME NEW v \in Users, v # u PROVE MemberInv(v)'
  BY <1>1, <1>2, <1>3, <1>4, MemberKept
<1>5. SUFFICES MemberInv(u)'
  BY <1>2, <1>4 DEF CoverInv
<1>6. PICK t \in Time : \/ GrantTooLate(u, Offer(t))
                        \/ GrantMigrates(u, Offer(t))
                        \/ GrantWrites(u, Offer(t))
  BY <1>1 DEF GrantStarts
<1> DEFINE r == Offer(t)
<1>7. r \in Records /\ r.targets \subseteq Targets /\ grants[u] \in Records
      /\ grants[u].targets \subseteq Targets /\ revSeq \in Int
  BY <1>1, FileTypes, BoundTypes DEF TypeOK, Records
<1>8. live[u] \subseteq grants[u].targets \cup stray[u]
  BY <1>1, UpNames DEF MemberInv
<1> HIDE DEF r
<1>9. CASE grants' = grants /\ op'[u].phase = "idle"
  BY <1>1, <1>8, <1>9, IdleMember
<1>10. CASE GrantTooLate(u, r)
  BY <1>1, <1>9, <1>10, EmptyTypes DEF GrantTooLate
<1>11. CASE GrantWrites(u, r)
  <2>1. WriteAndApply(u, r, grants[u]) /\ grants[u].targets \subseteq r.targets
    BY <1>11 DEF GrantWrites, orphaned
  <2>2. CASE Written(u, r, grants[u])
    <3>1. live'[u] \subseteq grants'[u].targets \cup stray'[u]
      BY <1>1, <1>8, <2>1, <2>2 DEF Written
    <3>2. grants[u] = NoRow => live'[u] \subseteq stray'[u]
      BY <1>1, <1>8, EmptyTypes
    <3>3. op'[u].rec.rev <= revSeq'
      BY <1>7, <2>2 DEF Written
    <3>4. QED
      BY <2>2, <3>1, <3>2, <3>3
         DEF Written, MemberInv, MigrateInv, GiveInv, RevInv, TakeInv, Named
  <2>3. QED
    <3>1. TypeOK /\ r \in Records /\ grants[u] \in Records
      BY <1>1, <1>7
    <3>2. WriteAndApply(u, r, grants[u])
      BY <2>1
    <3>3. Written(u, r, grants[u]) \/ Unwritten(u)
      BY <3>1, <3>2, WriteEffect
    <3>4. QED
      BY <1>9, <2>2, <3>3 DEF Unwritten
<1>12. CASE GrantMigrates(u, r)
  <2> DEFINE orphan == orphaned(grants[u], r)
             new    == [r EXCEPT !.targets = covering(r, orphan)]
  <2>1. /\ orphan = grants[u].targets \ r.targets /\ orphan # {}
        /\ orphan \subseteq Targets /\ orphan \cap RoleTargets = {}
    BY <1>1, <1>7, <1>12 DEF GrantMigrates, orphaned, NoRoleRows
  <2>2. covering(r, orphan) = r.targets \cup orphan
    BY <2>1 DEF covering
  <2>3. new \in Records /\ new.targets = r.targets \cup orphan
    BY <1>7, <2>1, <2>2 DEF Records
  <2> HIDE DEF new, orphan
  <2>4. CASE /\ IF adapter.covers THEN Put(u, new) ELSE UNCHANGED <<grants, revSeq>>
             /\ Call(u, "migrate", r, grants[u], orphan)
    <3>1. /\ op'[u].phase = "migrate" /\ op'[u].rec = r /\ op'[u].prev = grants[u]
          /\ op'[u].todo = orphan
      <4>1. "migrate" \in Phases
        BY DEF Phases
      <4>2. /\ TypeOK /\ Call(u, "migrate", r, grants[u], orphan)
            /\ r \in Records /\ grants[u] \in Records /\ orphan \in SUBSET Targets
        BY <1>1, <1>7, <2>1, <2>4
      <4>3. QED
        BY <4>1, <4>2, CallEffect
    <3>2. grants[u].targets \subseteq grants'[u].targets
      <4>1. CASE adapter.covers
        <5>1. Put(u, new)
          BY <2>4, <4>1
        <5>2. grants'[u].targets = new.targets
          BY <1>1, <2>3, <5>1, PutEffect
        <5>3. QED
          BY <2>1, <2>3, <5>2
      <4>2. CASE ~adapter.covers
        BY <2>4, <4>2
      <4>3. QED
        BY <4>1, <4>2
    <3>3. ~adapter'.covers => grants'[u] = op'[u].prev
      BY <1>1, <2>4, <3>1
    <3>4. grants[u] # NoRow
      BY <2>1, EmptyTypes
    <3>5. QED
      BY <1>1, <1>8, <2>1, <3>1, <3>2, <3>3, <3>4
         DEF MemberInv, MigrateInv, GiveInv, RevInv, TakeInv, Named
  <2>5. CASE PutFails /\ UNCHANGED op
    BY <1>1, <1>9, <2>5, EmptyTypes DEF PutFails
  <2>6. QED
    BY <1>12, <2>4, <2>5 DEF GrantMigrates, new, orphan
<1>13. QED
  BY <1>6, <1>10, <1>11, <1>12 DEF r

(* The code between two awaits. *)
LEMMA CoverResume ==
  ASSUME CoverInv, NEW u \in Users, Resume(u)
  PROVE  CoverInv'
<1>1. /\ TypeInv /\ TypeOK /\ StartInv /\ PlaceInv /\ MemberInv(u)
      /\ \A v \in Users : MemberInv(v)
  BY DEF CoverInv, TypeInv
<1>2. up = "up"
  BY <1>1 DEF StartInv, Resume, Migrated, MigrateFails, Applied, ApplyRefused, RefusalTaken,
              ApplyFailsKept, ApplyFailsUndone, TakenBack, TakeBackFails, AdmitSettles
<1>3. /\ UNCHANGED rest /\ revSeq' >= revSeq
      /\ \A v \in Users : v # u => grants'[v] = grants[v] /\ op'[v] = op[v]
  BY <1>1, ResumeEffect
<1>4. UNCHANGED <<adapter, scope, importedFrom, legacy, up, conf, live, stray>>
  BY <1>3 DEF rest
<1>5. TypeInv' /\ StartInv' /\ PlaceInv'
  BY <1>1, <1>2, <1>4, TypeResume, UpInvs
<1>6. ASSUME NEW v \in Users, v # u PROVE MemberInv(v)'
  BY <1>1, <1>3, <1>4, <1>5, <1>6, MemberKept
<1>7. SUFFICES MemberInv(u)'
  BY <1>5, <1>6 DEF CoverInv
<1>8. live[u] \subseteq grants[u].targets \cup stray[u]
  BY <1>1, <1>2, UpNames DEF MemberInv
<1>9. /\ op[u].rec \in Records /\ op[u].prev \in Records /\ grants[u] \in Records
      /\ op[u].rec.targets \subseteq Targets /\ revSeq \in Int
  BY <1>1, BoundTypes DEF TypeOK, Records
<1>10. CASE op'[u].phase = "idle" /\ grants'[u] = grants[u]
  BY <1>4, <1>8, <1>10, IdleMember
<1>11. ASSUME Settle(u) PROVE op'[u].phase = "idle"
  BY <1>1, <1>11, SettleEffect
<1>12. CASE Settle(u) /\ UNCHANGED grants
  BY <1>10, <1>11, <1>12
<1>13. CASE Migrated(u)
  <2> DEFINE r == op[u].rec
             p == op[u].prev
  <2>1. p # NoRow /\ live[u] \subseteq r.targets \cup stray[u]
    BY <1>1, <1>13 DEF Migrated, MemberInv, MigrateInv
  <2>2. TypeOK /\ r \in Records /\ p \in Records /\ WriteAndApply(u, r, p)
    BY <1>1, <1>9, <1>13 DEF Migrated
  <2> HIDE DEF r, p
  <2>3. Written(u, r, p) \/ Unwritten(u)
    BY <2>2, WriteEffect
  <2>4. CASE Written(u, r, p)
    <3>1. op'[u].rec.rev <= revSeq'
      BY <1>9, <2>4 DEF Written
    <3>2. QED
      BY <1>4, <2>1, <2>4, <3>1
         DEF Written, MemberInv, MigrateInv, GiveInv, RevInv, TakeInv, Named
  <2>5. QED
    BY <1>10, <2>3, <2>4 DEF Unwritten
<1>14. CASE MigrateFails(u)
  <2>1. Settle(u) /\ live[u] \subseteq op[u].prev.targets \cup stray[u]
    BY <1>1, <1>14 DEF MigrateFails, MemberInv, MigrateInv
  <2>2. CASE Put(u, op[u].prev)
    <3>1. grants'[u].targets = op[u].prev.targets
      BY <1>1, <1>9, <2>2, PutEffect
    <3>2. QED
      BY <1>4, <1>11, <2>1, <3>1, IdleMember
  <2>3. CASE UNCHANGED grants
    BY <1>12, <2>1, <2>3
  <2>4. QED
    BY <1>14, <2>2, <2>3 DEF MigrateFails, PutFails
<1>15. CASE /\ Settle(u) /\ Del(u, op[u].rec.rev)
            /\ grants[u].rev = op[u].rec.rev => live[u] \subseteq stray[u]
  <2>1. \/ grants[u].rev = op[u].rec.rev /\ grants'[u] = NoRow
        \/ grants'[u] = grants[u]
    BY <1>1, <1>15, DelEffect
  <2>2. CASE grants'[u] = NoRow /\ live[u] \subseteq stray[u]
    BY <1>4, <1>11, <1>15, <2>2, EmptyTypes, IdleMember
  <2>3. QED
    BY <1>10, <1>11, <1>15, <2>1, <2>2
<1>16. CASE ApplyRefused(u)
  BY <1>1, <1>15, <1>16 DEF ApplyRefused, RefusalTaken, MemberInv, GiveInv
<1>17. CASE TakenBack(u)
  BY <1>1, <1>15, <1>17 DEF TakenBack, MemberInv, TakeInv
<1>18. CASE ApplyFailsUndone(u)
  <2> DEFINE r  == op[u].rec
             ts == r.targets
  <2>1. /\ Call(u, "undo", r, NoRow, ts) /\ UNCHANGED <<grants, revSeq>>
        /\ op[u].phase = "apply"
    BY <1>18 DEF ApplyFailsUndone
  <2>2. /\ TypeOK /\ r \in Records /\ ts \in SUBSET Targets /\ NoRow \in Records
        /\ "undo" \in Phases
    BY <1>1, <1>9, EmptyTypes DEF Phases
  <2>3. r.rev <= revSeq /\ (grants[u].rev = r.rev => grants[u].targets = ts)
    BY <1>1, <2>1 DEF MemberInv, RevInv
  <2>4. r.targets = ts
    OBVIOUS
  <2> HIDE DEF r, ts
  <2>5. op'[u].phase = "undo" /\ op'[u].rec = r /\ op'[u].todo = ts
    <3>1. op' = [op EXCEPT ![u] = [phase |-> "undo", rec |-> r, prev |-> NoRow,
                                   todo |-> ts, sent |-> FALSE]]
      BY <2>1 DEF Call
    <3>2. u \in DOMAIN op
      BY <2>2 DEF TypeOK
    <3>3. QED
      BY ONLY <3>1, <3>2
  <2>6. QED
    <3>1. /\ UNCHANGED <<grants, revSeq, live, stray>> /\ grants'[u] = grants[u]
          /\ live[u] \subseteq grants[u].targets \cup stray[u]
      BY <1>4, <1>8, <2>1
    <3>2. MigrateInv(u)' /\ GiveInv(u)'
      BY <2>5 DEF MigrateInv, GiveInv
    <3>3. RevInv(u)'
      BY <2>3, <2>4, <2>5, <3>1 DEF RevInv
    <3>4. TakeInv(u)'
      BY <2>3, <2>5, <3>1 DEF TakeInv
    <3>5. (live[u] \subseteq Named(u) \cup stray[u])'
      BY <3>1 DEF Named
    <3>6. QED
      BY <3>2, <3>3, <3>4, <3>5 DEF MemberInv
<1>19. QED
  BY <1>12, <1>13, <1>14, <1>16, <1>17, <1>18
     DEF Resume, Applied, ApplyFailsKept, TakeBackFails, AdmitSettles

(* The visits of a sweep and the questions. *)
LEMMA CoverAsked ==
  ASSUME CoverInv, NEW u \in Users, SweepVisits(u) \/ Admit(u) \/ Asked(u)
  PROVE  CoverInv'
<1>1. /\ TypeInv /\ TypeOK /\ StartInv /\ PlaceInv /\ MemberInv(u) /\ up = "up"
      /\ \A v \in Users : MemberInv(v)
      /\ UNCHANGED <<adapter, grants, revSeq, scope, importedFrom, legacy, up, conf,
                     live, stray>>
  BY DEF CoverInv, TypeInv, SweepVisits, Admit, Asked
<1>2. TypeInv' /\ StartInv' /\ PlaceInv'
  BY <1>1, TypeAsked, UpInvs
<1>3. /\ revSeq \in Int /\ grants[u] \in Records /\ grants[u].targets \subseteq Targets
      /\ grants[u].rev <= revSeq /\ NoRow \in Records
  BY <1>1, BoundTypes, EmptyTypes DEF TypeOK, Records
<1>4. revSeq' >= revSeq
  BY <1>1, <1>3
<1>5. ASSUME NEW v \in Users, op'[v] = op[v] PROVE MemberInv(v)'
  BY <1>1, <1>2, <1>4, <1>5, MemberKept
<1>6. live[u] \subseteq grants[u].targets \cup stray[u]
  BY <1>1, UpNames DEF MemberInv
<1>7. CASE op' = op
  BY <1>2, <1>5, <1>7 DEF CoverInv
<1>8. ASSUME NEW ph \in {"sweep", "admit"}, NEW ts \in SUBSET grants[u].targets,
             Call(u, ph, grants[u], NoRow, ts), ph = "sweep" => ts = grants[u].targets
      PROVE  CoverInv'
  <2>1. ph \in Phases /\ ts \in SUBSET Targets
    BY <1>3 DEF Phases
  <2>2. /\ op'[u].phase = ph /\ op'[u].rec = grants[u] /\ op'[u].todo = ts
        /\ \A v \in Users : v # u => op'[v] = op[v]
    <3>1. TypeOK /\ grants[u] \in Records /\ NoRow \in Records
          /\ Call(u, ph, grants[u], NoRow, ts)
      BY <1>1, <1>3, <1>8
    <3>2. QED
      BY <2>1, <3>1, CallEffect
  <2>3. MemberInv(u)'
    BY <1>1, <1>3, <1>6, <1>8, <2>2
       DEF MemberInv, MigrateInv, GiveInv, RevInv, TakeInv, Named
  <2>4. QED
    BY <1>2, <1>5, <2>2, <2>3 DEF CoverInv
<1>9. CASE Call(u, "sweep", grants[u], NoRow, grants[u].targets)
  BY <1>8, <1>9
<1>10. CASE Call(u, "admit", grants[u], NoRow, grants[u].targets \cap conf.targets)
  BY <1>8, <1>10
<1>11. QED
  BY <1>7, <1>9, <1>10 DEF SweepVisits, Admit, Asked, SweepSkips, SweepTakes

(* What one member's access may do while the row stays: lose what is not
   stray, or change together with what is. *)
LEMMA AccessMoves ==
  ASSUME TypeInv, TypeInv', PlaceInv, StartInv, \A v \in Users : MemberInv(v),
         UNCHANGED elsewhere,
         NEW f, f \in [Users -> SUBSET Targets], NEW g, g \in [Users -> SUBSET Targets],
         \A v \in Users : live'[v] = (live[v] \ f[v]) \cup g[v],
         \A v \in Users : stray'[v] = (stray[v] \ f[v]) \cup g[v],
         op' = op
  PROVE  PlaceInv' /\ StartInv' /\ \A v \in Users : MemberInv(v)'
<1>1. UNCHANGED <<adapter, grants, revSeq, scope, importedFrom, legacy, up, conf>>
  BY DEF elsewhere
<1>2. PlaceInv' /\ StartInv'
  BY <1>1 DEF PlaceInv, StartInv, NoRows, HasRow
<1>3. ASSUME NEW v \in Users PROVE MemberInv(v)'
  <2>1. MemberInv(v) /\ live'[v] = (live[v] \ f[v]) \cup g[v]
        /\ stray'[v] = (stray[v] \ f[v]) \cup g[v]
    OBVIOUS
  <2>2. MigrateInv(v)'
    BY <1>1, <2>1 DEF MemberInv, MigrateInv
  <2>3. GiveInv(v)' /\ RevInv(v)'
    BY <1>1, <2>1 DEF MemberInv, GiveInv, RevInv
  <2>4. TakeInv(v)'
    BY <1>1, <2>1 DEF MemberInv, TakeInv
  <2>5. (live[v] \subseteq Named(v) \cup stray[v])'
    BY <1>1, <2>1 DEF MemberInv, Named
  <2>6. QED
    BY <2>2, <2>3, <2>4, <2>5 DEF MemberInv
<1>4. QED
  BY <1>2, <1>3

LEMMA CoverOutside ==
  ASSUME CoverInv, Outside
  PROVE  CoverInv'
<1>1. /\ TypeInv /\ TypeOK /\ StartInv /\ PlaceInv
      /\ \A v \in Users : MemberInv(v)
  BY DEF CoverInv, TypeInv
<1>2. TypeInv' /\ live \in [Users -> SUBSET Targets] /\ stray \in [Users -> SUBSET Targets]
  BY <1>1, TypePlatform DEF TypeOK
<1>3. UNCHANGED elsewhere /\ op' = op
  BY DEF Outside, GivenOutside, TakenOutside
<1>4. ASSUME NEW t \in Targets, NEW u \in Users, GivenOutside(u, t)
      PROVE  CoverInv'
  <2> DEFINE f == [v \in Users |-> {}]
             g == [v \in Users |-> IF v = u THEN {t} ELSE {}]
  <2>1. /\ f \in [Users -> SUBSET Targets] /\ g \in [Users -> SUBSET Targets]
        /\ \A v \in Users : live'[v] = (live[v] \ f[v]) \cup g[v]
        /\ \A v \in Users : stray'[v] = (stray[v] \ f[v]) \cup g[v]
    BY <1>2, <1>4 DEF GivenOutside
  <2> HIDE DEF f, g
  <2>2. QED
    BY <1>1, <1>2, <1>3, <2>1, AccessMoves DEF CoverInv
<1>5. ASSUME NEW t \in Targets, NEW us \in SUBSET Users, TakenOutside(us, t)
      PROVE  CoverInv'
  <2> DEFINE f == [v \in Users |-> IF v \in us THEN {t} ELSE {}]
             g == [v \in Users |-> {}]
  <2>1. /\ f \in [Users -> SUBSET Targets] /\ g \in [Users -> SUBSET Targets]
        /\ \A v \in Users : live'[v] = (live[v] \ f[v]) \cup g[v]
        /\ \A v \in Users : stray'[v] = (stray[v] \ f[v]) \cup g[v]
    BY <1>2, <1>5 DEF TakenOutside, Without
  <2> HIDE DEF f, g
  <2>2. QED
    BY <1>1, <1>2, <1>3, <2>1, AccessMoves DEF CoverInv
<1>6. QED
  BY <1>4, <1>5 DEF Outside

(* A target of a call in flight changes. *)
LEMMA CoverPlatform ==
  ASSUME CoverInv, NEW u \in Users, Platform(u)
  PROVE  CoverInv'
<1>1. /\ TypeInv /\ TypeOK /\ StartInv /\ PlaceInv /\ MemberInv(u)
      /\ \A v \in Users : MemberInv(v)
  BY DEF CoverInv, TypeInv
<1>2. PICK t \in Targets, learned \in BOOLEAN : Gives(u, t, learned) \/ Takes(u, t, learned)
  BY DEF Platform
<1>3. TypeInv' /\ UNCHANGED elsewhere
  BY <1>1, <1>2, TypePlatform DEF Gives, Takes
<1>4. UNCHANGED <<adapter, grants, revSeq, scope, importedFrom, legacy, up, conf>>
  BY <1>3 DEF elsewhere
<1>5. up = "up" /\ t \in op[u].todo
  BY <1>1, <1>2 DEF StartInv, Gives, Takes, Giving, Taking
<1>6. /\ op \in [Users -> Ops] /\ live \in [Users -> SUBSET Targets]
      /\ stray \in [Users -> SUBSET Targets] /\ revSeq' >= revSeq
  BY <1>1, <1>4, BoundTypes DEF TypeOK, Ops
<1>7. StartInv'
  BY <1>1, <1>4, <1>5, UpInvs
<1>8. adapter.scoped => scope # NoScope /\ scope = conf.place
  BY <1>1, <1>5 DEF PlaceInv
<1>9. CASE Gives(u, t, learned)
  <2>1. /\ op[u].phase \in {"apply", "admit"} /\ Reachable(t)
        /\ live' = [live EXCEPT ![u] = @ \cup {t}] /\ stray' = stray
        /\ op' = [op EXCEPT ![u].sent = TRUE,
                            ![u].todo = IF learned THEN @ \ {t} ELSE @]
    BY <1>9 DEF Gives, Giving
  <2>2. /\ live'[u] = live[u] \cup {t}
        /\ \A v \in Users : v # u => live'[v] = live[v] /\ op'[v] = op[v]
    BY <1>6, <2>1
  <2>3. /\ op'[u].phase = op[u].phase /\ op'[u].rec = op[u].rec /\ op'[u].sent = TRUE
        /\ op'[u].prev = op[u].prev /\ op'[u].todo \subseteq op[u].todo
    BY <1>6, <2>1 DEF Ops
  <2>4. PlaceInv'
    <3>1. adapter.scoped => PlaceOf[t] = scope
      BY <1>8, <2>1 DEF Reachable
    <3>2. QED
      BY <1>1, <1>4, <2>1, <2>2, <3>1 DEF PlaceInv
  <2>5. t \in grants[u].targets
    BY <1>1, <1>5, <2>1 DEF MemberInv, GiveInv
  <2>6. MemberInv(u)'
    <3>1. (live[u] \subseteq Named(u) \cup stray[u])'
      BY <1>1, <1>4, <2>1, <2>2, <2>5 DEF MemberInv, Named
    <3>2. MigrateInv(u)' /\ GiveInv(u)' /\ RevInv(u)' /\ TakeInv(u)'
      BY <1>1, <1>4, <2>1, <2>3 DEF MemberInv, MigrateInv, GiveInv, RevInv, TakeInv
    <3>3. QED
      BY <3>1, <3>2 DEF MemberInv
  <2>7. ASSUME NEW v \in Users, v # u PROVE MemberInv(v)'
    BY <1>1, <1>3, <1>4, <1>6, <2>1, <2>2, <2>7, MemberKept
  <2>8. QED
    BY <1>3, <1>7, <2>4, <2>6, <2>7 DEF CoverInv
<1>10. CASE Takes(u, t, learned)
  <2>1. /\ op[u].phase \in {"migrate", "undo", "sweep"}
        /\ op' = [op EXCEPT ![u].todo = IF learned THEN @ \ {t} ELSE @]
    BY <1>10 DEF Takes, Taking
  <2>2. \A v \in Users : v # u => op'[v] = op[v]
    BY <1>6, <2>1
  <2>3. /\ op'[u].phase = op[u].phase /\ op'[u].rec = op[u].rec
        /\ op'[u].prev = op[u].prev
        /\ op[u].todo \ {t} \subseteq op'[u].todo
    BY <1>6, <2>1 DEF Ops
  <2>4. /\ \A v \in Users : v # u => live'[v] = live[v] /\ stray'[v] = stray[v]
        /\ live'[u] \subseteq live[u] /\ live[u] \ {t} \subseteq live'[u]
        /\ stray'[u] \subseteq stray[u] /\ stray[u] \ {t} \subseteq stray'[u]
        /\ t \notin live'[u] \ stray'[u]
    <3>1. CASE Reachable(t)
      BY <1>6, <1>10, <3>1 DEF Takes
    <3>2. CASE ~Reachable(t)
      <4>1. UNCHANGED <<live, stray>>
        BY <1>10, <3>2 DEF Takes
      <4>2. t \notin live[u] \ stray[u]
        BY <1>1, <1>8, <3>2 DEF Reachable, PlaceInv
      <4>3. QED
        BY <4>1, <4>2
    <3>3. QED
      BY <3>1, <3>2
  <2>5. live'[u] \ stray'[u] \subseteq (live[u] \ stray[u]) \ {t}
    BY <2>4
  <2>6. PlaceInv'
    BY <1>1, <1>4, <2>4, <2>5 DEF PlaceInv
  <2>7. MemberInv(u)'
    <3>1. (live[u] \subseteq Named(u) \cup stray[u])'
      BY <1>1, <1>4, <2>5 DEF MemberInv, Named
    <3>2. MigrateInv(u)'
      BY <1>1, <1>4, <2>3, <2>5 DEF MemberInv, MigrateInv
    <3>3. TakeInv(u)'
      BY <1>1, <1>4, <2>3, <2>5 DEF MemberInv, TakeInv
    <3>4. GiveInv(u)' /\ RevInv(u)'
      BY <1>1, <1>4, <2>1, <2>3 DEF MemberInv, GiveInv, RevInv
    <3>5. QED
      BY <3>1, <3>2, <3>3, <3>4 DEF MemberInv
  <2>8. ASSUME NEW v \in Users, v # u PROVE MemberInv(v)'
    BY <1>1, <1>3, <1>4, <1>6, <2>2, <2>4, <2>8, MemberKept
  <2>9. QED
    BY <1>3, <1>7, <2>6, <2>7, <2>8 DEF CoverInv
<1>11. QED
  BY <1>2, <1>9, <1>10

(* A second process writes a row of its own and applies it. *)
LEMMA CoverOther ==
  ASSUME CoverInv, NEW u \in Users, NEW t \in Time, OtherProcessGrants(u, t)
  PROVE  CoverInv'
<1>1. /\ TypeInv /\ TypeOK /\ StartInv /\ PlaceInv /\ MemberInv(u) /\ up = "up"
      /\ \A v \in Users : MemberInv(v) /\ op[u].phase # "migrate"
      /\ grants[u].targets \subseteq conf.targets /\ Put(u, Offer(t))
      /\ live' = [live EXCEPT ![u] = @ \cup {x \in conf.targets : Reachable(x)}]
      /\ UNCHANGED <<adapter, scope, importedFrom, legacy, up, conf, op, stray>>
  BY FileTypes DEF CoverInv, TypeInv, OtherProcessGrants, orphaned, Offer
<1>2. TypeInv' /\ StartInv'
  BY <1>1, TypeOther, UpInvs
<1>3. Offer(t) \in Records /\ Offer(t).targets = conf.targets /\ revSeq \in Int
  BY <1>1, FileTypes, BoundTypes DEF TypeOK
<1>4. /\ grants'[u].targets = conf.targets /\ grants'[u].rev = revSeq + 1
      /\ revSeq' = revSeq + 1 /\ \A v \in Users : v # u => grants'[v] = grants[v]
  BY <1>1, <1>3, PutEffect
<1>5. /\ live'[u] = live[u] \cup {x \in conf.targets : Reachable(x)}
      /\ \A v \in Users : v # u => live'[v] = live[v]
  BY <1>1 DEF TypeOK
<1>6. PlaceInv'
  <2>1. adapter.scoped => \A x \in conf.targets : Reachable(x) => PlaceOf[x] = scope
    BY <1>1 DEF PlaceInv, Reachable
  <2>2. QED
    BY <1>1, <1>5, <2>1 DEF PlaceInv
<1>7. revSeq' >= revSeq
  BY <1>3, <1>4
<1>8. ASSUME NEW v \in Users, v # u PROVE MemberInv(v)'
  BY <1>1, <1>2, <1>4, <1>5, <1>7, <1>8, MemberKept
<1>9. MemberInv(u)'
  <2>1. op[u].phase \in {"apply", "undo", "sweep"} =>
          op[u].rec.rev <= revSeq' /\ grants'[u].rev # op[u].rec.rev
    <3>1. op[u].rec.rev \in Int
      BY <1>1, BoundTypes DEF TypeOK, Records
    <3>2. QED
      BY <1>1, <1>3, <1>4, <3>1 DEF MemberInv, RevInv
  <2>2. MigrateInv(u)' /\ RevInv(u)' /\ TakeInv(u)'
    BY <1>1, <2>1 DEF MigrateInv, RevInv, TakeInv
  <2>3. GiveInv(u)'
    BY <1>1, <1>4, <2>1 DEF MemberInv, GiveInv
  <2>4. (live[u] \subseteq Named(u) \cup stray[u])'
    BY <1>1, <1>4, <1>5, UpNames DEF MemberInv, Named
  <2>5. QED
    BY <2>2, <2>3, <2>4 DEF MemberInv
<1>10. QED
  BY <1>2, <1>6, <1>8, <1>9 DEF CoverInv

(* The start of a process: nobody has an operation under way. *)
LEMMA CoverOpen ==
  ASSUME CoverInv, NEW c \in adapter.configs, Open(c)
  PROVE  CoverInv'
<1>1. /\ TypeInv /\ TypeOK /\ StartInv /\ PlaceInv /\ up = "down" /\ MayOpen(c)
      /\ \A v \in Users : MemberInv(v) /\ op[v].phase = "idle"
  BY DEF CoverInv, TypeInv, StartInv, Open
<1>2. /\ TypeInv' /\ up' = "import" /\ conf' = c
      /\ scope' = IF scope # NoScope /\ ScopeOf(c) # NoScope THEN ScopeOf(c) ELSE scope
      /\ UNCHANGED <<adapter, grants, importedFrom, legacy, op, live, stray>>
  BY <1>1, TypeOpen DEF Open, history
<1>3. StartInv'
  BY <1>1, <1>2 DEF StartInv, NoRows, HasRow
<1>4. PlaceInv'
  <2>1. CASE ~adapter.scoped
    BY <1>2, <2>1 DEF PlaceInv
  <2>2. CASE adapter.scoped
    <3>1. ScopeOf(c) = c.place /\ c.place # NoScope
      <4>1. conf'.place \in Places
        BY <1>2, LedgerAssumption DEF TypeInv, TypeOK
      <4>2. QED
        BY <1>2, <2>2, <4>1, LedgerAssumption DEF ScopeOf
    <3>2. scope' # NoScope => scope' = conf'.place /\ scope # NoScope
      BY <1>2, <3>1
    <3>3. scope' # NoScope /\ scope' # scope => \A v \in Users : live[v] \ stray[v] = {}
      <4>1. SUFFICES ASSUME scope' # NoScope, scope' # scope, NEW v \in Users
                     PROVE  live[v] \ stray[v] = {}
        OBVIOUS
      <4>2. NoRows /\ (importedFrom \/ legacy = NoLegacy)
        BY <1>1, <1>2, <3>1, <3>2, <4>1 DEF MayOpen, NoPending
      <4>3. Named(v) = {}
        BY <4>2, EmptyTypes DEF Named, NoRows, HasRow
      <4>4. QED
        BY <1>1, <4>3 DEF MemberInv
    <3>4. QED
      BY <1>1, <1>2, <3>2, <3>3 DEF PlaceInv
  <2>3. QED
    BY <2>1, <2>2
<1>5. ASSUME NEW v \in Users PROVE MemberInv(v)'
  <2>1. (live[v] \subseteq Named(v) \cup stray[v])'
    BY <1>1, <1>2 DEF MemberInv, Named
  <2>2. QED
    BY <1>1, <1>2, <2>1 DEF MemberInv, MigrateInv, GiveInv, RevInv, TakeInv
<1>6. QED
  BY <1>2, <1>3, <1>4, <1>5 DEF CoverInv

LEMMA CoverBoot ==
  ASSUME CoverInv, Boot
  PROVE  CoverInv'
<1>1. /\ TypeInv /\ TypeOK /\ StartInv /\ PlaceInv
      /\ \A v \in Users : MemberInv(v)
  BY DEF CoverInv, TypeInv
<1>2. TypeInv' /\ up # "up" /\ UNCHANGED <<adapter, conf, op, live, stray>>
  BY <1>1, TypeBoot DEF Boot, Import, Rename, Bind
<1>3. \A v \in Users : op[v].phase = "idle"
  BY <1>1, <1>2 DEF StartInv
<1>4. ASSUME \A v \in Users : (live[v] \subseteq Named(v) \cup stray[v])', StartInv', PlaceInv'
      PROVE  CoverInv'
  BY <1>2, <1>3, <1>4 DEF CoverInv, MemberInv, MigrateInv, GiveInv, RevInv, TakeInv
<1>5. CASE Import
  <2>1. up = "import" /\ UNCHANGED <<scope, legacy>> /\ up' \in {"bind", "rename"}
    BY <1>5 DEF Import
  <2>2. PlaceInv'
    BY <1>1, <1>2, <2>1 DEF PlaceInv
  <2>3. CASE NoPending
    <3>1. UNCHANGED <<grants, importedFrom>> /\ up' = "bind"
      BY <1>5, <2>3 DEF Import
    <3>2. StartInv'
      BY <1>1, <1>2, <1>3, <2>1, <2>3, <3>1 DEF StartInv, NoPending, NoRows, HasRow
    <3>3. \A v \in Users : (live[v] \subseteq Named(v) \cup stray[v])'
      BY <1>1, <1>2, <2>1, <3>1 DEF MemberInv, Named
    <3>4. QED
      BY <1>4, <2>2, <3>2, <3>3
  <2>4. CASE ~NoPending
    <3>1. /\ revSeq < MaxRev /\ grants' = Adopted(legacy.rows) /\ importedFrom' = TRUE
          /\ up' = "rename"
      BY <1>5, <2>4 DEF Import
    <3>2. StartInv'
      BY <1>2, <1>3, <3>1 DEF StartInv
    <3>3. ASSUME NEW v \in Users PROVE (live[v] \subseteq Named(v) \cup stray[v])'
      <4>1. grants'[v].targets = legacy.rows[v].targets
        BY <1>1, <3>1, AdoptedEffect
      <4>2. Named(v) = legacy.rows[v].targets
        BY <2>4 DEF Named, NoPending, NoRows, HasRow
      <4>3. QED
        BY <1>1, <1>2, <2>1, <3>1, <4>1, <4>2 DEF MemberInv, Named
    <3>4. QED
      BY <1>4, <2>2, <3>2, <3>3
  <2>5. QED
    BY <2>3, <2>4
<1>6. CASE Rename
  <2>1. /\ up = "rename" /\ up' = "bind" /\ importedFrom
        /\ UNCHANGED <<grants, scope, importedFrom>>
    BY <1>1, <1>6 DEF Rename, db, StartInv
  <2>2. PlaceInv' /\ StartInv'
    BY <1>1, <1>2, <1>3, <2>1 DEF PlaceInv, StartInv
  <2>3. \A v \in Users : (live[v] \subseteq Named(v) \cup stray[v])'
    BY <1>1, <1>2, <2>1 DEF MemberInv, Named
  <2>4. QED
    BY <1>4, <2>2, <2>3
<1>7. ASSUME NEW adopt \in BOOLEAN, NEW reset \in BOOLEAN, Bind(adopt, reset)
      PROVE  CoverInv'
  <2>1. /\ up = "bind" /\ up' \in {"up", "down"}
        /\ UNCHANGED <<grants, importedFrom, legacy>>
    BY <1>7 DEF Bind
  <2>2. importedFrom \/ legacy = NoLegacy
    BY <1>1, <2>1 DEF StartInv
  <2>3. \A v \in Users : (live[v] \subseteq Named(v) \cup stray[v])'
    BY <1>1, <1>2, <2>1 DEF MemberInv, Named
  <2>4. StartInv'
    BY <1>2, <1>3, <2>1, <2>2 DEF StartInv
  <2>5. CASE ~MayBind(adopt)
    <3>1. up' = "down" /\ scope' = scope
      BY <1>7, <2>5 DEF Bind
    <3>2. QED
      BY <1>1, <1>2, <1>4, <2>3, <2>4, <3>1 DEF PlaceInv
  <2>6. CASE MayBind(adopt)
    <3>1. up' = "up" /\ scope' = IF scope = NoScope THEN ScopeOf(conf) ELSE scope
      BY <1>7, <2>6 DEF Bind
    <3>2. CASE scope # NoScope \/ ~adapter.scoped
      BY <1>1, <1>2, <1>4, <2>1, <2>3, <2>4, <3>1, <3>2 DEF PlaceInv
    <3>3. CASE scope = NoScope /\ adapter.scoped
      <4>1. scope' = conf.place /\ conf.place # NoScope
        BY <1>1, <3>1, <3>3, FileTypes, LedgerAssumption DEF ScopeOf
      <4>2. NoRows \/ AdoptIsTrue
        BY <2>6, <3>3, <4>1 DEF MayBind, ScopeOf
      <4>3. \A v \in Users : live[v] \ stray[v] \subseteq grants[v].targets
        BY <1>1, <2>1, UpNames DEF MemberInv
      <4>4. \A v \in Users : \A t \in live[v] \ stray[v] : PlaceOf[t] = conf.place
        BY <4>2, <4>3 DEF NoRows, HasRow, AdoptIsTrue
      <4>5. PlaceInv'
        BY <1>2, <4>1, <4>4 DEF PlaceInv
      <4>6. QED
        BY <1>4, <2>3, <2>4, <4>5
    <3>4. QED
      BY <3>2, <3>3
  <2>7. QED
    BY <2>5, <2>6
<1>8. QED
  BY <1>5, <1>6, <1>7 DEF Boot

LEMMA CoverDown ==
  ASSUME CoverInv,
         \/ Crash
         \/ Sweep
         \/ \E lost \in [Users -> SUBSET Targets] : Retire(lost)
         \/ \E t \in Time : SetClock(t)
         \/ UNCHANGED vars
  PROVE  CoverInv'
<1>1. /\ TypeInv /\ TypeOK /\ StartInv /\ PlaceInv
      /\ \A v \in Users : MemberInv(v)
  BY DEF CoverInv, TypeInv
<1>2. TypeInv' /\ UNCHANGED <<adapter, scope, importedFrom, legacy, conf, live, stray>>
  <2>1. [Next]_vars
    BY DEF Next
  <2>2. TypeInv'
    BY <1>1, <2>1, TypeNext
  <2>3. QED
    BY <2>2 DEF Crash, Sweep, Retire, RetireRows, SetClock, vars, db
<1>3. CASE Crash
  <2>1. /\ up' = "down" /\ grants' = grants
        /\ \A v \in Users : op'[v].phase = "idle"
    BY <1>3, EmptyTypes DEF Crash, db
  <2>2. StartInv' /\ PlaceInv'
    BY <1>1, <1>2, <2>1 DEF StartInv, PlaceInv, NoRows, HasRow
  <2>3. ASSUME NEW v \in Users PROVE MemberInv(v)'
    <3>1. (live[v] \subseteq Named(v) \cup stray[v])'
      BY <1>1, <1>2, <2>1 DEF MemberInv, Named
    <3>2. QED
      BY <2>1, <3>1 DEF MemberInv, MigrateInv, GiveInv, RevInv, TakeInv
  <2>4. QED
    BY <1>2, <2>2, <2>3 DEF CoverInv
<1>4. CASE Sweep \/ (\E t \in Time : SetClock(t)) \/ UNCHANGED vars
  <2>1. UNCHANGED <<grants, revSeq, op, up>>
    BY <1>4 DEF Sweep, SetClock, db, vars
  <2>2. StartInv' /\ PlaceInv'
    BY <1>1, <1>2, <2>1 DEF StartInv, PlaceInv, NoRows, HasRow
  <2>3. revSeq' >= revSeq
    BY <1>1, <2>1, BoundTypes DEF TypeOK
  <2>4. \A v \in Users : MemberInv(v)'
    BY <1>1, <1>2, <2>1, <2>3, MemberKept
  <2>5. QED
    BY <1>2, <2>2, <2>4 DEF CoverInv
<1>5. ASSUME NEW lost \in [Users -> SUBSET Targets], Retire(lost)
      PROVE  CoverInv'
  <2>1. /\ up = "down" /\ UNCHANGED <<up, op>> /\ RetireRows(lost)
        /\ \A v \in Users : lost[v] \cap live[v] \subseteq stray[v]
    BY <1>5 DEF Retire, RetireRows
  <2>2. \A v \in Users : op[v].phase = "idle"
    BY <1>1, <2>1 DEF StartInv
  <2>3. \A v \in Users : grants'[v].targets = grants[v].targets \ lost[v]
    BY <1>1, <2>1, RetireEffect
  <2>4. StartInv' /\ PlaceInv'
    BY <1>1, <1>2, <2>1, <2>3 DEF StartInv, PlaceInv, NoRows, HasRow
  <2>5. ASSUME NEW v \in Users PROVE MemberInv(v)'
    <3>1. (live[v] \subseteq Named(v) \cup stray[v])'
      BY <1>1, <1>2, <2>1, <2>3 DEF MemberInv, Named
    <3>2. QED
      BY <2>1, <2>2, <3>1 DEF MemberInv, MigrateInv, GiveInv, RevInv, TakeInv
  <2>6. QED
    BY <1>2, <2>4, <2>5 DEF CoverInv
<1>6. QED
  BY <1>3, <1>4, <1>5

LEMMA CoverNext == CoverInv /\ [Next]_vars => CoverInv'
<1> SUFFICES ASSUME CoverInv, [Next]_vars PROVE CoverInv'
  OBVIOUS
<1>1. ASSUME NEW u \in Users, Grant(u) \/ SweepVisits(u) \/ Admit(u) \/ Asked(u) \/ Resume(u)
      PROVE  CoverInv'
  BY <1>1, CoverGrant, CoverResume, CoverAsked
<1>2. ASSUME NEW u \in Users, NEW t \in Time, OtherProcessGrants(u, t) PROVE CoverInv'
  BY <1>2, CoverOther
<1>3. ASSUME NEW u \in Users, Platform(u) PROVE CoverInv'
  BY <1>3, CoverPlatform
<1>4. ASSUME NEW c \in adapter.configs, Open(c) PROVE CoverInv'
  BY <1>4, CoverOpen
<1>5. QED
  BY <1>1, <1>2, <1>3, <1>4, CoverOutside, CoverBoot, CoverDown DEF Next

------------------------------------------------------------------------------
(* A deadline called lapsed is never accepted again. *)

LEMMA FloorInit == Init => FloorInv
<1> SUFFICES ASSUME Init PROVE FloorInv
  OBVIOUS
<1>1. TypeOK
  BY TypeInit DEF TypeInv
<1>2. lapsed = legacy.mark /\ legacy.mark \in Int /\ ~importedFrom
  BY <1>1, FileTypes, BoundTypes DEF Init
<1>3. CASE legacy = NoLegacy
  BY <1>2, <1>3, EmptyTypes DEF Init, FloorInv
<1>4. QED
  BY <1>2, <1>3 DEF FloorInv

(* A decision that calls a deadline lapsed leaves the floor at or past it. *)
LEMMA FloorObserved ==
  ASSUME TypeOK, StartInv, FloorInv, up \in {"bind", "up"}, clockMark' = floor,
         lapsed' = lapsed \/ \E t \in Time : t <= floor /\ lapsed' = Larger(lapsed, t)
  PROVE  FloorInv'
<1>1. lapsed <= clockMark
  BY DEF StartInv, FloorInv
<1>2. floor \in Time /\ floor >= clockMark /\ lapsed \in Time /\ clockMark \in Time
  BY FileTypes DEF TypeOK
<1>3. lapsed <= floor
  BY <1>1, <1>2, BoundTypes
<1>4. lapsed' <= floor
  BY <1>3, BoundTypes DEF Larger
<1>5. QED
  BY <1>4 DEF FloorInv

LEMMA FloorNext == CoverInv /\ FloorInv /\ [Next]_vars => FloorInv'
<1> SUFFICES ASSUME CoverInv, FloorInv, [Next]_vars PROVE FloorInv'
  OBVIOUS
<1>1. TypeOK /\ StartInv /\ \A u \in Users : grants[u].exp \in Time
  BY DEF CoverInv, TypeInv, TypeOK, Records
<1>2. /\ clockMark \in Time /\ lapsed \in Time /\ now \in Time /\ legacy.mark \in Time
      /\ floor \in Time /\ floor >= now /\ clockMark \in Int /\ lapsed \in Int
  BY <1>1, FileTypes, BoundTypes DEF TypeOK
<1>3. CASE UNCHANGED <<clockMark, lapsed, importedFrom, legacy>>
  BY <1>3 DEF FloorInv
<1>4. ASSUME NEW u \in Users, Grant(u)
      PROVE  FloorInv'
  <2>1. /\ up = "up" /\ clockMark' = floor
        /\ \E t \in Time : \/ GrantTooLate(u, Offer(t))
                           \/ GrantMigrates(u, Offer(t))
                           \/ GrantWrites(u, Offer(t))
    BY <1>4 DEF Grant, GrantStarts, MayStart, Observe
  <2>2. \A t \in Time : Offer(t).exp = t
    BY DEF Offer
  <2>3. lapsed' = lapsed \/ \E t \in Time : t <= floor /\ lapsed' = Larger(lapsed, t)
    BY <1>2, <2>1, <2>2, BoundTypes DEF GrantTooLate, GrantMigrates, GrantWrites
  <2>4. QED
    BY <1>1, <2>1, <2>3, FloorObserved
<1>5. ASSUME NEW u \in Users, SweepVisits(u) \/ Admit(u) \/ Asked(u)
      PROVE  FloorInv'
  <2>1. grants[u].exp \in Time /\ grants[u].exp \in Int /\ floor \in Int
    BY <1>1, <1>2, BoundTypes
  <2>2. lapsed' = lapsed \/ \E t \in Time : t <= floor /\ lapsed' = Larger(lapsed, t)
    BY <1>1, <1>5, <2>1 DEF SweepVisits, Admit, Asked, SweepSkips, SweepTakes
  <2>3. CASE clockMark' = floor
    <3>1. up = "up"
      BY <1>5 DEF SweepVisits, Admit, Asked
    <3>2. QED
      BY <1>1, <2>2, <2>3, <3>1, FloorObserved
  <2>4. CASE UNCHANGED <<clockMark, lapsed>>
    BY <1>3, <1>5, <2>4 DEF SweepVisits, Admit, Asked
  <2>5. QED
    BY <1>5, <2>3, <2>4 DEF SweepVisits, Admit, Asked, SweepSkips, SweepTakes, Observe
<1>6. ASSUME NEW u \in Users, Resume(u)
      PROVE  FloorInv'
  BY <1>1, <1>3, <1>6, ResumeEffect DEF rest
<1>7. CASE (\E u \in Users : Platform(u)) \/ Outside
  <2>1. UNCHANGED elsewhere
    <3>1. ASSUME NEW u \in Users, Platform(u) PROVE UNCHANGED elsewhere
      BY <3>1 DEF Platform, Gives, Takes
    <3>2. CASE Outside
      BY <3>2 DEF Outside, GivenOutside, TakenOutside
    <3>3. QED
      BY <1>7, <3>1, <3>2
  <2>2. QED
    BY <1>3, <2>1 DEF elsewhere
<1>8. CASE Sweep \/ \E u \in Users, t \in Time : OtherProcessGrants(u, t)
  <2>1. up = "up" /\ clockMark' = floor /\ lapsed' = lapsed
    BY <1>8 DEF Sweep, OtherProcessGrants, Observe
  <2>2. QED
    BY <1>1, <2>1, FloorObserved
<1>9. CASE Import
  <2>1. CASE NoPending
    BY <1>3, <1>9, <2>1 DEF Import
  <2>2. CASE ~NoPending
    <3>1. clockMark' = Larger(clockMark, legacy.mark) /\ lapsed' = lapsed
      BY <1>9, <2>2 DEF Import
    <3>2. legacy.mark \in Int
      BY <1>2, BoundTypes
    <3>3. lapsed <= Larger(clockMark, legacy.mark)
      BY <1>2, <3>2 DEF FloorInv, Larger
    <3>4. QED
      BY <3>1, <3>3 DEF FloorInv
  <2>3. QED
    BY <2>1, <2>2
<1>10. CASE Rename
  <2>1. importedFrom /\ UNCHANGED <<clockMark, lapsed>>
    BY <1>1, <1>10 DEF Rename, StartInv, db, history
  <2>2. QED
    BY <2>1 DEF FloorInv
<1>11. ASSUME NEW adopt \in BOOLEAN, NEW reset \in BOOLEAN, Bind(adopt, reset)
       PROVE  FloorInv'
  <2>1. up = "bind" /\ UNCHANGED <<importedFrom, legacy>>
    BY <1>11 DEF Bind
  <2>2. CASE ~MayBind(adopt)
    BY <1>3, <1>11, <2>2 DEF Bind
  <2>3. CASE MayBind(adopt) /\ reset
    <3>1. lapsed' = 0 /\ clockMark' = now
      BY <1>11, <2>3 DEF Bind
    <3>2. 0 <= now
      BY <1>2, BoundTypes DEF Time
    <3>3. QED
      BY <3>1, <3>2 DEF FloorInv
  <2>4. CASE MayBind(adopt) /\ ~reset
    <3>1. lapsed' = lapsed /\ clockMark' = floor
      BY <1>11, <2>4 DEF Bind
    <3>2. QED
      BY <1>1, <2>1, <3>1, FloorObserved
  <2>5. QED
    BY <2>2, <2>3, <2>4
<1>12. CASE \/ \E c \in adapter.configs : Open(c)
            \/ Crash
            \/ \E lost \in [Users -> SUBSET Targets] : Retire(lost)
            \/ \E t \in Time : SetClock(t)
            \/ UNCHANGED vars
  BY <1>3, <1>12 DEF Open, Crash, Retire, RetireRows, SetClock, vars, db, history
<1>13. QED
  BY <1>4, <1>5, <1>6, <1>7, <1>8, <1>9, <1>10, <1>11, <1>12 DEF Next, Boot

(* Only a grant and an admission start an operation that gives access. *)
LEMMA StartsByDecision ==
  ASSUME CoverInv, [Next]_vars, NEW u \in Users,
         op[u] = Idle, op'[u].phase \in {"migrate", "apply", "admit"}
  PROVE  Grant(u) \/ Admit(u)
<1>1. TypeOK /\ op[u].phase = "idle"
  BY EmptyTypes DEF CoverInv, TypeInv
<1>2. op'[u] # op[u]
  BY <1>1
<1>3. ASSUME NEW v \in Users, Grant(v) \/ SweepVisits(v) \/ Admit(v) \/ Asked(v) \/ Resume(v)
      PROVE  Grant(u) \/ Admit(u)
  <2>1. CASE Resume(v)
    <3>1. v = u
      BY <1>1, <1>2, <2>1, ResumeEffect
    <3>2. QED
      BY <1>1, <2>1, <3>1
         DEF Resume, Migrated, MigrateFails, Applied, ApplyRefused, RefusalTaken,
             ApplyFailsKept, ApplyFailsUndone, TakenBack, TakeBackFails, AdmitSettles
  <2>2. CASE Grant(v)
    <3>1. v = u
      BY <1>1, <1>2, <2>2, GrantEffect DEF Grant
    <3>2. QED
      BY <2>2, <3>1
  <2>3. CASE Asked(v)
    BY <1>2, <2>3 DEF Asked
  <2>4. CASE SweepVisits(v) \/ Admit(v)
    <3>1. op' = [op EXCEPT ![v] = op'[v]] /\ (SweepVisits(v) => op'[v].phase \in {"idle", "sweep"})
      <4>1. op \in [Users -> Ops]
        BY <1>1 DEF TypeOK, Ops
      <4>2. CASE op' = op
        <5>1. SweepVisits(v) => op[v] = Idle
          BY DEF SweepVisits
        <5>2. QED
          BY <4>1, <4>2, <5>1, EmptyTypes
      <4>3. ASSUME NEW ph \in {"sweep", "admit"}, NEW ts,
                   Call(v, ph, grants[v], NoRow, ts), SweepVisits(v) => ph = "sweep"
            PROVE  /\ op' = [op EXCEPT ![v] = op'[v]]
                   /\ SweepVisits(v) => op'[v].phase \in {"idle", "sweep"}
        BY <4>1, <4>3 DEF Call
      <4>4. QED
        <5>1. CASE SweepVisits(v)
          BY <4>2, <4>3, <5>1 DEF SweepVisits, SweepSkips, SweepTakes
        <5>2. CASE Admit(v) /\ ~SweepVisits(v)
          BY <4>2, <4>3, <5>2 DEF Admit
        <5>3. QED
          BY <2>4, <5>1, <5>2
    <3>2. v = u
      BY <1>1, <1>2, <3>1 DEF TypeOK
    <3>3. QED
      BY <2>4, <3>1, <3>2
  <2>5. QED
    BY <1>3, <2>1, <2>2, <2>3, <2>4
<1>4. CASE \E v \in Users : Platform(v)
  <2>1. PICK v \in Users, t \in Targets, learned \in BOOLEAN :
           Gives(v, t, learned) \/ Takes(v, t, learned)
    BY <1>4 DEF Platform
  <2>2. op[v].phase # "idle"
    BY <2>1 DEF Gives, Takes, Giving, Taking
  <2>3. op'[u] = op[u]
    BY <1>1, <2>1, <2>2 DEF Gives, Takes, TypeOK
  <2>4. QED
    BY <1>2, <2>3
<1>5. CASE Crash
  BY <1>1, <1>2, <1>5 DEF Crash
<1>6. QED
  BY <1>2, <1>3, <1>4, <1>5
     DEF Next, Boot, Import, Rename, Bind, Outside, GivenOutside, TakenOutside,
         OtherProcessGrants, Sweep, Open, Retire, RetireRows, SetClock, vars

LEMMA AcceptedIsLive ==
  ASSUME CoverInv, FloorInv, [Next]_vars, NEW u \in Users,
         op[u] = Idle, op'[u].phase \in {"migrate", "apply", "admit"}
  PROVE  op'[u].rec.exp > lapsed
<1>1. TypeOK /\ StartInv /\ op[u].phase = "idle" /\ (Grant(u) \/ Admit(u))
  BY StartsByDecision, EmptyTypes DEF CoverInv, TypeInv
<1>2. up = "up"
  BY <1>1 DEF Grant, GrantStarts, MayStart, Admit
<1>3. lapsed <= clockMark
  BY <1>1, <1>2 DEF StartInv, FloorInv
<1>4. /\ floor \in Time /\ floor >= clockMark /\ lapsed \in Time /\ clockMark \in Time
      /\ grants[u] \in Records /\ grants[u].exp \in Time
      /\ grants[u].targets \subseteq Targets
  BY <1>1, FileTypes DEF TypeOK, Records
<1>5. lapsed <= floor
  BY <1>3, <1>4, BoundTypes
<1>6. ASSUME NEW e \in Time, floor < e PROVE e > lapsed
  BY <1>4, <1>5, <1>6, BoundTypes
<1>7. CASE Admit(u)
  <2>1. /\ floor < grants[u].exp
        /\ Call(u, "admit", grants[u], NoRow, grants[u].targets \cap conf.targets)
    BY <1>1, <1>7 DEF Admit
  <2>2. op'[u].rec = grants[u]
    BY <1>1, <2>1 DEF Call, TypeOK
  <2>3. QED
    BY <1>4, <1>6, <2>1, <2>2
<1>8. CASE Grant(u)
  <2>1. PICK t \in Time : \/ GrantTooLate(u, Offer(t))
                          \/ GrantMigrates(u, Offer(t))
                          \/ GrantWrites(u, Offer(t))
    BY <1>8 DEF Grant, GrantStarts
  <2> DEFINE r == Offer(t)
  <2>2. TypeOK /\ r \in Records /\ r.exp = t /\ grants[u] \in Records
    BY <1>1, <1>4, FileTypes
  <2> HIDE DEF r
  <2>3. CASE GrantTooLate(u, r)
    BY <1>1, <2>3 DEF GrantTooLate
  <2>4. CASE GrantWrites(u, r)
    <3>1. WriteAndApply(u, r, grants[u]) /\ floor < r.exp
      BY <2>4 DEF GrantWrites
    <3>2. Written(u, r, grants[u]) \/ Unwritten(u)
      BY <2>2, <3>1, WriteEffect
    <3>3. op'[u].rec.exp = r.exp
      BY <3>2 DEF Written, Unwritten
    <3>4. QED
      BY <1>6, <2>2, <3>1, <3>3
  <2>5. CASE GrantMigrates(u, r)
    <3>1. /\ floor < r.exp
          /\ \/ Call(u, "migrate", r, grants[u], orphaned(grants[u], r))
             \/ op' = op
      BY <2>5 DEF GrantMigrates
    <3>2. op'[u].rec = r
      BY <1>1, <3>1 DEF Call, TypeOK
    <3>3. QED
      BY <1>6, <2>2, <3>1, <3>2
  <2>6. QED
    BY <2>1, <2>3, <2>4, <2>5 DEF r
<1>9. QED
  BY <1>1, <1>7, <1>8

------------------------------------------------------------------------------
(* An abandoned renewal extends nobody. *)

LEMMA PromiseInit == Init => PromiseInv
<1> SUFFICES ASSUME Init PROVE PromiseInv
  OBVIOUS
<1>1. TypeOK
  BY TypeInit DEF TypeInv
<1>2. ASSUME NEW u \in Users PROVE Standing(u) = grants[u]
  <2>1. op[u].phase = "idle"
    BY EmptyTypes DEF Init
  <2>2. QED
    BY <2>1 DEF Standing
<1>3. ASSUME NEW u \in Users, NEW t \in grants[u].targets
      PROVE  grants[u].exp <= promised[u][t]
  <2>1. grants[u].exp \in Time /\ legacy.rows[u].exp \in Time /\ t \in Targets
    BY <1>1, FileTypes DEF TypeOK, Records
  <2>2. promised[u][t] = Larger(grants[u].exp, legacy.rows[u].exp)
    BY <2>1 DEF Init
  <2>3. QED
    BY <2>1, <2>2, BoundTypes
<1>4. QED
  BY <1>2, <1>3 DEF PromiseInv

(* What stands for a member stays promised when the promises only grow. *)
LEMMA StandingKept ==
  ASSUME TypeOK, TypeOK', PromiseInv, NEW u \in Users,
         Standing(u)'.targets \subseteq Standing(u).targets,
         Standing(u)'.targets # {} => Standing(u)'.exp = Standing(u).exp,
         \A t \in Targets : promised'[u][t] >= promised[u][t]
  PROVE  \A t \in Standing(u)'.targets : Standing(u)'.exp <= promised'[u][t]
<1>1. SUFFICES ASSUME NEW t \in Standing(u)'.targets
               PROVE  Standing(u)'.exp <= promised'[u][t]
  OBVIOUS
<1>2. Standing(u) \in Records
  BY DEF TypeOK, Standing
<1>3. t \in Targets /\ Standing(u).exp \in Int
  BY <1>2, BoundTypes DEF Records
<1>4. promised[u][t] \in Int /\ promised'[u][t] \in Int
  BY <1>3, BoundTypes DEF TypeOK
<1>5. Standing(u).exp <= promised[u][t] /\ Standing(u)'.exp = Standing(u).exp
      /\ promised'[u][t] >= promised[u][t]
  BY <1>1, <1>3 DEF PromiseInv
<1>6. QED
  BY <1>3, <1>4, <1>5

LEMMA PromiseGrant ==
  ASSUME CoverInv, PromiseInv, NEW u \in Users, Grant(u)
  PROVE  PromiseInv'
<1>1. TypeOK /\ TypeOK' /\ op[u].phase = "idle" /\ GrantStarts(u)
  BY CoverGrant, EmptyTypes DEF CoverInv, TypeInv, Grant, GrantStarts, MayStart
<1>2. \A v \in Users : v # u => /\ grants'[v] = grants[v] /\ op'[v] = op[v]
                                /\ promised'[v] = promised[v]
  BY <1>1, GrantEffect
<1>3. ASSUME NEW v \in Users, v # u
      PROVE  \A t \in Standing(v)'.targets : Standing(v)'.exp <= promised'[v][t]
  BY <1>2, <1>3 DEF PromiseInv, Standing
<1>4. SUFFICES \A t \in Standing(u)'.targets : Standing(u)'.exp <= promised'[u][t]
  BY <1>3 DEF PromiseInv
<1>5. /\ grants[u] \in Records /\ grants[u].targets \subseteq Targets
      /\ \A t \in Targets : promised[u][t] \in Int /\ promised[u][t] >= promised[u][t]
  BY <1>1, BoundTypes DEF TypeOK, Records
<1>6. PICK t \in Time : \/ GrantTooLate(u, Offer(t))
                        \/ GrantMigrates(u, Offer(t))
                        \/ GrantWrites(u, Offer(t))
  BY <1>1 DEF GrantStarts
<1> DEFINE r == Offer(t)
<1>7. TypeOK /\ r \in Records /\ grants[u] \in Records
      /\ r.targets \in SUBSET Targets /\ r.exp \in Time
  BY <1>1, <1>5, FileTypes DEF Records
<1> HIDE DEF r
<1>8. CASE UNCHANGED <<grants, op, promised>>
  BY <1>8 DEF PromiseInv, Standing
<1>9. CASE GrantTooLate(u, r)
  BY <1>8, <1>9 DEF GrantTooLate
<1>10. CASE GrantWrites(u, r)
  <2>1. WriteAndApply(u, r, grants[u])
    BY <1>10 DEF GrantWrites
  <2>2. op'[u].phase # "migrate"
    <3>1. Written(u, r, grants[u]) \/ Unwritten(u)
      BY <1>7, <2>1, WriteEffect
    <3>2. QED
      BY <3>1 DEF Written, Unwritten
  <2>3. \A x \in grants'[u].targets : promised'[u][x] >= grants'[u].exp
    BY <1>7, <2>1, WriteEffect
  <2>4. ASSUME NEW x \in grants'[u].targets PROVE grants'[u].exp <= promised'[u][x]
    <3>1. x \in Targets /\ grants'[u].exp \in Int
      BY <1>1, <2>4, BoundTypes DEF TypeOK, Records
    <3>2. promised'[u][x] \in Int
      BY <1>1, <3>1, BoundTypes DEF TypeOK
    <3>3. QED
      BY <2>3, <3>1, <3>2
  <2>5. QED
    BY <2>2, <2>4 DEF Standing
<1>11. CASE GrantMigrates(u, r)
  <2> DEFINE orphan == orphaned(grants[u], r)
  <2>1. orphan \in SUBSET Targets /\ "migrate" \in Phases
    BY <1>5 DEF orphaned, Phases
  <2> HIDE DEF orphan
  <2>2. CASE Promise(u, r.targets, r.exp) /\ Call(u, "migrate", r, grants[u], orphan)
    <3>1. op'[u].phase = "migrate" /\ op'[u].prev = grants[u]
      BY <1>7, <2>1, <2>2, CallEffect
    <3>2. \A x \in Targets : promised'[u][x] >= promised[u][x]
      BY <1>7, <2>2, PromiseEffect
    <3>3. Standing(u)' = grants[u] /\ Standing(u) = grants[u]
      BY <1>1, <3>1 DEF Standing
    <3>4. QED
      BY <1>1, <3>2, <3>3, StandingKept
  <2>3. CASE PutFails /\ UNCHANGED <<op, promised>>
    BY <1>8, <2>3 DEF PutFails
  <2>4. QED
    BY <1>11, <2>2, <2>3 DEF GrantMigrates, orphan
<1>12. QED
  BY <1>6, <1>9, <1>10, <1>11 DEF r

LEMMA PromiseResume ==
  ASSUME CoverInv, PromiseInv, NEW u \in Users, Resume(u)
  PROVE  PromiseInv'
<1>1. TypeOK /\ TypeOK' /\ MemberInv(u)
  BY CoverResume DEF CoverInv, TypeInv
<1>2. \A v \in Users : v # u => /\ grants'[v] = grants[v] /\ op'[v] = op[v]
                                /\ promised'[v] = promised[v]
  BY <1>1, ResumeEffect
<1>3. ASSUME NEW v \in Users, v # u
      PROVE  \A t \in Standing(v)'.targets : Standing(v)'.exp <= promised'[v][t]
  BY <1>2, <1>3 DEF PromiseInv, Standing
<1>4. SUFFICES \A t \in Standing(u)'.targets : Standing(u)'.exp <= promised'[u][t]
  BY <1>3 DEF PromiseInv
<1>5. /\ grants[u] \in Records /\ grants[u].targets \in SUBSET Targets
      /\ grants[u].exp \in Time /\ op[u].rec \in Records /\ op[u].prev \in Records
  BY <1>1 DEF TypeOK, Records
<1>6. ASSUME op'[u].phase # "migrate",
             \A x \in grants'[u].targets : promised'[u][x] >= grants'[u].exp
      PROVE  \A x \in grants'[u].targets : grants'[u].exp <= promised'[u][x]
  <2>1. SUFFICES ASSUME NEW x \in grants'[u].targets PROVE grants'[u].exp <= promised'[u][x]
    OBVIOUS
  <2>2. x \in Targets /\ grants'[u].exp \in Int
    BY <1>1, <2>1, BoundTypes DEF TypeOK, Records
  <2>3. promised'[u][x] \in Int
    BY <1>1, <2>2, BoundTypes DEF TypeOK
  <2>4. QED
    BY <1>6, <2>2, <2>3
<1>7. ASSUME Settle(u) PROVE op'[u].phase # "migrate"
  BY <1>1, <1>7, SettleEffect
<1>8. CASE Migrated(u)
  <2> DEFINE r == op[u].rec
             p == op[u].prev
  <2>1. TypeOK /\ r \in Records /\ p \in Records /\ WriteAndApply(u, r, p)
    BY <1>1, <1>5, <1>8 DEF Migrated
  <2> HIDE DEF r, p
  <2>2. \A x \in grants'[u].targets : promised'[u][x] >= grants'[u].exp
    BY <2>1, WriteEffect
  <2>3. Written(u, r, p) \/ Unwritten(u)
    BY <2>1, WriteEffect
  <2>4. op'[u].phase # "migrate"
    BY <2>3 DEF Written, Unwritten
  <2>5. QED
    BY <1>6, <2>2, <2>4 DEF Standing
<1>9. CASE MigrateFails(u)
  <2>1. op[u].phase = "migrate" /\ Settle(u) /\ op'[u].phase # "migrate"
    BY <1>7, <1>9 DEF MigrateFails
  <2>2. CASE Put(u, op[u].prev) /\ UNCHANGED promised
    <3>1. grants'[u].targets = op[u].prev.targets /\ grants'[u].exp = op[u].prev.exp
      BY <1>1, <1>5, <2>2, PutEffect
    <3>2. QED
      BY <2>1, <2>2, <3>1 DEF PromiseInv, Standing
  <2>3. CASE PutFails /\ Stretch(u)
    <3>1. \A x \in grants[u].targets : promised'[u][x] >= grants[u].exp
      BY <1>1, <1>5, <2>3, PromiseEffect DEF Stretch
    <3>2. grants' = grants
      BY <2>3 DEF PutFails
    <3>3. QED
      BY <1>6, <2>1, <3>1, <3>2 DEF Standing
  <2>4. CASE ~adapter.covers /\ UNCHANGED <<grants, promised>>
    <3>1. grants[u] = op[u].prev
      BY <1>1, <2>1, <2>4 DEF MemberInv, MigrateInv
    <3>2. QED
      BY <2>1, <2>4, <3>1 DEF PromiseInv, Standing
  <2>5. QED
    BY <1>9, <2>2, <2>3, <2>4 DEF MigrateFails
<1>10. CASE /\ Settle(u) /\ op[u].phase # "migrate"
            /\ UNCHANGED <<grants, promised>> \/ Del(u, op[u].rec.rev)
  <2>1. \/ grants'[u] = NoRow
        \/ grants'[u] = grants[u] /\ promised'[u] = promised[u]
    BY <1>1, <1>10, DelEffect
  <2>2. QED
    BY <1>7, <1>10, <2>1, EmptyTypes DEF PromiseInv, Standing
<1>11. CASE ApplyFailsUndone(u)
  <2>1. /\ op[u].phase = "apply" /\ UNCHANGED <<grants, promised>>
        /\ Call(u, "undo", op[u].rec, NoRow, op[u].rec.targets)
    BY <1>11 DEF ApplyFailsUndone
  <2>2. op'[u].phase = "undo"
    BY <1>1, <2>1 DEF Call, TypeOK
  <2>3. QED
    BY <2>1, <2>2 DEF PromiseInv, Standing
<1>12. CASE TakeBackFails(u)
  BY <1>10, <1>12 DEF TakeBackFails
<1>13. QED
  BY <1>8, <1>9, <1>10, <1>11, <1>12
     DEF Resume, Applied, ApplyRefused, RefusalTaken, ApplyFailsKept, TakenBack, AdmitSettles

LEMMA PromiseNext == CoverInv /\ PromiseInv /\ [Next]_vars => PromiseInv'
<1> SUFFICES ASSUME CoverInv, PromiseInv, [Next]_vars PROVE PromiseInv'
  OBVIOUS
<1>1. TypeOK /\ TypeOK' /\ StartInv
  BY CoverNext DEF CoverInv, TypeInv
<1>2. CASE UNCHANGED <<grants, op, promised>>
  BY <1>2 DEF PromiseInv, Standing
<1>3. ASSUME UNCHANGED promised, UNCHANGED grants,
             \A u \in Users : /\ op'[u].prev = op[u].prev
                              /\ op'[u].phase = "migrate" <=> op[u].phase = "migrate"
      PROVE  PromiseInv'
  BY <1>3 DEF PromiseInv, Standing
<1>4. ASSUME NEW u \in Users, SweepVisits(u) \/ Admit(u) \/ Asked(u)
      PROVE  PromiseInv'
  <2>1. op[u].phase = "idle" \/ op' = op
    BY <1>4, EmptyTypes DEF SweepVisits, Admit, Asked
  <2>2. CASE op' = op
    BY <1>2, <1>4, <2>2 DEF SweepVisits, Admit, Asked
  <2>3. ASSUME NEW ph \in {"sweep", "admit"}, NEW ts, op[u].phase = "idle",
               Call(u, ph, grants[u], NoRow, ts)
        PROVE  PromiseInv'
    <3>1. op'[u].phase = ph /\ \A v \in Users : v # u => op'[v] = op[v]
      BY <1>1, <2>3 DEF Call, TypeOK
    <3>2. UNCHANGED <<grants, promised>>
      BY <1>4 DEF SweepVisits, Admit, Asked
    <3>3. QED
      BY <2>3, <3>1, <3>2 DEF PromiseInv, Standing
  <2>4. QED
    <3>1. CASE SweepVisits(u)
      BY <2>1, <2>2, <2>3, <3>1 DEF SweepVisits, SweepSkips, SweepTakes
    <3>2. CASE Admit(u)
      BY <2>1, <2>2, <2>3, <3>2 DEF Admit
    <3>3. CASE Asked(u)
      BY <2>2, <3>3 DEF Asked
    <3>4. QED
      BY <1>4, <3>1, <3>2, <3>3
<1>5. ASSUME NEW u \in Users, Platform(u)
      PROVE  PromiseInv'
  <2>1. PICK t \in Targets, learned \in BOOLEAN : Gives(u, t, learned) \/ Takes(u, t, learned)
    BY <1>5 DEF Platform
  <2>2. UNCHANGED <<grants, promised>>
    BY <2>1 DEF Gives, Takes, elsewhere
  <2>3. op \in [Users -> Ops]
    BY <1>1 DEF TypeOK, Ops
  <2>4. \A v \in Users : op'[v].prev = op[v].prev /\ op'[v].phase = op[v].phase
    <3>1. CASE Gives(u, t, learned)
      BY <2>3, <3>1 DEF Gives, Ops
    <3>2. CASE Takes(u, t, learned)
      BY <2>3, <3>2 DEF Takes, Ops
    <3>3. QED
      BY <2>1, <3>1, <3>2
  <2>5. QED
    BY <1>3, <2>2, <2>4
<1>6. ASSUME NEW u \in Users, NEW t \in Time, OtherProcessGrants(u, t)
      PROVE  PromiseInv'
  <2>1. /\ TypeOK /\ Put(u, Offer(t)) /\ Promise(u, conf.targets, t) /\ op' = op
        /\ op[u].phase # "migrate"
    BY <1>1, <1>6 DEF OtherProcessGrants
  <2>2. Offer(t) \in Records /\ Offer(t).exp = t /\ Offer(t).targets = conf.targets
        /\ conf.targets \in SUBSET Targets
    BY <1>1, FileTypes
  <2>3. /\ grants'[u].targets = conf.targets /\ grants'[u].exp = t
        /\ \A v \in Users : v # u => grants'[v] = grants[v]
    BY <2>1, <2>2, PutEffect
  <2>4. /\ \A v \in Users : v # u => promised'[v] = promised[v]
        /\ \A x \in conf.targets : promised'[u][x] >= t
    BY <2>1, <2>2, PromiseEffect
  <2>5. \A x \in conf.targets : t <= promised'[u][x]
    <3>1. \A x \in conf.targets : promised'[u][x] \in Int
      BY <1>1, <2>2, BoundTypes DEF TypeOK
    <3>2. QED
      BY <2>4, <3>1, BoundTypes
  <2>6. QED
    BY <2>1, <2>3, <2>4, <2>5 DEF PromiseInv, Standing
<1>7. CASE Import
  <2>1. CASE NoPending
    BY <1>2, <1>7, <2>1 DEF Import
  <2>2. CASE ~NoPending
    <3>1. /\ revSeq < MaxRev /\ grants' = Adopted(legacy.rows) /\ op' = op
          /\ up = "import"
          /\ promised' = [u \in Users |-> [t \in Targets |-> legacy.rows[u].exp]]
      BY <1>7, <2>2 DEF Import
    <3>2. \A u \in Users : op[u].phase # "migrate"
      BY <1>1, <3>1 DEF StartInv
    <3>3. ASSUME NEW u \in Users, NEW t \in grants'[u].targets
          PROVE  grants'[u].exp <= promised'[u][t]
      <4>1. TypeInv
        BY DEF CoverInv
      <4>2. grants'[u].exp = legacy.rows[u].exp
        BY <3>1, <3>3, <4>1, AdoptedEffect
      <4>3. t \in Targets /\ grants'[u].exp \in Int
        BY <1>1, BoundTypes DEF TypeOK, Records
      <4>4. QED
        BY <3>1, <4>2, <4>3
    <3>4. QED
      BY <3>1, <3>2, <3>3 DEF PromiseInv, Standing
  <2>3. QED
    BY <2>1, <2>2
<1>8. CASE Crash
  <2>1. /\ grants' = grants
        /\ \A u \in Users : op'[u].phase = "idle"
        /\ promised' = [u \in Users |-> [t \in Targets |->
             IF op[u].phase = "migrate" /\ t \in grants[u].targets
               THEN Larger(grants[u].exp, promised[u][t]) ELSE promised[u][t]]]
    BY <1>8, EmptyTypes DEF Crash, db
  <2>2. ASSUME NEW u \in Users, NEW t \in grants[u].targets
        PROVE  grants[u].exp <= promised'[u][t]
    <3>1. t \in Targets /\ grants[u].exp \in Time
      BY <1>1 DEF TypeOK, Records
    <3>2. promised[u][t] \in Time
      BY <1>1, <3>1 DEF TypeOK
    <3>3. CASE op[u].phase = "migrate"
      <4>1. promised'[u][t] = Larger(grants[u].exp, promised[u][t])
        BY <2>1, <3>1, <3>3
      <4>2. QED
        BY <3>1, <3>2, <4>1, BoundTypes
    <3>4. CASE op[u].phase # "migrate"
      BY <2>1, <3>1, <3>4 DEF PromiseInv, Standing
    <3>5. QED
      BY <3>3, <3>4
  <2>3. QED
    BY <2>1, <2>2 DEF PromiseInv, Standing
<1>9. ASSUME NEW lost \in [Users -> SUBSET Targets], Retire(lost)
      PROVE  PromiseInv'
  <2>1. /\ \A u \in Users : /\ grants'[u].targets = grants[u].targets \ lost[u]
                            /\ grants'[u].targets # {} => grants'[u].exp = grants[u].exp
        /\ UNCHANGED <<op, promised>>
    BY <1>1, <1>9, RetireEffect DEF Retire, RetireRows, history
  <2>2. \A u \in Users : op[u].phase # "migrate"
    BY <1>1, <1>9 DEF StartInv, Retire, RetireRows
  <2>3. QED
    BY <2>1, <2>2 DEF PromiseInv, Standing
<1>10. ASSUME NEW u \in Users, Grant(u) \/ Resume(u) PROVE PromiseInv'
  BY <1>10, PromiseGrant, PromiseResume
<1>11. CASE \/ Outside \/ Sweep \/ Rename
            \/ \E c \in adapter.configs : Open(c)
            \/ \E adopt, reset \in BOOLEAN : Bind(adopt, reset)
            \/ \E t \in Time : SetClock(t)
            \/ UNCHANGED vars
  BY <1>2, <1>11 DEF Outside, GivenOutside, TakenOutside, elsewhere, Sweep, Rename, db,
                     history, Open, Bind, SetClock, vars
<1>12. QED
  BY <1>4, <1>5, <1>6, <1>7, <1>8, <1>9, <1>10, <1>11 DEF Next, Boot

------------------------------------------------------------------------------
(* The results. *)

(* Every variable keeps its type, whatever is interrupted, and in a process
   that works on the ledger no row carries a revision ahead of the counter,
   so the revision of the next write is fresh (#seedRevSeq, #put). *)
THEOREM TypesHold == Spec => []TypeOK
<1>1. TypeInv /\ [Next]_vars => TypeInv'
  BY TypeNext
<1>2. TypeInv => TypeOK
  BY DEF TypeInv
<1>3. QED
  BY TypeInit, <1>1, <1>2, PTL DEF Spec

LEMMA CoverHolds == Spec => []CoverInv
<1>1. CoverInv /\ [Next]_vars => CoverInv'
  BY CoverNext
<1>2. QED
  BY CoverInit, <1>1, PTL DEF Spec

(* THE INVARIANT of grant_ledger.js:652: the rows, with those of a JSON file
   not yet adopted, name every target that the ledger has made live. *)
THEOREM AccessAlwaysCovered == Spec => []AccessIsCovered
<1>1. CoverInv => AccessIsCovered
  BY DEF CoverInv, MemberInv, AccessIsCovered
<1>2. QED
  BY CoverHolds, <1>1, PTL

(* #observeClock: what one decision called lapsed, no later grant or admission
   accepts, through clock steps, restarts and the import. *)
THEOREM LapsedNeverAccepted == Spec => LapsedStaysLapsed
<1>1. CoverInv /\ FloorInv /\ [Next]_vars => FloorInv'
  BY FloorNext
<1>2. Spec => []FloorInv
  BY FloorInit, CoverHolds, <1>1, PTL DEF Spec
<1>3. CoverInv /\ FloorInv /\ [Next]_vars =>
        [\A u \in Users :
           op[u] = Idle /\ op'[u].phase \in {"migrate", "apply", "admit"}
             => op'[u].rec.exp > lapsed]_vars
  BY AcceptedIsLive
<1>4. QED
  BY CoverHolds, <1>2, <1>3, PTL DEF Spec, LapsedStaysLapsed

(* The rollback of a renewal (grant_ledger.js:682): no row at rest carries,
   for a target that is live, a deadline later than one it was promised. *)
THEOREM NobodyExtended == Spec => []NotExtended
<1>1. CoverInv /\ PromiseInv /\ [Next]_vars => PromiseInv'
  BY PromiseNext
<1>2. PromiseInv => NotExtended
  BY EmptyTypes DEF PromiseInv, Standing, NotExtended
<1>3. QED
  BY PromiseInit, CoverHolds, <1>1, <1>2, PTL DEF Spec

(***************************************************************************)
(* PART 2.  The bot.                                                       *)
(***************************************************************************)

------------------------------------------------------------------------------
(* The inductive invariants. *)

PassType == [on : BOOLEAN, ready : BOOLEAN, failed : BOOLEAN,
             chans : SUBSET Targets, chan : Targets \cup {None},
             snap : SUBSET Users, who : Users \cup {None}, edit : BOOLEAN]

RetiringType == [on : BOOLEAN, place : Places \cup {None}, sure : BOOLEAN,
                 ids : SUBSET Targets, todo : SUBSET Targets,
                 chan : Targets \cup {None}, holders : SUBSET Users,
                 kept : SUBSET (Users \X Targets)]

BotType ==
  /\ denied \in [Users -> SUBSET Targets] /\ gone \subseteq Targets
  /\ call \in [Users -> [at : Targets \cup {None}, bad : SUBSET Targets,
                         refused : SUBSET Targets]]
  /\ reconciled \in BOOLEAN
  /\ pass \in [Passes -> PassType] /\ retiring \in RetiringType

(* While interactions are open, or a pass is about to open them, no row names
   a role; and neither does what a migration would put back. *)
GateInv ==
  /\ reconciled \/ (\E p \in Passes : pass[p].on) => up = "up" /\ NoRoleRows
  /\ \A u \in Users : op[u].phase = "migrate" =>
       (op[u].rec.targets \cup op[u].prev.targets) \cap RoleTargets = {}

(* A pass works on a channel while it has members to look at. *)
PassFits(q) ==
  /\ q.who # None \/ q.snap # {} => q.on /\ q.chan \in Targets
  /\ q.edit => q.who # None

PassInv == \A p \in Passes : PassFits(pass[p])

(* Something that was sent shows: in what is settled, in a channel given up on
   for another reason than a denial, or in one that is still to be tried. *)
Shows(u) ==
  op[u].phase = "apply" =>
    /\ op[u].todo \subseteq op[u].rec.targets
    /\ op[u].sent => mutated(u) \/ \E t \in op[u].todo \ call[u].bad : t \notin denied[u]

CallFits(u) ==
  /\ call[u].refused \subseteq call[u].bad
  /\ call[u].at # None => call[u].at \notin call[u].bad

CallInv(u) == CallFits(u) /\ Shows(u)

(* A deleted channel is nobody's. *)
GoneInv == \A u \in Users : gone \cap live[u] = {}

(* A target of the command that a member still has, by the ledger, is yet to
   be visited, about to be cleared, on record as kept, or of another guild. *)
RetireInv ==
  /\ scope # NoScope => adapter.scoped
  /\ retiring.on =>
       /\ up = "down" /\ scope # NoScope
       /\ retiring.holders # {} => retiring.chan \in Targets
       /\ retiring.todo \subseteq retiring.ids
       /\ Ours(retiring.place) =>
            \A u \in Users : \A t \in (retiring.ids \ retiring.todo) \cap (live[u] \ stray[u]) :
              <<u, t>> \in retiring.kept \/ (t = retiring.chan /\ u \in retiring.holders)
  /\ ~retiring.on => retiring = NoRetiring

BotInv == BotType /\ GateInv /\ PassInv /\ GoneInv /\ RetireInv /\ \A u \in Users : CallInv(u)

LEMMA BotFacts ==
  /\ None \notin Targets /\ None \notin Users
  /\ \A c \in Configs : c.targets \cap RoleTargets = {}
  /\ NoCall \in [at : Targets \cup {None}, bad : SUBSET Targets, refused : SUBSET Targets]
  /\ NoCall.at = None /\ NoCall.bad = {} /\ NoCall.refused = {}
  /\ NoPass \in PassType /\ ~NoPass.on /\ NoPass.who = None /\ NoPass.snap = {}
  /\ ~NoPass.edit
  /\ NoRetiring \in RetiringType /\ ~NoRetiring.on
  BY BotAssumption DEF NoCall, NoPass, NoRetiring, PassType, RetiringType

LEMMA FirstIsOne == \A S : S # {} => FirstOf(S) \in S
  BY DEF FirstOf

(* The bot starts like any ledger. *)
LEMMA BotStarts == BotInit => BotInv
<1> SUFFICES ASSUME BotInit PROVE BotInv
  OBVIOUS
<1>1. BotType
  BY BotFacts DEF BotInit, BotType
<1>2. GateInv
  BY BotFacts, EmptyTypes DEF BotInit, Init, GateInv
<1>3. PassInv /\ GoneInv
  BY BotFacts DEF BotInit, PassInv, PassFits, GoneInv
<1>4. RetireInv
  BY BotFacts DEF BotInit, Init, RetireInv
<1>5. \A u \in Users : CallInv(u)
  BY BotFacts, EmptyTypes DEF BotInit, Init, CallInv, CallFits, Shows
<1>6. QED
  BY <1>1, <1>2, <1>3, <1>4, <1>5 DEF BotInv

------------------------------------------------------------------------------
(* Every step of the bot is one of the ledger, or none. *)

(* A refusal takes the row only when nothing was sent. *)
LEMMA ReturnResumes ==
  ASSUME TypeOK, BotInv, NEW u \in Users, Return(u)
  PROVE  Resume(u)
<1>1. op[u].todo \subseteq call[u].bad
  BY DEF Return, CallOver
<1>2. op[u].sent \in BOOLEAN
  BY DEF TypeOK
<1>3. ~mutated(u) /\ RefusalTaken(u) => ~op[u].sent
  BY <1>1, <1>2 DEF BotInv, CallInv, CallFits, Shows, RefusalTaken
<1>4. QED
  BY <1>3 DEF Return, Resume, ApplyRefused

LEMMA MemberStepRefines ==
  ASSUME CoverInv, BotInv, NEW u \in Users,
         Submit(u) \/ Repair(u) \/ Visit(u) \/ Return(u)
  PROVE  Next
<1>1. CASE Submit(u)
  BY <1>1 DEF Submit, BotInv, GateInv, Grant, Next
<1>2. CASE Repair(u)
  BY <1>2 DEF Repair, Next
<1>3. CASE Visit(u)
  BY <1>3 DEF Visit, Next
<1>4. CASE Return(u)
  BY <1>4, ReturnResumes DEF CoverInv, TypeInv, Next
<1>5. QED
  BY <1>1, <1>2, <1>3, <1>4

LEMMA CallStepRefines ==
  ASSUME NEW u \in Users, CallStep(u)
  PROVE  Next \/ UNCHANGED vars
<1> PICK t \in Targets :
    \/ GrantReads(u, t) \/ GrantRefuses(u, t) \/ GrantCannotRead(u, t)
    \/ RepairSkips(u, t) \/ GrantEdits(u, t) \/ GrantEditFails(u, t)
    \/ RevokeReads(u, t) \/ RevokeSkips(u, t) \/ RevokeCannotRead(u, t)
    \/ RevokeEdits(u, t) \/ RevokeEditFails(u, t)
  BY DEF CallStep
<1>1. CASE GrantReads(u, t) \/ GrantRefuses(u, t) \/ GrantCannotRead(u, t)
           \/ RevokeReads(u, t) \/ RevokeCannotRead(u, t)
  BY <1>1 DEF GrantReads, GrantRefuses, GrantCannotRead, RevokeReads, RevokeCannotRead
<1>2. CASE RepairSkips(u, t) \/ GrantEdits(u, t) \/ GrantEditFails(u, t)
  <2>1. Gives(u, t, TRUE) \/ Gives(u, t, FALSE) \/ UNCHANGED vars
    BY <1>2 DEF RepairSkips, GrantEdits, GrantEditFails
  <2>2. QED
    BY <2>1 DEF Platform, Next
<1>3. CASE RevokeSkips(u, t) \/ RevokeEdits(u, t) \/ RevokeEditFails(u, t)
  <2>1. Takes(u, t, TRUE) \/ Takes(u, t, FALSE) \/ UNCHANGED vars
    BY <1>3 DEF RevokeSkips, RevokeEdits, RevokeEditFails
  <2>2. QED
    BY <2>1 DEF Platform, Next
<1>4. QED
  BY <1>1, <1>2, <1>3

LEMMA TakenIsOutside ==
  ASSUME NEW us \in SUBSET Users, NEW t \in Targets, TakenOutside(us, t)
  PROVE  Next
  BY DEF Outside, Next

LEMMA PassStepRefines ==
  ASSUME BotInv, NEW p \in Passes, PassStep(p)
  PROVE  Next \/ UNCHANGED vars
<1>1. CASE PassStarts(p) \/ PassReads(p) \/ PassEntersChannel(p) \/ PassThrows(p)
           \/ PassEnds(p)
  BY <1>1 DEF PassStarts, PassReads, PassEntersChannel, PassThrows, PassEnds
<1>2. CASE PassEdits(p) \/ PassEditFails(p)
  <2>1. pass[p].edit
    BY <1>2 DEF PassEdits, PassEditFails
  <2>2. pass[p].who \in Users /\ pass[p].chan \in Targets
    BY <2>1 DEF BotInv, BotType, PassInv, PassFits, PassType
  <2>3. TakenOutside({pass[p].who}, pass[p].chan) \/ UNCHANGED vars
    BY <1>2 DEF PassEdits, PassEditFails
  <2>4. CASE TakenOutside({pass[p].who}, pass[p].chan)
    BY <2>2, <2>4, TakenIsOutside
  <2>5. QED
    BY <2>3, <2>4
<1>3. CASE \E u \in Users : PassJudges(p, u)
  BY <1>3 DEF PassJudges, Next
<1>4. QED
  BY <1>1, <1>2, <1>3 DEF PassStep

LEMMA OperatorRefines ==
  ASSUME Operators
  PROVE  Next \/ UNCHANGED vars
<1> PICK t \in Targets :
    Deletes(t) \/ \E u \in Users : Denies(u, t) \/ RemovesDenial(u, t) \/ Strays(u, t)
  BY DEF Operators
<1>1. CASE Deletes(t)
  <2>1. TakenOutside(Users, t)
    BY <1>1 DEF Deletes
  <2>2. QED
    BY <2>1, TakenIsOutside
<1>2. CASE \E u \in Users : Denies(u, t)
  <2>1. PICK u \in Users : Denies(u, t)
    BY <1>2
  <2>2. UNCHANGED vars \/ TakenOutside({u}, t)
    BY <2>1 DEF Denies
  <2>3. QED
    BY <2>2, TakenIsOutside
<1>3. CASE \E u \in Users : RemovesDenial(u, t)
  BY <1>3 DEF RemovesDenial
<1>4. CASE \E u \in Users : Strays(u, t)
  BY <1>4 DEF Strays, Outside, Next
<1>5. QED
  BY <1>1, <1>2, <1>3, <1>4

(* What the command drops from the rows, nobody has by the ledger. *)
LEMMA RetiresNothingLive ==
  ASSUME CoverInv, BotInv, DcRetires
  PROVE  Next \/ UNCHANGED vars
<1> DEFINE went == [u \in Users |-> retireTarget(u)]
<1>1. went \in [Users -> SUBSET Targets]
  BY DEF retireTarget, BotInv, BotType, RetiringType
<1>2. ASSUME NEW u \in Users PROVE went[u] \cap live[u] \subseteq stray[u]
  <2>1. live[u] \subseteq Targets
    BY DEF CoverInv, TypeInv, TypeOK
  <2>2. QED
    BY <2>1 DEF DcRetires, retireTarget, BotInv, RetireInv
<1>3. RetireRows(went) \/ UNCHANGED vars
  BY DEF DcRetires
<1> HIDE DEF went
<1>4. RetireRows(went) => Retire(went)
  BY <1>2 DEF Retire
<1>5. QED
  BY <1>1, <1>3, <1>4 DEF Next

LEMMA CommandRefines ==
  ASSUME CoverInv, BotInv, Decommission
  PROVE  Next \/ UNCHANGED vars
<1>1. CASE DcRetires
  BY <1>1, RetiresNothingLive
<1>2. CASE \E u \in Users : DcClears(u) \/ DcClearFails(u)
  <2>1. PICK u \in Users : DcClears(u) \/ DcClearFails(u)
    BY <1>2
  <2>2. u \in retiring.holders
    BY <2>1 DEF DcClears, DcClearFails
  <2>3. retiring.on
    BY <2>2, BotFacts DEF BotInv, RetireInv, NoRetiring
  <2>4. retiring.chan \in Targets
    BY <2>2, <2>3 DEF BotInv, RetireInv
  <2>5. UNCHANGED vars \/ TakenOutside({u}, retiring.chan)
    BY <2>1 DEF DcClears, DcClearFails
  <2>6. QED
    BY <2>4, <2>5, TakenIsOutside
<1>3. CASE DcEnds \/ (\E t \in Targets : DcReads(t) \/ DcSkips(t) \/ DcAsserted(t))
  BY <1>3 DEF DcEnds, DcReads, DcSkips, DcAsserted
<1>4. CASE \E place \in Places, ids \in SUBSET Targets, sure \in BOOLEAN :
             DcStarts(place, ids, sure)
  BY <1>4 DEF DcStarts
<1>5. QED
  BY <1>1, <1>2, <1>3, <1>4 DEF Decommission

LEMMA BotStepRefines ==
  CoverInv /\ BotInv /\ [BotNext]_allVars => [Next]_vars
<1> SUFFICES ASSUME CoverInv, BotInv, [BotNext]_allVars PROVE [Next]_vars
  OBVIOUS
<1>1. ASSUME NEW u \in Users,
             Submit(u) \/ Repair(u) \/ Visit(u) \/ Return(u) \/ CallStep(u)
      PROVE  Next \/ UNCHANGED vars
  BY <1>1, MemberStepRefines, CallStepRefines
<1>2. CASE SweepDue \/ BotBoots \/ BotCrashes
           \/ (\E c \in adapter.configs : BotOpens(c))
           \/ (\E t \in Time : SetClock(t) /\ UNCHANGED botVars)
  BY <1>2 DEF SweepDue, BotBoots, BotCrashes, BotOpens, Next
<1>3. CASE \E p \in Passes : PassStep(p)
  BY <1>3, PassStepRefines
<1>4. CASE Operators
  BY <1>4, OperatorRefines
<1>5. CASE Decommission
  BY <1>5, CommandRefines
<1>6. CASE UNCHANGED allVars
  BY <1>6 DEF allVars
<1>7. QED
  BY <1>1, <1>2, <1>3, <1>4, <1>5, <1>6 DEF BotNext

------------------------------------------------------------------------------
(* The variables of the bot have their types. *)

\* A call that gives up on a channel is a call.
LEMMA GivingUpTypes ==
  ASSUME BotType, NEW u \in Users, NEW t \in Targets, GivesUp(u, t)
  PROVE  call' \in [Users -> [at : Targets \cup {None}, bad : SUBSET Targets,
                              refused : SUBSET Targets]]
<1> DEFINE CallType == [at : Targets \cup {None}, bad : SUBSET Targets, refused : SUBSET Targets]
           y1 == [call[u] EXCEPT !.at = None]
           y2 == [y1 EXCEPT !.bad = @ \cup {t}]
<1>1. call \in [Users -> CallType]
  BY DEF BotType
<1>2. call' = [call EXCEPT ![u] = y2]
  BY <1>1 DEF GivesUp
<1>3. y1 \in CallType
  BY <1>1
<1> HIDE DEF y1
<1>4. y2 \in CallType
  BY <1>3
<1> HIDE DEF y2
<1>5. QED
  BY <1>1, <1>2, <1>4

LEMMA TypeCallStep ==
  ASSUME BotType, NEW u \in Users, CallStep(u)
  PROVE  BotType'
<1> PICK t \in Targets :
    \/ GrantReads(u, t) \/ GrantRefuses(u, t) \/ GrantCannotRead(u, t)
    \/ RepairSkips(u, t) \/ GrantEdits(u, t) \/ GrantEditFails(u, t)
    \/ RevokeReads(u, t) \/ RevokeSkips(u, t) \/ RevokeCannotRead(u, t)
    \/ RevokeEdits(u, t) \/ RevokeEditFails(u, t)
  BY DEF CallStep
<1> USE BotFacts DEF BotType, beside, botVars
<1>1. CASE GrantReads(u, t)
  BY <1>1 DEF GrantReads
<1>2. CASE GrantRefuses(u, t)
  <2>1. /\ call' = [call EXCEPT ![u].bad = @ \cup {t}, ![u].refused = @ \cup {t}]
        /\ UNCHANGED <<denied, gone, reconciled, pass, retiring>>
    BY <1>2 DEF GrantRefuses
  <2> DEFINE y1 == [call[u] EXCEPT !.bad = @ \cup {t}]
             y2 == [y1 EXCEPT !.refused = @ \cup {t}]
  <2>2. call' = [call EXCEPT ![u] = y2]
    BY <2>1
  <2>3. y1 \in [at : Targets \cup {None}, bad : SUBSET Targets, refused : SUBSET Targets]
    OBVIOUS
  <2> HIDE DEF y1
  <2>4. y2 \in [at : Targets \cup {None}, bad : SUBSET Targets, refused : SUBSET Targets]
    BY <2>3
  <2> HIDE DEF y2
  <2>5. call' \in [Users -> [at : Targets \cup {None}, bad : SUBSET Targets,
                             refused : SUBSET Targets]]
    BY <2>2, <2>4
  <2>6. QED
    BY <2>1, <2>5
<1>3. CASE GrantCannotRead(u, t)
  <2>1. GivesUp(u, t) /\ UNCHANGED <<denied, gone, reconciled, pass, retiring>>
    BY <1>3 DEF GrantCannotRead
  <2>2. QED
    BY <2>1, GivingUpTypes
<1>4. CASE RepairSkips(u, t)
  BY <1>4 DEF RepairSkips
<1>5. CASE GrantEdits(u, t)
  BY <1>5 DEF GrantEdits
<1>6. CASE GrantEditFails(u, t)
  <2>1. denied' = denied \/ denied' = [denied EXCEPT ![u] = @ \ {t}]
    BY <1>6 DEF GrantEditFails
  <2>2. GivesUp(u, t) \/ call' = [call EXCEPT ![u].at = None]
    BY <1>6 DEF GrantEditFails
  <2>3. UNCHANGED <<gone, reconciled, pass, retiring>>
    BY <1>6 DEF GrantEditFails
  <2>4. denied' \in [Users -> SUBSET Targets]
    BY <2>1
  <2>5. call' \in [Users -> [at : Targets \cup {None}, bad : SUBSET Targets,
                             refused : SUBSET Targets]]
    <3>1. CASE GivesUp(u, t)
      BY <3>1, GivingUpTypes
    <3>2. CASE call' = [call EXCEPT ![u].at = None]
      BY <3>2
    <3>3. QED
      BY <2>2, <3>1, <3>2
  <2>6. QED
    BY <2>3, <2>4, <2>5
<1>7. CASE RevokeReads(u, t)
  BY <1>7 DEF RevokeReads
<1>8. CASE RevokeSkips(u, t)
  BY <1>8 DEF RevokeSkips
<1>9. CASE RevokeCannotRead(u, t)
  <2>1. GivesUp(u, t) /\ UNCHANGED <<denied, gone, reconciled, pass, retiring>>
    BY <1>9 DEF RevokeCannotRead
  <2>2. QED
    BY <2>1, GivingUpTypes
<1>10. CASE RevokeEdits(u, t)
  BY <1>10 DEF RevokeEdits
<1>11. CASE RevokeEditFails(u, t)
  <2>1. GivesUp(u, t) /\ UNCHANGED <<denied, gone, reconciled, pass, retiring>>
    BY <1>11 DEF RevokeEditFails
  <2>2. QED
    BY <2>1, GivingUpTypes
<1>12. QED
  BY <1>1, <1>2, <1>3, <1>4, <1>5, <1>6, <1>7, <1>8, <1>9, <1>10, <1>11

\* A pass that is put in place of another keeps the types.
LEMMA PassPut ==
  ASSUME BotType, NEW p \in Passes, NEW x \in PassType,
         pass' = [pass EXCEPT ![p] = x], UNCHANGED <<denied, gone, call, reconciled, retiring>>
  PROVE  BotType'
<1>1. pass' \in [Passes -> PassType]
  BY DEF BotType
<1>2. QED
  BY <1>1 DEF BotType

LEMMA TypePassStep ==
  ASSUME TypeOK, BotType, NEW p \in Passes, PassStep(p)
  PROVE  BotType'
<1>1. conf.targets \subseteq Targets
  BY FileTypes
<1> DEFINE x == pass[p]
<1>x. /\ pass \in [Passes -> PassType] /\ x \in PassType
      /\ x.on \in BOOLEAN /\ x.ready \in BOOLEAN /\ x.failed \in BOOLEAN /\ x.edit \in BOOLEAN
      /\ x.chans \in SUBSET Targets /\ x.chan \in Targets \cup {None}
      /\ x.snap \in SUBSET Users /\ x.who \in Users \cup {None}
  BY DEF BotType, PassType
<1>2. CASE PassStarts(p)
  <2> DEFINE cs == conf.targets \ gone
             r  == conf.targets \cap gone = {} /\ ~Conflicted
             y1 == [NoPass EXCEPT !.on = TRUE]
             y2 == [y1 EXCEPT !.chans = cs]
             y3 == [y2 EXCEPT !.ready = r]
  <2>1. pass' = [pass EXCEPT ![p] = y3] /\ UNCHANGED <<denied, gone, call, reconciled, retiring>>
    BY <1>2 DEF PassStarts
  <2>2. cs \in SUBSET Targets /\ r \in BOOLEAN
    BY <1>1
  <2> HIDE DEF cs, r
  <2>3. y1 \in PassType
    BY BotFacts DEF PassType
  <2> HIDE DEF y1
  <2>4. y2 \in PassType
    BY <2>2, <2>3 DEF PassType
  <2> HIDE DEF y2
  <2>5. y3 \in PassType
    BY <2>2, <2>4 DEF PassType
  <2> HIDE DEF y3
  <2>6. QED
    BY <2>1, <2>5, PassPut
<1>3. CASE PassEntersChannel(p)
  <2> DEFINE t  == FirstOf(pass[p].chans)
             cs == x.chans \ {t}
             us == {u \in Users : t \in live[u] \cup denied[u]}
             y1 == [x EXCEPT !.chans = cs]
             y2 == [y1 EXCEPT !.chan = t]
             y3 == [y2 EXCEPT !.snap = us]
  <2>1. /\ pass' = [pass EXCEPT ![p].chans = cs, ![p].chan = t, ![p].snap = us]
        /\ UNCHANGED <<denied, gone, call, reconciled, retiring>>
    BY <1>3 DEF PassEntersChannel
  <2>2. t \in Targets
    BY <1>x, <1>3, FirstIsOne DEF PassEntersChannel
  <2>3. cs \in SUBSET Targets /\ us \in SUBSET Users
    BY <1>x
  <2> HIDE DEF t, cs, us
  <2>4. pass' = [pass EXCEPT ![p] = y3]
    BY <2>1
  <2> HIDE DEF x
  <2>5. y1 \in PassType
    BY <1>x, <2>3 DEF PassType
  <2> HIDE DEF y1
  <2>6. y2 \in PassType
    BY <2>2, <2>5 DEF PassType
  <2> HIDE DEF y2
  <2>7. y3 \in PassType
    BY <2>3, <2>6 DEF PassType
  <2> HIDE DEF y3
  <2>8. QED
    BY <2>1, <2>4, <2>7, PassPut
<1>4. CASE PassThrows(p)
  BY <1>4, BotFacts, PassPut DEF PassThrows
<1>5. CASE PassEnds(p)
  <2>1. reconciled' \in BOOLEAN
    BY <1>5 DEF PassEnds, BotType
  <2>2. pass' \in [Passes -> PassType]
    BY <1>x, <1>5, BotFacts DEF PassEnds
  <2>3. QED
    BY <1>5, <2>1, <2>2 DEF PassEnds, BotType
<1>6. CASE PassReads(p)
  <2> DEFINE y == [x EXCEPT !.edit = TRUE]
             z == [x EXCEPT !.who = None]
  <2>1. y \in PassType /\ z \in PassType
    BY <1>x DEF PassType
  <2>2. /\ pass' = [pass EXCEPT ![p].edit = TRUE] \/ pass' = [pass EXCEPT ![p].who = None]
        /\ UNCHANGED <<denied, gone, call, reconciled, retiring>>
    BY <1>6 DEF PassReads
  <2>3. pass' = [pass EXCEPT ![p] = y] \/ pass' = [pass EXCEPT ![p] = z]
    BY <2>2
  <2> HIDE DEF y, z
  <2>4. QED
    BY <2>1, <2>2, <2>3, PassPut
<1>7. CASE PassEdits(p)
  <2> DEFINE y == [x EXCEPT !.who = None, !.edit = FALSE]
  <2>1. /\ pass' = [pass EXCEPT ![p].who = None, ![p].edit = FALSE]
        /\ UNCHANGED <<denied, gone, call, reconciled, retiring>>
    BY <1>7 DEF PassEdits
  <2>2. pass' = [pass EXCEPT ![p] = y]
    BY <2>1
  <2>3. y \in PassType
    BY <1>x DEF PassType
  <2> HIDE DEF y
  <2>4. QED
    BY <2>1, <2>2, <2>3, PassPut
<1>8. CASE PassEditFails(p)
  <2> DEFINE y == [x EXCEPT !.who = None, !.edit = FALSE, !.failed = TRUE]
  <2>1. /\ pass' = [pass EXCEPT ![p].who = None, ![p].edit = FALSE, ![p].failed = TRUE]
        /\ UNCHANGED <<denied, gone, call, reconciled, retiring>>
    BY <1>8 DEF PassEditFails
  <2>2. pass' = [pass EXCEPT ![p] = y]
    BY <2>1
  <2>3. y \in PassType
    BY <1>x DEF PassType
  <2> HIDE DEF y
  <2>4. QED
    BY <2>1, <2>2, <2>3, PassPut
<1>9. ASSUME NEW u \in Users, PassJudges(p, u) PROVE BotType'
  <2> DEFINE w == IF authorizedNow(u, pass[p].chan) THEN None ELSE u
             y == [x EXCEPT !.snap = @ \ {u}, !.who = w]
  <2>1. /\ pass' = [pass EXCEPT ![p].snap = @ \ {u}, ![p].who = w]
        /\ UNCHANGED <<denied, gone, call, reconciled, retiring>>
    BY <1>9 DEF PassJudges
  <2>2. w \in Users \cup {None}
    OBVIOUS
  <2> HIDE DEF w
  <2>3. pass' = [pass EXCEPT ![p] = y]
    BY <2>1
  <2>4. y \in PassType
    BY <1>x, <2>2 DEF PassType
  <2> HIDE DEF y
  <2>5. QED
    BY <2>1, <2>3, <2>4, PassPut
<1>10. QED
  BY <1>2, <1>3, <1>4, <1>5, <1>6, <1>7, <1>8, <1>9 DEF PassStep

LEMMA TypeOperators ==
  ASSUME BotType, Operators
  PROVE  BotType'
<1> PICK t \in Targets :
    Deletes(t) \/ \E u \in Users : Denies(u, t) \/ RemovesDenial(u, t) \/ Strays(u, t)
  BY DEF Operators
<1> USE DEF BotType
<1>1. CASE Deletes(t)
  BY <1>1 DEF Deletes
<1>2. ASSUME NEW u \in Users, Denies(u, t) PROVE BotType'
  BY <1>2 DEF Denies
<1>3. ASSUME NEW u \in Users, RemovesDenial(u, t) PROVE BotType'
  BY <1>3 DEF RemovesDenial
<1>4. ASSUME NEW u \in Users, Strays(u, t) PROVE BotType'
  BY <1>4 DEF Strays, botVars
<1>5. QED
  BY <1>1, <1>2, <1>3, <1>4

LEMMA TypeCommand ==
  ASSUME BotType, RetireInv, Decommission
  PROVE  BotType'
<1> USE BotFacts DEF BotType, RetiringType, offline
<1>1. ASSUME NEW place \in Places, NEW ids \in SUBSET Targets, NEW sure \in BOOLEAN,
             DcStarts(place, ids, sure)
      PROVE  BotType'
  BY <1>1 DEF DcStarts, NoRetiring
<1>2. ASSUME NEW t \in Targets, DcReads(t) PROVE BotType'
  BY <1>2 DEF DcReads
<1>3. ASSUME NEW t \in Targets, DcSkips(t) PROVE BotType'
  BY <1>3 DEF DcSkips
<1>4. ASSUME NEW t \in Targets, DcAsserted(t) PROVE BotType'
  BY <1>4 DEF DcAsserted
<1>5. ASSUME NEW u \in Users, DcClears(u) PROVE BotType'
  BY <1>5 DEF DcClears
<1>6. ASSUME NEW u \in Users, DcClearFails(u) PROVE BotType'
  <2>1. retiring.on
    BY <1>6 DEF DcClearFails, RetireInv, NoRetiring
  <2>2. retiring.chan \in Targets
    BY <1>6, <2>1 DEF DcClearFails, RetireInv
  <2>3. retiring' = [retiring EXCEPT !.holders = @ \ {u},
                                    !.kept = @ \cup {<<u, retiring.chan>>}]
        /\ UNCHANGED <<denied, gone, call, reconciled, pass>>
    BY <1>6 DEF DcClearFails
  <2>4. {<<u, retiring.chan>>} \subseteq Users \X Targets
    BY <2>2
  <2>5. QED
    BY <2>3, <2>4
<1>7. CASE DcRetires \/ DcEnds
  <2>1. retiring' = NoRetiring /\ UNCHANGED <<denied, gone, call, reconciled, pass>>
    BY <1>7 DEF DcRetires, DcEnds
  <2>2. QED
    BY <2>1
<1> HIDE DEF BotType, RetiringType, offline
<1>8. QED
  BY <1>1, <1>2, <1>3, <1>4, <1>5, <1>6, <1>7 DEF Decommission

LEMMA BotTypeNext ==
  ASSUME CoverInv, BotInv, [BotNext]_allVars
  PROVE  BotType'
<1> USE DEF BotInv
<1>1. TypeOK /\ BotType
  BY DEF CoverInv, TypeInv
<1>2. ASSUME NEW u \in Users, Submit(u) \/ Repair(u) \/ Visit(u) \/ Return(u)
      PROVE  BotType'
  <2>1. Fresh(u) /\ UNCHANGED beside
    BY <1>2 DEF Submit, Repair, Visit, Return
  <2>2. QED
    BY <1>1, <2>1, BotFacts DEF Fresh, beside, BotType
<1>3. ASSUME NEW u \in Users, CallStep(u) PROVE BotType'
  BY <1>1, <1>3, TypeCallStep
<1>4. CASE SweepDue \/ BotBoots \/ (\E c \in adapter.configs : BotOpens(c))
           \/ (\E t \in Time : SetClock(t) /\ UNCHANGED botVars) \/ UNCHANGED allVars
  <2>1. UNCHANGED botVars
    BY <1>4 DEF SweepDue, BotBoots, BotOpens, allVars
  <2>2. QED
    BY <1>1, <2>1 DEF botVars, BotType
<1>5. CASE BotCrashes
  BY <1>1, <1>5, BotFacts DEF BotCrashes, BotType
<1>6. ASSUME NEW p \in Passes, PassStep(p) PROVE BotType'
  BY <1>1, <1>6, TypePassStep
<1>7. CASE Operators
  BY <1>1, <1>7, TypeOperators
<1>8. CASE Decommission
  BY <1>1, <1>8, TypeCommand
<1>9. QED
  BY <1>2, <1>3, <1>4, <1>5, <1>6, <1>7, <1>8 DEF BotNext

------------------------------------------------------------------------------
(* What the platform's answers leave alone. *)

SameOps == \A u \in Users : /\ op'[u].phase = op[u].phase
                            /\ op'[u].rec = op[u].rec /\ op'[u].prev = op[u].prev

LEMMA PlatformKeeps ==
  ASSUME TypeOK, NEW u \in Users, NEW t \in Targets, NEW learned \in BOOLEAN,
         Gives(u, t, learned) \/ Takes(u, t, learned)
  PROVE  UNCHANGED elsewhere /\ SameOps
<1>1. CASE Gives(u, t, learned)
  BY <1>1 DEF Gives, SameOps, TypeOK
<1>2. CASE Takes(u, t, learned)
  BY <1>2 DEF Takes, SameOps, TypeOK
<1>3. QED
  BY <1>1, <1>2

LEMMA TakenIsLess ==
  ASSUME NEW us, NEW t, NEW v \in Users, live' = live \/ TakenOutside(us, t)
  PROVE  live'[v] \subseteq live[v]
<1>1. CASE live' = live
  BY <1>1
<1>2. CASE TakenOutside(us, t)
  BY <1>2 DEF TakenOutside, Without
<1>3. QED
  BY <1>1, <1>2

LEMMA CallStepKeeps ==
  ASSUME TypeOK, NEW u \in Users, CallStep(u)
  PROVE  /\ UNCHANGED elsewhere /\ SameOps
         /\ UNCHANGED <<gone, reconciled, pass, retiring>>
<1> PICK t \in Targets :
    \/ GrantReads(u, t) \/ GrantRefuses(u, t) \/ GrantCannotRead(u, t)
    \/ RepairSkips(u, t) \/ GrantEdits(u, t) \/ GrantEditFails(u, t)
    \/ RevokeReads(u, t) \/ RevokeSkips(u, t) \/ RevokeCannotRead(u, t)
    \/ RevokeEdits(u, t) \/ RevokeEditFails(u, t)
  BY DEF CallStep
<1>1. UNCHANGED <<gone, reconciled, pass, retiring>>
  BY DEF GrantReads, GrantRefuses, GrantCannotRead, RepairSkips, GrantEdits,
         GrantEditFails, RevokeReads, RevokeSkips, RevokeCannotRead, RevokeEdits,
         RevokeEditFails, botVars, beside
<1>2. CASE GrantReads(u, t) \/ GrantRefuses(u, t) \/ GrantCannotRead(u, t)
           \/ RevokeReads(u, t) \/ RevokeCannotRead(u, t)
  <2>1. UNCHANGED vars
    BY <1>2 DEF GrantReads, GrantRefuses, GrantCannotRead, RevokeReads, RevokeCannotRead
  <2>2. QED
    BY <1>1, <2>1 DEF vars, elsewhere, SameOps
<1>3. CASE RepairSkips(u, t) \/ GrantEdits(u, t) \/ GrantEditFails(u, t)
  <2>1. Gives(u, t, TRUE) \/ Gives(u, t, FALSE) \/ UNCHANGED vars
    BY <1>3 DEF RepairSkips, GrantEdits, GrantEditFails
  <2>2. (UNCHANGED vars) => UNCHANGED elsewhere /\ SameOps
    BY DEF vars, elsewhere, SameOps
  <2>3. QED
    BY <2>1, <2>2, <1>1, PlatformKeeps
<1>4. CASE RevokeSkips(u, t) \/ RevokeEdits(u, t) \/ RevokeEditFails(u, t)
  <2>1. Takes(u, t, TRUE) \/ Takes(u, t, FALSE) \/ UNCHANGED vars
    BY <1>4 DEF RevokeSkips, RevokeEdits, RevokeEditFails
  <2>2. (UNCHANGED vars) => UNCHANGED elsewhere /\ SameOps
    BY DEF vars, elsewhere, SameOps
  <2>3. QED
    BY <2>1, <2>2, <1>1, PlatformKeeps
<1>5. QED
  BY <1>2, <1>3, <1>4

LEMMA PassStepKeeps ==
  ASSUME NEW p \in Passes, PassStep(p)
  PROVE  /\ UNCHANGED <<adapter, grants, scope, up, conf, op>> /\ SameOps
         /\ UNCHANGED <<denied, gone, call, retiring>>
<1>1. CASE PassStarts(p) \/ PassReads(p) \/ PassEntersChannel(p) \/ PassThrows(p)
           \/ PassEnds(p)
  BY <1>1 DEF PassStarts, PassReads, PassEntersChannel, PassThrows, PassEnds, vars, SameOps
<1>2. CASE PassEdits(p) \/ PassEditFails(p)
  BY <1>2 DEF PassEdits, PassEditFails, TakenOutside, elsewhere, vars, SameOps
<1>3. CASE \E u \in Users : PassJudges(p, u)
  BY <1>3 DEF PassJudges, Asked, SameOps
<1>4. QED
  BY <1>1, <1>2, <1>3 DEF PassStep

LEMMA OperatorsKeep ==
  ASSUME Operators
  PROVE  /\ UNCHANGED elsewhere /\ UNCHANGED op /\ SameOps
         /\ UNCHANGED <<call, reconciled, pass, retiring>>
<1> PICK t \in Targets :
    Deletes(t) \/ \E u \in Users : Denies(u, t) \/ RemovesDenial(u, t) \/ Strays(u, t)
  BY DEF Operators
<1>1. UNCHANGED <<call, reconciled, pass, retiring>>
  BY DEF Deletes, Denies, RemovesDenial, Strays, botVars
<1>2. UNCHANGED elsewhere /\ UNCHANGED op
  BY DEF Deletes, Denies, RemovesDenial, Strays, TakenOutside, GivenOutside, vars,
         elsewhere
<1>3. QED
  BY <1>1, <1>2 DEF SameOps

(* The command works on a ledger that no process has open. *)
LEMMA CommandIsOffline ==
  ASSUME RetireInv, Decommission
  PROVE  /\ up = "down" /\ UNCHANGED <<adapter, scope, up, op>>
         /\ UNCHANGED <<denied, gone, call, reconciled, pass>>
<1>1. CASE \E place \in Places, ids \in SUBSET Targets, sure \in BOOLEAN :
             DcStarts(place, ids, sure)
  BY <1>1 DEF DcStarts, vars, offline
<1>2. CASE \E t \in Targets : DcReads(t) \/ DcSkips(t) \/ DcAsserted(t)
  <2>1. retiring.todo # {}
    BY <1>2 DEF DcReads, DcSkips, DcAsserted, DcAt
  <2>2. retiring.on
    BY <2>1 DEF RetireInv, NoRetiring
  <2>3. QED
    BY <1>2, <2>2 DEF RetireInv, DcReads, DcSkips, DcAsserted, vars, offline
<1>3. CASE \E u \in Users : DcClears(u) \/ DcClearFails(u)
  <2>1. retiring.holders # {}
    BY <1>3 DEF DcClears, DcClearFails
  <2>2. retiring.on
    BY <2>1 DEF RetireInv, NoRetiring
  <2>3. QED
    BY <1>3, <2>2 DEF RetireInv, DcClears, DcClearFails, TakenOutside, elsewhere,
                      vars, offline
<1>4. CASE DcRetires
  BY <1>4 DEF RetireInv, DcRetires, RetireRows, vars, offline
<1>5. CASE DcEnds
  BY <1>5 DEF RetireInv, DcEnds, vars, offline
<1>6. QED
  BY <1>1, <1>2, <1>3, <1>4, <1>5 DEF Decommission

------------------------------------------------------------------------------
(* No row names a role while interactions are open. *)

LEMMA GateKept ==
  ASSUME GateInv, SameOps, UNCHANGED <<grants, up>>,
         reconciled' => reconciled \/ \E p \in Passes : pass[p].on,
         (\E p \in Passes : pass'[p].on) =>
           (up = "up" /\ NoRoleRows) \/ \E p \in Passes : pass[p].on
  PROVE  GateInv'
<1>1. NoRoleRows' = NoRoleRows
  BY DEF NoRoleRows
<1>2. QED
  BY <1>1 DEF GateInv, SameOps

(* Before the bot is open, and while it is down, there is nothing to show. *)
LEMMA GateClosed ==
  ASSUME ~reconciled', \A p \in Passes : ~pass'[p].on,
         \A u \in Users : op'[u].phase # "migrate"
  PROVE  GateInv'
  BY DEF GateInv

(* A grant writes the configured channels, which are not roles, over a row
   that names none. *)
LEMMA GateSubmit ==
  ASSUME TypeOK, GateInv, NEW u \in Users, Submit(u)
  PROVE  GateInv'
<1>1. /\ up = "up" /\ NoRoleRows /\ GrantStarts(u)
      /\ reconciled' = reconciled /\ pass' = pass /\ up' = up
  BY DEF Submit, GateInv, GrantStarts, beside
<1>2. conf.targets \cap RoleTargets = {}
  BY BotFacts DEF TypeOK
<1>3. grants[u].targets \cap RoleTargets = {}
  BY <1>1 DEF NoRoleRows
<1>4. \A v \in Users : v # u => grants'[v] = grants[v] /\ op'[v] = op[v]
  BY <1>1, GrantEffect
<1>5. PICK t \in Time : \/ GrantTooLate(u, Offer(t))
                        \/ GrantMigrates(u, Offer(t))
                        \/ GrantWrites(u, Offer(t))
  BY <1>1 DEF GrantStarts
<1> DEFINE r == Offer(t)
<1>6. r \in Records /\ r.targets = conf.targets
  BY FileTypes
<1>7. grants[u] \in Records
  BY DEF TypeOK
<1>8. op[u].phase = "idle"
  BY <1>1, EmptyTypes DEF GrantStarts, MayStart
<1> HIDE DEF r
<1>9. /\ grants'[u].targets \cap RoleTargets = {}
      /\ op'[u].phase = "migrate" =>
           (op'[u].rec.targets \cup op'[u].prev.targets) \cap RoleTargets = {}
  <2>1. CASE GrantTooLate(u, r)
    BY <1>3, <1>8, <2>1 DEF GrantTooLate
  <2>2. CASE GrantMigrates(u, r)
    <3>1. CASE grants' = grants /\ op' = op
      BY <1>3, <1>8, <3>1
    <3>2. CASE Call(u, "migrate", r, grants[u], orphaned(grants[u], r))
      <4>1. op'[u].rec = r /\ op'[u].prev = grants[u]
        BY <3>2, <1>6, <1>7 DEF Call, TypeOK
      <4>2. grants' = grants
            \/ Put(u, [r EXCEPT !.targets = covering(r, orphaned(grants[u], r))])
        BY <2>2, <3>2 DEF GrantMigrates, PutFails
      <4>3. covering(r, orphaned(grants[u], r)) \subseteq r.targets \cup grants[u].targets
        BY DEF covering, orphaned
      <4>4. CASE Put(u, [r EXCEPT !.targets = covering(r, orphaned(grants[u], r))])
        <5> DEFINE q == [r EXCEPT !.targets = covering(r, orphaned(grants[u], r))]
        <5>1. q \in Records /\ q.targets \subseteq r.targets \cup grants[u].targets
          BY <1>6, <1>7, <4>3 DEF Records
        <5> HIDE DEF q
        <5>2. grants'[u].targets = q.targets
          BY <4>4, <5>1, PutEffect DEF q
        <5>3. QED
          BY <1>2, <1>3, <1>6, <4>1, <5>1, <5>2
      <4>5. QED
        BY <1>2, <1>3, <1>6, <4>1, <4>2, <4>4
    <3>3. QED
      BY <2>2, <3>1, <3>2 DEF GrantMigrates, PutFails
  <2>3. CASE GrantWrites(u, r)
    <3>1. WriteAndApply(u, r, grants[u])
      BY <2>3 DEF GrantWrites
    <3>2. Written(u, r, grants[u]) \/ Unwritten(u)
      BY <1>6, <1>7, <3>1, WriteEffect
    <3>3. QED
      BY <1>2, <1>3, <1>6, <3>2 DEF Written, Unwritten
  <2>4. QED
    BY <1>5, <2>1, <2>2, <2>3 DEF r
<1>10. NoRoleRows'
  BY <1>1, <1>4, <1>9 DEF NoRoleRows
<1>11. QED
  BY <1>1, <1>4, <1>9, <1>10 DEF GateInv

(* What follows a call writes the record of the call, or the prior one. *)
LEMMA GateResume ==
  ASSUME TypeOK, GateInv, NEW u \in Users, Resume(u), UNCHANGED <<reconciled, pass>>
  PROVE  GateInv'
<1>1. /\ \A v \in Users : v # u => grants'[v] = grants[v] /\ op'[v] = op[v]
      /\ UNCHANGED rest
  BY ResumeEffect
<1>2. op[u].rec \in Records /\ op[u].prev \in Records
  BY DEF TypeOK
<1>3. op'[u].phase # "migrate"
  <2>1. CASE Migrated(u)
    <3>1. Written(u, op[u].rec, op[u].prev) \/ Unwritten(u)
      BY <1>2, <2>1, WriteEffect DEF Migrated
    <3>2. QED
      BY <3>1 DEF Written, Unwritten
  <2>2. CASE ApplyFailsUndone(u)
    BY <2>2 DEF ApplyFailsUndone, Call, TypeOK
  <2>3. CASE Settle(u)
    BY <2>3, SettleEffect
  <2>4. QED
    BY <2>1, <2>2, <2>3 DEF Resume, MigrateFails, Applied, ApplyRefused, RefusalTaken,
         ApplyFailsKept, TakenBack, TakeBackFails, AdmitSettles
<1>4. grants'[u].targets \cap RoleTargets \subseteq grants[u].targets
  <2>1. CASE Migrated(u)
    <3>1. Written(u, op[u].rec, op[u].prev) \/ Unwritten(u)
      BY <1>2, <2>1, WriteEffect DEF Migrated
    <3>2. op[u].rec.targets \cap RoleTargets = {}
      BY <2>1 DEF Migrated, GateInv
    <3>3. QED
      BY <3>1, <3>2 DEF Written, Unwritten
  <2>2. CASE MigrateFails(u)
    <3>1. op[u].prev.targets \cap RoleTargets = {}
      BY <2>2 DEF MigrateFails, GateInv
    <3>2. Put(u, op[u].prev) \/ grants' = grants
      BY <2>2 DEF MigrateFails, PutFails
    <3>3. CASE Put(u, op[u].prev)
      <4>1. grants'[u].targets = op[u].prev.targets
        BY <1>2, <3>3, PutEffect
      <4>2. QED
        BY <3>1, <4>1
    <3>4. QED
      BY <3>2, <3>3
  <2>3. CASE Del(u, op[u].rec.rev)
    <3>1. grants'[u] = NoRow \/ grants'[u] = grants[u]
      BY <2>3, DelEffect
    <3>2. QED
      BY <3>1, EmptyTypes
  <2>4. CASE grants' = grants
    BY <2>4
  <2>5. QED
    BY <2>1, <2>2, <2>3, <2>4 DEF Resume, Applied, ApplyRefused, RefusalTaken,
         ApplyFailsKept, ApplyFailsUndone, TakenBack, TakeBackFails, AdmitSettles
<1>5. up' = up
  BY <1>1 DEF rest
<1>6. NoRoleRows => NoRoleRows'
  BY <1>1, <1>4 DEF NoRoleRows
<1>7. QED
  BY <1>1, <1>3, <1>5, <1>6 DEF GateInv

(* A visit of the sweep and a repair change no row and start no migration. *)
LEMMA VisitKeeps ==
  ASSUME TypeOK, NEW u \in Users, Admit(u) \/ SweepVisits(u)
  PROVE  /\ UNCHANGED <<adapter, grants, scope, up, conf, live, stray>>
         /\ op' = op \/ (op'[u].phase \in {"sweep", "admit"} /\ op'[u].sent = FALSE)
         /\ \A v \in Users : v # u => op'[v] = op[v]
<1>1. UNCHANGED <<adapter, grants, scope, up, conf, live, stray>>
  BY DEF Admit, SweepVisits
<1>2. CASE Admit(u)
  <2>1. op' = op \/ Call(u, "admit", grants[u], NoRow, grants[u].targets \cap conf.targets)
    BY <1>2 DEF Admit
  <2>2. QED
    BY <1>1, <2>1 DEF Call, TypeOK
<1>3. CASE SweepVisits(u)
  <2>1. op' = op \/ Call(u, "sweep", grants[u], NoRow, grants[u].targets)
    BY <1>3 DEF SweepVisits, SweepSkips, SweepTakes
  <2>2. QED
    BY <1>1, <2>1 DEF Call, TypeOK
<1>4. QED
  BY <1>2, <1>3

LEMMA GateNext ==
  ASSUME CoverInv, BotInv, [BotNext]_allVars
  PROVE  GateInv'
<1>1. TypeOK /\ GateInv /\ StartInv /\ RetireInv /\ BotType
  BY DEF CoverInv, TypeInv, BotInv
<1>2. ASSUME NEW u \in Users, Submit(u) PROVE GateInv'
  BY <1>1, <1>2, GateSubmit
<1>3. ASSUME NEW u \in Users, Repair(u) \/ Visit(u) PROVE GateInv'
  <2>1. Admit(u) \/ SweepVisits(u)
    BY <1>3 DEF Repair, Visit
  <2>2. UNCHANGED <<reconciled, pass>>
    BY <1>3 DEF Repair, Visit, beside
  <2>3. /\ UNCHANGED <<grants, up>>
        /\ \A v \in Users : op'[v].phase = "migrate" => op'[v] = op[v]
    BY <1>1, <2>1, VisitKeeps
  <2>4. NoRoleRows' = NoRoleRows
    BY <2>3 DEF NoRoleRows
  <2>5. QED
    BY <1>1, <2>2, <2>3, <2>4 DEF GateInv
<1>4. ASSUME NEW u \in Users, Return(u) PROVE GateInv'
  <2>1. Resume(u)
    BY <1>1, <1>4, ReturnResumes
  <2>2. UNCHANGED <<reconciled, pass>>
    BY <1>4 DEF Return, beside
  <2>3. QED
    BY <1>1, <2>1, <2>2, GateResume
<1>5. ASSUME NEW u \in Users, CallStep(u) PROVE GateInv'
  <2>1. SameOps /\ UNCHANGED <<grants, up>> /\ UNCHANGED <<reconciled, pass>>
    BY <1>1, <1>5, CallStepKeeps DEF elsewhere
  <2>2. QED
    BY <1>1, <2>1, GateKept
<1>6. ASSUME NEW p \in Passes, PassStep(p) PROVE GateInv'
  <2>1. SameOps /\ UNCHANGED <<grants, up>>
    BY <1>6, PassStepKeeps
  <2>2. pass \in [Passes -> PassType]
    BY <1>1 DEF BotType
  <2>3. CASE PassStarts(p)
    <3>1. up = "up" /\ NoRoleRows /\ reconciled' = reconciled
      BY <2>3 DEF PassStarts
    <3>2. QED
      BY <1>1, <2>1, <3>1, GateKept
  <2>4. CASE ~PassStarts(p)
    <3>1. \A q \in Passes : pass'[q].on => pass[q].on
      <4>1. CASE PassEntersChannel(p)
        BY <2>2, <4>1 DEF PassEntersChannel, PassType
      <4>2. CASE PassThrows(p) \/ PassEnds(p)
        BY <2>2, <4>2, BotFacts DEF PassThrows, PassEnds
      <4>3. CASE PassReads(p)
        BY <2>2, <4>3 DEF PassReads, PassType
      <4>4. CASE PassEdits(p) \/ PassEditFails(p)
        BY <2>2, <4>4 DEF PassEdits, PassEditFails, PassType
      <4>5. CASE \E u \in Users : PassJudges(p, u)
        BY <2>2, <4>5 DEF PassJudges, PassType
      <4>6. QED
        BY <1>6, <2>4, <4>1, <4>2, <4>3, <4>4, <4>5 DEF PassStep
    <3>2. reconciled' => reconciled \/ pass[p].on
      BY <1>6, <2>4 DEF PassStep, PassEntersChannel, PassThrows, PassEnds,
         PassReads, PassEdits, PassEditFails, PassJudges, ChannelDone
    <3>3. QED
      BY <1>1, <2>1, <3>1, <3>2, GateKept
  <2>5. QED
    BY <2>3, <2>4
<1>7. CASE Operators
  <2>1. SameOps /\ UNCHANGED <<grants, up>> /\ UNCHANGED <<reconciled, pass>>
    BY <1>7, OperatorsKeep DEF elsewhere
  <2>2. QED
    BY <1>1, <2>1, GateKept
<1>8. CASE Decommission
  <2>1. up = "down" /\ UNCHANGED <<reconciled, pass, op>>
    BY <1>1, <1>8, CommandIsOffline
  <2>2. ~reconciled /\ \A p \in Passes : ~pass[p].on
    BY <1>1, <2>1 DEF GateInv
  <2>3. QED
    BY <1>1, <2>1, <2>2, GateClosed DEF StartInv
<1>9. CASE BotBoots \/ (\E c \in adapter.configs : BotOpens(c))
  <2>1. up # "up" /\ UNCHANGED <<reconciled, pass, op>>
    BY <1>9 DEF BotBoots, BotOpens, Boot, Import, Rename, Bind, Open, botVars
  <2>2. ~reconciled /\ \A p \in Passes : ~pass[p].on
    BY <1>1, <2>1 DEF GateInv
  <2>3. QED
    BY <1>1, <2>1, <2>2, GateClosed DEF StartInv
<1>10. CASE BotCrashes
  <2>1. ~reconciled' /\ \A p \in Passes : ~pass'[p].on
    BY <1>10, BotFacts DEF BotCrashes
  <2>2. \A u \in Users : op'[u].phase = "idle"
    BY <1>10, EmptyTypes DEF BotCrashes, Crash
  <2>3. QED
    BY <2>1, <2>2, GateClosed
<1>11. CASE SweepDue \/ (\E t \in Time : SetClock(t) /\ UNCHANGED botVars)
            \/ UNCHANGED allVars
  <2>1. UNCHANGED <<grants, up, op, reconciled, pass>>
    BY <1>11 DEF SweepDue, Sweep, SetClock, allVars, vars, botVars, db
  <2>2. SameOps
    BY <2>1 DEF SameOps
  <2>3. QED
    BY <1>1, <2>1, <2>2, GateKept
<1>12. QED
  BY <1>2, <1>3, <1>4, <1>5, <1>6, <1>7, <1>8, <1>9, <1>10, <1>11 DEF BotNext

------------------------------------------------------------------------------
(* The passes. *)

LEMMA PassStepFits ==
  ASSUME TypeOK, BotType, PassInv, NEW p \in Passes, PassStep(p)
  PROVE  PassInv'
<1>1. pass \in [Passes -> PassType] /\ pass[p] \in PassType
  BY DEF BotType
<1>2. \A q \in Passes : PassFits(pass[q])
  BY DEF PassInv, PassFits
<1>3. pass[p].chans \subseteq Targets
  BY <1>1 DEF PassType
<1>4. PassFits(pass'[p]) /\ \A q \in Passes : q # p => pass'[q] = pass[q]
  <2>1. CASE PassStarts(p)
    BY <1>1, <2>1 DEF PassStarts, PassFits, NoPass
  <2>2. CASE PassEntersChannel(p)
    <3>1. FirstOf(pass[p].chans) \in Targets
      BY <1>3, <2>2, FirstIsOne DEF PassEntersChannel
    <3>2. pass[p].on /\ pass[p].who = None /\ ~pass[p].edit
      BY <1>1, <1>2, <2>2 DEF PassEntersChannel, ChannelDone, PassFits, PassType
    <3>3. /\ pass'[p].on = pass[p].on /\ pass'[p].who = pass[p].who
          /\ pass'[p].edit = pass[p].edit
          /\ pass'[p].chan = FirstOf(pass[p].chans)
          /\ \A q \in Passes : q # p => pass'[q] = pass[q]
      BY <1>1, <2>2 DEF PassEntersChannel, PassType
    <3>4. QED
      BY <3>1, <3>2, <3>3 DEF PassFits
  <2>3. CASE PassThrows(p) \/ PassEnds(p)
    BY <1>1, <2>3, BotFacts DEF PassThrows, PassEnds, PassFits
  <2>4. CASE PassReads(p)
    <3>1. pass[p].who # None /\ pass[p].on /\ pass[p].chan \in Targets /\ ~pass[p].edit
      BY <1>2, <2>4 DEF PassReads, PassFits
    <3>2. CASE pass' = [pass EXCEPT ![p].edit = TRUE]
      BY <1>1, <1>2, <3>1, <3>2 DEF PassFits, PassType
    <3>3. CASE pass' = [pass EXCEPT ![p].who = None]
      BY <1>1, <1>2, <3>1, <3>3 DEF PassFits, PassType
    <3>4. QED
      BY <2>4, <3>2, <3>3 DEF PassReads
  <2>5. CASE PassEdits(p)
    BY <1>1, <1>2, <2>5 DEF PassEdits, PassFits, PassType
  <2>6. CASE PassEditFails(p)
    BY <1>1, <1>2, <2>6 DEF PassEditFails, PassFits, PassType
  <2>7. ASSUME NEW u \in Users, PassJudges(p, u)
        PROVE  PassFits(pass'[p]) /\ \A q \in Passes : q # p => pass'[q] = pass[q]
    <3>1. pass[p].on /\ pass[p].chan \in Targets /\ ~pass[p].edit
      BY <1>1, <1>2, <2>7 DEF PassJudges, PassFits, PassType
    <3>2. /\ pass'[p].on = pass[p].on /\ pass'[p].chan = pass[p].chan
          /\ pass'[p].edit = pass[p].edit
          /\ \A q \in Passes : q # p => pass'[q] = pass[q]
      BY <1>1, <2>7 DEF PassJudges, PassType
    <3>3. QED
      BY <3>1, <3>2 DEF PassFits
  <2>8. QED
    BY <2>1, <2>2, <2>3, <2>4, <2>5, <2>6, <2>7 DEF PassStep
<1>5. QED
  BY <1>2, <1>4 DEF PassInv, PassFits

LEMMA PassNext ==
  ASSUME CoverInv, BotInv, [BotNext]_allVars
  PROVE  PassInv'
<1>1. TypeOK /\ BotType /\ PassInv /\ RetireInv
  BY DEF CoverInv, TypeInv, BotInv
<1>2. pass' = pass => PassInv'
  BY <1>1 DEF PassInv, PassFits
<1>3. ASSUME NEW u \in Users,
             Submit(u) \/ Repair(u) \/ Visit(u) \/ Return(u) \/ CallStep(u)
      PROVE  PassInv'
  <2>1. CASE CallStep(u)
    BY <1>1, <1>2, <2>1, CallStepKeeps
  <2>2. QED
    BY <1>2, <1>3, <2>1 DEF Submit, Repair, Visit, Return, beside
<1>4. ASSUME NEW p \in Passes, PassStep(p) PROVE PassInv'
  BY <1>1, <1>4, PassStepFits
<1>5. CASE Operators
  BY <1>2, <1>5, OperatorsKeep
<1>6. CASE Decommission
  BY <1>1, <1>2, <1>6, CommandIsOffline
<1>7. CASE BotCrashes
  BY <1>7, BotFacts DEF BotCrashes, PassInv, PassFits
<1>8. CASE SweepDue \/ BotBoots \/ (\E c \in adapter.configs : BotOpens(c))
           \/ (\E t \in Time : SetClock(t) /\ UNCHANGED botVars) \/ UNCHANGED allVars
  BY <1>2, <1>8 DEF SweepDue, BotBoots, BotOpens, allVars, botVars
<1>9. QED
  BY <1>3, <1>4, <1>5, <1>6, <1>7, <1>8 DEF BotNext

------------------------------------------------------------------------------
(* The deleted channels. *)

LEMMA TakenShrinks ==
  ASSUME TypeOK, NEW us, NEW t, TakenOutside(us, t), GoneInv, gone' = gone
  PROVE  GoneInv'
  BY DEF TypeOK, TakenOutside, Without, GoneInv

LEMMA GoneCallStep ==
  ASSUME TypeOK, GoneInv, NEW u \in Users, CallStep(u)
  PROVE  GoneInv'
<1> PICK t \in Targets :
    \/ GrantReads(u, t) \/ GrantRefuses(u, t) \/ GrantCannotRead(u, t)
    \/ RepairSkips(u, t) \/ GrantEdits(u, t) \/ GrantEditFails(u, t)
    \/ RevokeReads(u, t) \/ RevokeSkips(u, t) \/ RevokeCannotRead(u, t)
    \/ RevokeEdits(u, t) \/ RevokeEditFails(u, t)
  BY DEF CallStep
<1>1. gone' = gone
  BY CallStepKeeps
<1>2. CASE live' = live
  BY <1>1, <1>2 DEF GoneInv
<1>3. CASE live' = [live EXCEPT ![u] = @ \ {t}]
  BY <1>1, <1>3 DEF GoneInv, TypeOK
<1>4. CASE live' = [live EXCEPT ![u] = @ \cup {t}] /\ (t \notin gone \/ t \in live[u])
  BY <1>1, <1>4 DEF GoneInv, TypeOK
<1>5. CASE GrantReads(u, t) \/ GrantRefuses(u, t) \/ GrantCannotRead(u, t)
           \/ RevokeReads(u, t) \/ RevokeCannotRead(u, t)
  BY <1>2, <1>5 DEF GrantReads, GrantRefuses, GrantCannotRead, RevokeReads,
                    RevokeCannotRead, vars
<1>6. CASE RepairSkips(u, t) \/ GrantEdits(u, t) \/ GrantEditFails(u, t)
  BY <1>2, <1>4, <1>6 DEF RepairSkips, GrantEdits, GrantEditFails, Gives, vars
<1>7. CASE RevokeSkips(u, t) \/ RevokeEdits(u, t) \/ RevokeEditFails(u, t)
  BY <1>2, <1>3, <1>7 DEF RevokeSkips, RevokeEdits, RevokeEditFails, Takes, vars
<1>8. QED
  BY <1>5, <1>6, <1>7

LEMMA GoneOperators ==
  ASSUME TypeOK, BotType, GoneInv, Operators
  PROVE  GoneInv'
<1> PICK t \in Targets :
    Deletes(t) \/ \E u \in Users : Denies(u, t) \/ RemovesDenial(u, t) \/ Strays(u, t)
  BY DEF Operators
<1>1. CASE Deletes(t)
  BY <1>1 DEF Deletes, TakenOutside, Without, TypeOK, GoneInv
<1>2. ASSUME NEW u \in Users, Denies(u, t) PROVE GoneInv'
  <2>1. gone' = gone /\ (TakenOutside({u}, t) \/ live' = live)
    BY <1>2 DEF Denies, vars
  <2>2. QED
    BY <2>1, TakenShrinks DEF GoneInv
<1>3. ASSUME NEW u \in Users, RemovesDenial(u, t) PROVE GoneInv'
  BY <1>3 DEF RemovesDenial, vars, GoneInv
<1>4. ASSUME NEW u \in Users, Strays(u, t) PROVE GoneInv'
  BY <1>4 DEF Strays, GivenOutside, botVars, TypeOK, GoneInv
<1>5. QED
  BY <1>1, <1>2, <1>3, <1>4

LEMMA GoneCommand ==
  ASSUME TypeOK, RetireInv, GoneInv, Decommission
  PROVE  GoneInv'
<1>1. gone' = gone
  BY CommandIsOffline
<1>2. CASE live' = live
  BY <1>1, <1>2 DEF GoneInv
<1>3. CASE \E u \in Users : DcClears(u) \/ DcClearFails(u)
  <2>1. PICK u \in Users : TakenOutside({u}, retiring.chan) \/ live' = live
    BY <1>3 DEF DcClears, DcClearFails, vars
  <2>2. QED
    BY <1>1, <1>2, <2>1, TakenShrinks
<1>4. QED
  BY <1>2, <1>3 DEF Decommission, DcStarts, DcReads, DcSkips, DcAsserted, DcRetires,
                    DcEnds, RetireRows, vars

LEMMA GoneNext ==
  ASSUME CoverInv, BotInv, [BotNext]_allVars
  PROVE  GoneInv'
<1>1. TypeOK /\ BotType /\ GoneInv /\ RetireInv
  BY DEF CoverInv, TypeInv, BotInv
<1>2. (UNCHANGED <<gone, live>>) => GoneInv'
  BY <1>1 DEF GoneInv
<1>3. ASSUME NEW u \in Users, Submit(u) \/ Repair(u) \/ Visit(u) \/ Return(u)
      PROVE  GoneInv'
  <2>1. gone' = gone
    BY <1>3 DEF Submit, Repair, Visit, Return, beside
  <2>2. CASE Return(u)
    BY <1>1, <1>2, <2>1, <2>2, ReturnResumes, ResumeEffect DEF rest
  <2>3. QED
    BY <1>2, <1>3, <2>1, <2>2 DEF Submit, GrantStarts, Repair, Admit, Visit, SweepVisits
<1>4. ASSUME NEW u \in Users, CallStep(u) PROVE GoneInv'
  BY <1>1, <1>4, GoneCallStep
<1>5. ASSUME NEW p \in Passes, PassStep(p) PROVE GoneInv'
  <2>1. gone' = gone
    BY <1>5, PassStepKeeps
  <2>2. live' = live \/ TakenOutside({pass[p].who}, pass[p].chan)
    BY <1>5 DEF PassStep, PassStarts, PassReads, PassEdits, PassEditFails,
       PassEntersChannel, PassThrows, PassEnds, PassJudges, Asked, vars
  <2>3. QED
    BY <1>1, <1>2, <2>1, <2>2, TakenShrinks
<1>6. CASE Operators
  BY <1>1, <1>6, GoneOperators
<1>7. CASE Decommission
  BY <1>1, <1>7, GoneCommand
<1>8. CASE SweepDue \/ BotBoots \/ BotCrashes \/ (\E c \in adapter.configs : BotOpens(c))
           \/ (\E t \in Time : SetClock(t) /\ UNCHANGED botVars) \/ UNCHANGED allVars
  BY <1>2, <1>8 DEF SweepDue, Sweep, BotBoots, Boot, Import, Rename, Bind, BotCrashes,
     Crash, BotOpens, Open, SetClock, allVars, botVars, vars
<1>9. QED
  BY <1>3, <1>4, <1>5, <1>6, <1>7, <1>8 DEF BotNext

------------------------------------------------------------------------------
(* The calls. *)

LEMMA CallKept ==
  ASSUME NEW v \in Users, CallInv(v), call'[v] = call[v], op'[v] = op[v],
         op[v].phase = "apply" => denied'[v] \subseteq denied[v]
  PROVE  CallInv(v)'
<1>1. mutated(v)' = mutated(v)
  BY DEF mutated
<1>2. QED
  BY <1>1 DEF CallInv, CallFits, Shows

LEMMA FreshCall ==
  ASSUME BotType, NEW u \in Users, Fresh(u),
         op'[u].phase = "apply" =>
           op'[u].todo \subseteq op'[u].rec.targets /\ ~op'[u].sent,
         \A v \in Users : v # u => op'[v] = op[v],
         \A v \in Users : CallInv(v), denied' = denied
  PROVE  \A v \in Users : CallInv(v)'
<1>1. call'[u] = NoCall /\ \A v \in Users : v # u => call'[v] = call[v]
  BY DEF Fresh, BotType
<1>2. CallInv(u)'
  BY <1>1, BotFacts DEF CallInv, CallFits, Shows
<1>3. ASSUME NEW v \in Users, v # u PROVE CallInv(v)'
  BY <1>1, <1>3, CallKept
<1>4. QED
  BY <1>2, <1>3

LEMMA WrittenTargets ==
  ASSUME TypeOK, NEW u \in Users, NEW r \in Records, NEW p \in Records,
         WriteAndApply(u, r, p)
  PROVE  op'[u].phase = "apply" =>
           op'[u].todo \subseteq op'[u].rec.targets /\ ~op'[u].sent
<1>1. Written(u, r, p) \/ Unwritten(u)
  BY WriteEffect
<1>2. QED
  BY <1>1 DEF Written, Unwritten

LEMMA CallSubmit ==
  ASSUME TypeOK, BotType, \A v \in Users : CallInv(v), NEW u \in Users, Submit(u)
  PROVE  \A v \in Users : CallInv(v)'
<1>1. GrantStarts(u) /\ Fresh(u) /\ denied' = denied
  BY DEF Submit, beside
<1>2. \A v \in Users : v # u => op'[v] = op[v]
  BY <1>1, GrantEffect
<1>3. op[u].phase = "idle"
  BY <1>1, EmptyTypes DEF GrantStarts, MayStart
<1>4. PICK t \in Time : \/ GrantTooLate(u, Offer(t))
                        \/ GrantMigrates(u, Offer(t))
                        \/ GrantWrites(u, Offer(t))
  BY <1>1 DEF GrantStarts
<1>5. Offer(t) \in Records /\ grants[u] \in Records
  BY FileTypes DEF TypeOK
<1>6. op'[u].phase = "apply" =>
        op'[u].todo \subseteq op'[u].rec.targets /\ ~op'[u].sent
  <2>1. CASE GrantTooLate(u, Offer(t))
    BY <1>3, <2>1 DEF GrantTooLate
  <2>2. CASE GrantMigrates(u, Offer(t))
    <3>1. op' = op \/ op'[u].phase = "migrate"
      BY <2>2 DEF GrantMigrates, Call, TypeOK
    <3>2. QED
      BY <1>3, <3>1
  <2>3. CASE GrantWrites(u, Offer(t))
    BY <1>5, <2>3, WrittenTargets DEF GrantWrites
  <2>4. QED
    BY <1>4, <2>1, <2>2, <2>3
<1>7. QED
  BY <1>1, <1>2, <1>6, FreshCall

LEMMA CallReturn ==
  ASSUME TypeOK, BotInv, NEW u \in Users, Return(u)
  PROVE  \A v \in Users : CallInv(v)'
<1>1. Resume(u) /\ Fresh(u) /\ denied' = denied
  BY ReturnResumes DEF Return, beside
<1>2. \A v \in Users : v # u => op'[v] = op[v]
  BY <1>1, ResumeEffect
<1>3. op[u].rec \in Records /\ op[u].prev \in Records
  BY DEF TypeOK
<1>4. op'[u].phase = "apply" =>
        op'[u].todo \subseteq op'[u].rec.targets /\ ~op'[u].sent
  <2>1. CASE Migrated(u)
    BY <1>3, <2>1, WrittenTargets DEF Migrated
  <2>2. CASE ApplyFailsUndone(u)
    BY <2>2 DEF ApplyFailsUndone, Call, TypeOK
  <2>3. CASE Settle(u)
    BY <2>3, SettleEffect
  <2>4. QED
    BY <1>1, <2>1, <2>2, <2>3 DEF Resume, MigrateFails, Applied, ApplyRefused,
       RefusalTaken, ApplyFailsKept, TakenBack, TakeBackFails, AdmitSettles
<1>5. QED
  BY <1>1, <1>2, <1>4, FreshCall DEF BotInv

LEMMA CallCallStep ==
  ASSUME TypeOK, BotType, \A v \in Users : CallInv(v), NEW u \in Users, CallStep(u)
  PROVE  \A v \in Users : CallInv(v)'
<1> PICK t \in Targets :
    \/ GrantReads(u, t) \/ GrantRefuses(u, t) \/ GrantCannotRead(u, t)
    \/ RepairSkips(u, t) \/ GrantEdits(u, t) \/ GrantEditFails(u, t)
    \/ RevokeReads(u, t) \/ RevokeSkips(u, t) \/ RevokeCannotRead(u, t)
    \/ RevokeEdits(u, t) \/ RevokeEditFails(u, t)
  BY DEF CallStep
<1>1. t # None /\ CallFits(u) /\ Shows(u)
  BY BotFacts DEF CallInv, CallFits, Shows
<1>2. ASSUME NEW v \in Users, v # u PROVE CallInv(v)'
  <2>1. call'[v] = call[v]
    BY <1>2 DEF GrantReads, GrantRefuses, GrantCannotRead, RepairSkips, GrantEdits,
       GrantEditFails, RevokeReads, RevokeSkips, RevokeCannotRead, RevokeEdits,
       RevokeEditFails, botVars, beside, GivesUp, BotType
  <2>2. op'[v] = op[v]
    BY <1>2 DEF GrantReads, GrantRefuses, GrantCannotRead, RepairSkips, GrantEdits,
       GrantEditFails, RevokeReads, RevokeSkips, RevokeCannotRead, RevokeEdits,
       RevokeEditFails, Gives, Takes, vars, TypeOK
  <2>3. denied'[v] = denied[v]
    BY <1>2 DEF GrantReads, GrantRefuses, GrantCannotRead, RepairSkips, GrantEdits,
       GrantEditFails, RevokeReads, RevokeSkips, RevokeCannotRead, RevokeEdits,
       RevokeEditFails, botVars, beside, BotType
  <2>4. QED
    BY <2>1, <2>2, <2>3, CallKept
<1> DEFINE c == call[u]
           o == op[u]
<1>3. CASE GrantReads(u, t)
  <2>1. /\ call'[u].at = t /\ call'[u].bad = c.bad /\ call'[u].refused = c.refused
        /\ t \notin c.bad /\ op' = op /\ denied' = denied
    BY <1>3 DEF GrantReads, AtChannel, BotType, vars, beside
  <2>2. QED
    BY <1>1, <1>2, <2>1 DEF CallInv, CallFits, Shows, mutated
<1>4. CASE GrantRefuses(u, t)
  <2>1. /\ call'[u].at = c.at /\ call'[u].bad = c.bad \cup {t}
        /\ call'[u].refused = c.refused \cup {t} /\ c.at = None
        /\ t \in denied[u] /\ t \notin c.bad /\ op' = op /\ denied' = denied
    BY <1>4 DEF GrantRefuses, AtChannel, BotType, vars, beside
  <2>2. mutated(u) => mutated(u)'
    BY <1>1, <2>1 DEF mutated, CallFits
  <2>3. QED
    BY <1>1, <1>2, <2>1, <2>2 DEF CallInv, CallFits, Shows
<1>5. CASE op' = op /\ GivesUp(u, t) /\ denied'[u] \subseteq denied[u] /\ t \notin c.bad
  <2>1. /\ call'[u].at = None /\ call'[u].bad = c.bad \cup {t}
        /\ call'[u].refused = c.refused
    BY <1>5 DEF GivesUp, BotType
  <2>2. mutated(u)'
    BY <1>1, <1>5, <2>1 DEF mutated, CallFits
  <2>3. QED
    BY <1>1, <1>2, <1>5, <2>1, <2>2 DEF CallInv, CallFits, Shows
<1>6. CASE GrantCannotRead(u, t)
  BY <1>5, <1>6 DEF GrantCannotRead, AtChannel, vars, beside
<1>7. CASE RepairSkips(u, t) \/ RevokeSkips(u, t)
  <2>1. call' = call /\ op'[u].phase # "apply"
    BY <1>7 DEF RepairSkips, RevokeSkips, Gives, Takes, Taking, botVars, TypeOK
  <2>2. QED
    BY <1>1, <1>2, <2>1 DEF CallInv, CallFits, Shows
<1>8. CASE GrantEdits(u, t)
  <2>1. /\ call'[u].at = None /\ call'[u].bad = c.bad /\ call'[u].refused = c.refused
    BY <1>8 DEF GrantEdits, BotType
  <2>2. /\ op'[u].phase = o.phase /\ op'[u].rec = o.rec /\ t \in o.todo
        /\ op'[u].todo = o.todo \ {t}
    BY <1>8 DEF GrantEdits, Gives, TypeOK
  <2>3. o.phase = "apply" => mutated(u)'
    BY <1>1, <2>2 DEF Shows, mutated
  <2>4. QED
    BY <1>1, <1>2, <2>1, <2>2, <2>3 DEF CallInv, CallFits, Shows
<1>9. CASE GrantEditFails(u, t)
  <2>1. t \notin c.bad /\ denied'[u] \subseteq denied[u] /\ c.at = t
    BY <1>1, <1>9 DEF GrantEditFails, CallFits, BotType
  <2>2. /\ op'[u].phase = o.phase /\ op'[u].rec = o.rec /\ op'[u].todo = o.todo
        /\ op'[u].sent = o.sent \/ (t \in o.todo /\ t \notin denied'[u])
    BY <1>9 DEF GrantEditFails, Gives, TypeOK, BotType, vars
  <2>3. CASE GivesUp(u, t)
    <3>1. /\ call'[u].at = None /\ call'[u].bad = c.bad \cup {t}
          /\ call'[u].refused = c.refused
      BY <2>3 DEF GivesUp, BotType
    <3>2. mutated(u)'
      BY <1>1, <2>1, <3>1 DEF mutated, CallFits
    <3>3. QED
      BY <1>1, <1>2, <2>2, <3>1, <3>2 DEF CallInv, CallFits, Shows
  <2>4. CASE call' = [call EXCEPT ![u].at = None]
    <3>1. /\ call'[u].at = None /\ call'[u].bad = c.bad /\ call'[u].refused = c.refused
      BY <2>4 DEF BotType
    <3>2. mutated(u)' = mutated(u)
      BY <2>2, <3>1 DEF mutated
    <3>3. QED
      BY <1>1, <1>2, <2>1, <2>2, <3>1, <3>2 DEF CallInv, CallFits, Shows
  <2>5. QED
    BY <1>9, <2>3, <2>4 DEF GrantEditFails
<1>10. CASE RevokeReads(u, t)
  <2>1. /\ call'[u].at = t /\ call'[u].bad = c.bad /\ call'[u].refused = c.refused
        /\ t \notin c.bad /\ op' = op /\ o.phase # "apply"
    BY <1>10 DEF RevokeReads, Taking, AtChannel, BotType, vars, beside
  <2>2. QED
    BY <1>1, <1>2, <2>1 DEF CallInv, CallFits, Shows
<1>11. CASE RevokeCannotRead(u, t)
  <2>1. AtChannel(u, t) /\ GivesUp(u, t) /\ UNCHANGED <<vars, beside>>
    BY <1>11 DEF RevokeCannotRead
  <2>2. QED
    BY <1>5, <1>11, <2>1 DEF AtChannel, vars, beside
<1>12. CASE RevokeEdits(u, t) \/ RevokeEditFails(u, t)
  <2>1. /\ call'[u].at = None /\ call'[u].bad \in {c.bad, c.bad \cup {t}}
        /\ call'[u].refused = c.refused
    BY <1>12 DEF RevokeEdits, RevokeEditFails, GivesUp, BotType
  <2>2. op'[u].phase # "apply"
    <3>1. CASE RevokeEdits(u, t)
      <4>1. op[u].phase # "apply" /\ op' = [op EXCEPT ![u].todo = @ \ {t}]
        BY <3>1 DEF RevokeEdits, Takes, Taking
      <4>2. QED
        BY <4>1 DEF TypeOK
    <3>2. CASE RevokeEditFails(u, t)
      BY <3>2 DEF RevokeEditFails, Takes, Taking, TypeOK, vars
    <3>3. QED
      BY <1>12, <3>1, <3>2
  <2>3. QED
    BY <1>1, <1>2, <2>1, <2>2 DEF CallInv, CallFits, Shows
<1>13. QED
  BY <1>3, <1>4, <1>6, <1>7, <1>8, <1>9, <1>10, <1>11, <1>12

(* Nobody denies a bit while a call of the member is in flight. *)
LEMMA CallOperators ==
  ASSUME ~DenialsRace, BotType, \A v \in Users : CallInv(v), Operators
  PROVE  \A v \in Users : CallInv(v)'
<1> SUFFICES ASSUME NEW v \in Users PROVE CallInv(v)'
  OBVIOUS
<1>1. op' = op /\ call' = call
  BY OperatorsKeep
<1>2. op[v].phase = "apply" => denied'[v] \subseteq denied[v]
  <2>0. denied \in [Users -> SUBSET Targets]
    BY DEF BotType
  <2>1. ASSUME NEW t \in Targets, Deletes(t) PROVE denied'[v] \subseteq denied[v]
    BY <2>1 DEF Deletes
  <2>2. ASSUME NEW u \in Users, NEW t \in Targets, Denies(u, t), op[v].phase = "apply"
        PROVE  denied'[v] \subseteq denied[v]
    <3>1. op[u] = Idle /\ u # v
      BY <2>2, EmptyTypes DEF Denies
    <3>2. denied' = [denied EXCEPT ![u] = @ \cup {t}]
      BY <2>2 DEF Denies
    <3>3. QED
      BY <2>0, <3>1, <3>2
  <2>3. ASSUME NEW u \in Users, NEW t \in Targets, RemovesDenial(u, t)
        PROVE  denied'[v] \subseteq denied[v]
    <3>1. denied' = [denied EXCEPT ![u] = @ \ {t}]
      BY <2>3 DEF RemovesDenial
    <3>2. QED
      BY <2>0, <3>1
  <2>4. ASSUME NEW u \in Users, NEW t \in Targets, Strays(u, t)
        PROVE  denied'[v] \subseteq denied[v]
    BY <2>4 DEF Strays, botVars
  <2>5. QED
    BY <2>1, <2>2, <2>3, <2>4 DEF Operators
<1>3. QED
  BY <1>1, <1>2, CallKept

LEMMA CallNext ==
  ASSUME ~DenialsRace, CoverInv, BotInv, [BotNext]_allVars
  PROVE  \A v \in Users : CallInv(v)'
<1>1. TypeOK /\ BotType /\ RetireInv /\ StartInv /\ \A v \in Users : CallInv(v)
  BY DEF CoverInv, TypeInv, BotInv
<1>2. (UNCHANGED <<op, call, denied>>) => \A v \in Users : CallInv(v)'
  BY <1>1, CallKept
<1>3. ASSUME NEW u \in Users, Submit(u) PROVE \A v \in Users : CallInv(v)'
  BY <1>1, <1>3, CallSubmit
<1>4. ASSUME NEW u \in Users, Repair(u) \/ Visit(u) PROVE \A v \in Users : CallInv(v)'
  <2>1. (Admit(u) \/ SweepVisits(u)) /\ Fresh(u) /\ denied' = denied
    BY <1>4 DEF Repair, Visit, beside
  <2>2. op[u].phase = "idle"
    BY <2>1, EmptyTypes DEF Admit, SweepVisits
  <2>3. QED
    BY <1>1, <2>1, <2>2, VisitKeeps, FreshCall
<1>5. ASSUME NEW u \in Users, Return(u) PROVE \A v \in Users : CallInv(v)'
  BY <1>1, <1>5, CallReturn
<1>6. ASSUME NEW u \in Users, CallStep(u) PROVE \A v \in Users : CallInv(v)'
  BY <1>1, <1>6, CallCallStep
<1>7. ASSUME NEW p \in Passes, PassStep(p) PROVE \A v \in Users : CallInv(v)'
  BY <1>2, <1>7, PassStepKeeps
<1>8. CASE Operators
  BY <1>1, <1>8, CallOperators
<1>9. CASE Decommission
  BY <1>1, <1>2, <1>9, CommandIsOffline
<1>10. CASE BotCrashes
  <2>1. ASSUME NEW v \in Users PROVE call'[v] = NoCall /\ op'[v].phase = "idle"
    BY <1>10, EmptyTypes DEF BotCrashes, Crash
  <2>2. QED
    BY <2>1, BotFacts DEF CallInv, CallFits, Shows
<1>11. CASE SweepDue \/ BotBoots \/ (\E c \in adapter.configs : BotOpens(c))
            \/ (\E t \in Time : SetClock(t) /\ UNCHANGED botVars) \/ UNCHANGED allVars
  BY <1>2, <1>11 DEF SweepDue, Sweep, BotBoots, Boot, Import, Rename, Bind, BotOpens,
     Open, SetClock, allVars, botVars, vars
<1>12. QED
  BY <1>3, <1>4, <1>5, <1>6, <1>7, <1>8, <1>9, <1>10, <1>11 DEF BotNext

------------------------------------------------------------------------------
(* The decommission command. *)

(* What a member has by the ledger, of a target of the command it has dealt
   with, is on record as kept or about to be cleared. *)
Accounted ==
  \A u \in Users : \A t \in (retiring.ids \ retiring.todo) \cap (live[u] \ stray[u]) :
    <<u, t>> \in retiring.kept \/ (t = retiring.chan /\ u \in retiring.holders)

(* The same holds when access is taken away, or given by hand. *)
LEMMA AccountKept ==
  ASSUME RetireInv, UNCHANGED <<adapter, scope, retiring>>, retiring.on => up' = up,
         retiring.on => \A u \in Users : live'[u] \ stray'[u] \subseteq live[u] \ stray[u]
  PROVE  RetireInv'
  BY DEF RetireInv, Ours

LEMMA TakenAway ==
  ASSUME TypeOK, NEW us, NEW t, TakenOutside(us, t), NEW u \in Users
  PROVE  live'[u] \ stray'[u] \subseteq live[u] \ stray[u]
  BY DEF TypeOK, TakenOutside, Without

LEMMA RetireOperators ==
  ASSUME TypeOK, RetireInv, Operators
  PROVE  RetireInv'
<1> PICK t \in Targets :
    Deletes(t) \/ \E u \in Users : Denies(u, t) \/ RemovesDenial(u, t) \/ Strays(u, t)
  BY DEF Operators
<1>1. UNCHANGED <<adapter, scope, up, retiring>>
  BY OperatorsKeep DEF elsewhere
<1>2. ASSUME NEW u \in Users PROVE live'[u] \ stray'[u] \subseteq live[u] \ stray[u]
  <2>1. CASE Deletes(t)
    BY <2>1, TakenAway DEF Deletes
  <2>2. CASE \E v \in Users : Denies(v, t)
    BY <2>2, TakenAway DEF Denies, vars
  <2>3. CASE \E v \in Users : RemovesDenial(v, t)
    BY <2>3 DEF RemovesDenial, vars
  <2>4. CASE \E v \in Users : Strays(v, t)
    BY <2>4 DEF Strays, GivenOutside, TypeOK
  <2>5. QED
    BY <2>1, <2>2, <2>3, <2>4
<1>3. QED
  BY <1>1, <1>2, AccountKept

LEMMA RetireCommand ==
  ASSUME TypeOK, PlaceInv, BotType, GoneInv, RetireInv, Decommission
  PROVE  RetireInv'
<1>1. /\ up = "down" /\ UNCHANGED <<adapter, scope, up>>
      /\ retiring.on => (Ours(retiring.place) => Accounted)
      /\ scope # NoScope => adapter.scoped
  BY CommandIsOffline DEF RetireInv, Accounted
<1>2. CASE retiring' = NoRetiring
  BY <1>1, <1>2, BotFacts DEF RetireInv
<1>3. ASSUME NEW place \in Places, NEW ids \in SUBSET Targets, NEW sure \in BOOLEAN,
             DcStarts(place, ids, sure)
      PROVE  RetireInv'
  <2>1. scope # NoScope /\ retiring'.on /\ retiring'.holders = {}
        /\ retiring'.ids = ids /\ retiring'.todo = ids
    BY <1>3 DEF DcStarts, NoRetiring
  <2>2. QED
    BY <1>1, <2>1 DEF RetireInv
<1>4. ASSUME NEW t \in Targets, DcReads(t) \/ DcSkips(t) \/ DcAsserted(t) PROVE RetireInv'
  <2>1. /\ DcAt(t) /\ retiring.holders = {} /\ t \in retiring.todo
        /\ UNCHANGED <<live, stray>>
    BY <1>4, FirstIsOne DEF DcReads, DcSkips, DcAsserted, DcAt, vars
  <2>2. /\ retiring.on /\ scope # NoScope /\ retiring.todo \subseteq retiring.ids
        /\ retiring \in RetiringType
    BY <2>1, BotFacts DEF RetireInv, NoRetiring, BotType
  <2>3. /\ retiring'.on /\ retiring'.ids = retiring.ids
        /\ retiring'.place = retiring.place /\ retiring'.todo = retiring.todo \ {t}
    BY <1>4, <2>2 DEF DcReads, DcSkips, DcAsserted, RetiringType
  <2>4. CASE DcReads(t)
    <3>1. /\ retiring'.chan = t /\ retiring'.kept = retiring.kept
          /\ retiring'.holders = {u \in Users : t \in live[u]}
      BY <2>2, <2>4 DEF DcReads, RetiringType
    <3>2. Ours(retiring.place) => Accounted'
      BY <1>1, <2>1, <2>2, <2>3, <3>1 DEF Accounted
    <3>3. QED
      BY <1>1, <2>2, <2>3, <3>1, <3>2 DEF RetireInv, Accounted, Ours
  <2>5. CASE DcSkips(t)
    <3>1. /\ retiring'.holders = {} /\ retiring'.kept = retiring.kept \cup (Users \X {t})
      BY <2>1, <2>2, <2>5 DEF DcSkips, RetiringType
    <3>2. Ours(retiring.place) => Accounted'
      BY <1>1, <2>1, <2>2, <2>3, <3>1 DEF Accounted
    <3>3. QED
      BY <1>1, <2>2, <2>3, <3>1, <3>2 DEF RetireInv, Accounted, Ours
  <2>6. CASE DcAsserted(t)
    <3>1. /\ retiring'.holders = {} /\ retiring'.kept = retiring.kept
      BY <2>1, <2>2, <2>6 DEF DcAsserted, RetiringType
    <3>2. Ours(retiring.place) => \A u \in Users : t \notin live[u] \ stray[u]
      <4>1. t \in gone \/ PlaceOf[t] # retiring.place
        BY <2>6 DEF DcAsserted, NotFound
      <4>2. Ours(retiring.place) => retiring.place = scope
        BY DEF Ours
      <4>3. \A u \in Users : \A x \in live[u] \ stray[u] : PlaceOf[x] = scope
        BY <1>1, <2>2 DEF PlaceInv
      <4>4. QED
        BY <4>1, <4>2, <4>3 DEF GoneInv
    <3>3. Ours(retiring.place) => Accounted'
      <4>1. ASSUME Ours(retiring.place), NEW u \in Users,
                   NEW x \in (retiring'.ids \ retiring'.todo) \cap (live[u] \ stray[u])
            PROVE  <<u, x>> \in retiring'.kept
        <5>1. x # t
          BY <3>2, <4>1
        <5>2. x \in (retiring.ids \ retiring.todo) \cap (live[u] \ stray[u])
          BY <2>3, <4>1, <5>1
        <5>3. <<u, x>> \in retiring.kept \/ u \in retiring.holders
          BY <1>1, <2>2, <4>1, <5>2 DEF Accounted
        <5>4. QED
          BY <2>1, <3>1, <5>3
      <4>2. QED
        BY <2>1, <4>1 DEF Accounted
    <3>4. QED
      BY <1>1, <2>2, <2>3, <3>1, <3>3 DEF RetireInv, Accounted, Ours
  <2>7. QED
    BY <1>4, <2>4, <2>5, <2>6
<1>5. ASSUME NEW u \in Users, DcClears(u) \/ DcClearFails(u) PROVE RetireInv'
  <2>1. u \in retiring.holders
    BY <1>5 DEF DcClears, DcClearFails
  <2>2. /\ retiring.on /\ scope # NoScope /\ retiring.chan \in Targets
        /\ retiring.todo \subseteq retiring.ids /\ retiring \in RetiringType
    BY <2>1, BotFacts DEF RetireInv, NoRetiring, BotType
  <2>3. /\ retiring'.on /\ retiring'.ids = retiring.ids /\ retiring'.todo = retiring.todo
        /\ retiring'.place = retiring.place /\ retiring'.chan = retiring.chan
        /\ retiring'.holders = retiring.holders \ {u}
        /\ retiring.kept \subseteq retiring'.kept
    BY <1>5, <2>2 DEF DcClears, DcClearFails, RetiringType
  <2>4. /\ TakenOutside({u}, retiring.chan) \/ UNCHANGED <<live, stray>>
        /\ \A v \in Users : live'[v] \ stray'[v] \subseteq live[v] \ stray[v]
    <3>1. TakenOutside({u}, retiring.chan) \/ UNCHANGED <<live, stray>>
      BY <1>5 DEF DcClears, DcClearFails, vars
    <3>2. QED
      BY <3>1, TakenAway
  <2>5. retiring.chan \notin live'[u] \/ <<u, retiring.chan>> \in retiring'.kept
    <3>1. CASE DcClears(u)
      BY <2>2, <3>1 DEF DcClears, TakenOutside, Without
    <3>2. CASE DcClearFails(u)
      BY <2>2, <3>2 DEF DcClearFails, RetiringType
    <3>3. QED
      BY <1>5, <3>1, <3>2
  <2>6. Ours(retiring.place) => Accounted'
    <3>1. SUFFICES ASSUME Ours(retiring.place), NEW v \in Users,
                          NEW t \in (retiring.ids \ retiring.todo) \cap (live'[v] \ stray'[v])
                   PROVE  <<v, t>> \in retiring'.kept
                          \/ (t = retiring.chan /\ v \in retiring.holders \ {u})
      BY <2>3 DEF Accounted
    <3>2. <<v, t>> \in retiring.kept \/ (t = retiring.chan /\ v \in retiring.holders)
      BY <1>1, <2>2, <2>4, <3>1 DEF Accounted
    <3>3. QED
      BY <2>3, <2>5, <3>1, <3>2
  <2>7. QED
    BY <1>1, <2>2, <2>3, <2>6 DEF RetireInv, Accounted, Ours
<1>6. QED
  BY <1>2, <1>3, <1>4, <1>5 DEF Decommission, DcRetires, DcEnds

LEMMA RetireNext ==
  ASSUME CoverInv, BotInv, [BotNext]_allVars
  PROVE  RetireInv'
<1>1. TypeOK /\ PlaceInv /\ BotType /\ GoneInv /\ RetireInv
  BY DEF CoverInv, TypeInv, BotInv
<1>2. CASE /\ up # "down" \/ UNCHANGED <<live, stray, up>>
           /\ UNCHANGED <<adapter, scope, retiring>>
  BY <1>1, <1>2, AccountKept DEF RetireInv
<1>3. ASSUME NEW u \in Users,
             Submit(u) \/ Repair(u) \/ Visit(u) \/ Return(u)
      PROVE  RetireInv'
  <2>1. CASE Return(u)
    <3>1. Resume(u) /\ retiring' = retiring
      BY <1>1, <2>1, ReturnResumes DEF Return, beside
    <3>2. UNCHANGED rest
      BY <1>1, <3>1, ResumeEffect
    <3>3. QED
      BY <1>2, <3>1, <3>2 DEF rest
  <2>2. QED
    BY <1>2, <1>3, <2>1 DEF Submit, GrantStarts, Repair, Admit, Visit, SweepVisits, beside
<1>4. ASSUME NEW u \in Users, CallStep(u) PROVE RetireInv'
  <2>1. UNCHANGED <<adapter, scope, retiring, up>>
    BY <1>1, <1>4, CallStepKeeps DEF elsewhere
  <2>2. CASE up # "down"
    BY <1>2, <2>1, <2>2
  <2>3. CASE up = "down"
    <3>1. op[u].phase = "idle"
      BY <2>3 DEF CoverInv, StartInv
    <3>2. ~Giving(u) /\ ~Taking(u) /\ op[u].phase # "admit"
      BY <3>1 DEF Giving, Taking
    <3>3. QED
      BY <1>4, <3>2 DEF CallStep, GrantReads, GrantRefuses, GrantCannotRead, RepairSkips,
         GrantEdits, GrantEditFails, RevokeReads, RevokeSkips, RevokeCannotRead,
         RevokeEdits, RevokeEditFails
  <2>4. QED
    BY <2>2, <2>3
<1>5. ASSUME NEW p \in Passes, PassStep(p) PROVE RetireInv'
  <2>1. UNCHANGED <<adapter, scope, up, retiring>>
    BY <1>5, PassStepKeeps
  <2>2. up = "up"
    <3>1. pass[p].on \/ PassStarts(p) \/ \E u \in Users : PassJudges(p, u)
      BY <1>5 DEF BotInv, PassInv, PassFits, PassStep, PassReads, PassEdits, PassEditFails,
         PassEntersChannel, PassThrows, PassEnds, ChannelDone
    <3>2. QED
      BY <3>1 DEF PassStarts, PassJudges, Asked, BotInv, GateInv
  <2>3. QED
    BY <1>2, <2>1, <2>2
<1>6. CASE Operators
  BY <1>1, <1>6, RetireOperators
<1>7. CASE Decommission
  BY <1>1, <1>7, RetireCommand
<1>8. CASE \E c \in adapter.configs : BotOpens(c)
  <2>1. PICK c \in adapter.configs : BotOpens(c)
    BY <1>8
  <2>2. ~retiring.on /\ UNCHANGED <<adapter, retiring>>
    BY <2>1 DEF BotOpens, Open, botVars
  <2>3. scope' # NoScope => adapter.scoped
    BY <1>1, <2>1 DEF BotOpens, Open, ScopeOf, RetireInv
  <2>4. QED
    BY <1>1, <2>2, <2>3 DEF RetireInv
<1>9. CASE BotBoots
  <2>1. up # "down" /\ UNCHANGED <<adapter, retiring>>
    BY <1>9 DEF BotBoots, Boot, Import, Rename, Bind, botVars
  <2>2. scope' # NoScope => adapter.scoped
    BY <1>1, <1>9 DEF BotBoots, Boot, Import, Rename, Bind, ScopeOf, db, RetireInv
  <2>3. QED
    BY <1>1, <2>1, <2>2 DEF RetireInv
<1>10. CASE SweepDue \/ BotCrashes
            \/ (\E t \in Time : SetClock(t) /\ UNCHANGED botVars) \/ UNCHANGED allVars
  <2>1. /\ up # "down" \/ UNCHANGED <<live, stray, up>>
        /\ UNCHANGED <<adapter, scope, retiring>>
    BY <1>10 DEF SweepDue, Sweep, BotCrashes, Crash, SetClock, allVars, botVars, vars, db
  <2>2. QED
    BY <1>2, <2>1
<1>11. QED
  BY <1>3, <1>4, <1>5, <1>6, <1>7, <1>8, <1>9, <1>10 DEF BotNext

------------------------------------------------------------------------------
(* The bot implements the ledger. *)

LEMMA BotNextInv ==
  ~DenialsRace /\ CoverInv /\ BotInv /\ [BotNext]_allVars =>
    CoverInv' /\ BotInv' /\ [Next]_vars
<1> SUFFICES ASSUME ~DenialsRace, CoverInv, BotInv, [BotNext]_allVars
             PROVE  CoverInv' /\ BotInv' /\ [Next]_vars
  OBVIOUS
<1>1. [Next]_vars
  BY BotStepRefines
<1>2. CoverInv'
  BY <1>1, CoverNext
<1>3. BotInv'
  BY BotTypeNext, GateNext, PassNext, GoneNext, RetireNext, CallNext DEF BotInv
<1>4. QED
  BY <1>1, <1>2, <1>3

LEMMA BotInvHolds == ~DenialsRace => (BotSpec => [](CoverInv /\ BotInv))
<1> SUFFICES ASSUME ~DenialsRace PROVE BotSpec => [](CoverInv /\ BotInv)
  OBVIOUS
<1>1. BotInit => CoverInv /\ BotInv
  BY CoverInit, BotStarts DEF BotInit
<1>2. CoverInv /\ BotInv /\ [BotNext]_allVars => (CoverInv /\ BotInv)'
  BY BotNextInv
<1>3. QED
  BY <1>1, <1>2, PTL DEF BotSpec

(* Unless a denial is set while a call is in flight, every behaviour of the
   bot is one of the ledger: its calls channel by channel, its passes beside
   the members' chains, deleted channels, stray grants and the command. *)
THEOREM BotIsALedger == ~DenialsRace => (BotSpec => ImplementsLedger)
<1> SUFFICES ASSUME ~DenialsRace PROVE BotSpec => Spec
  BY DEF ImplementsLedger
<1>1. BotInit => Init
  BY DEF BotInit
<1>2. CoverInv /\ BotInv /\ [BotNext]_allVars => [Next]_vars
  BY BotNextInv
<1>3. BotSpec => [](CoverInv /\ BotInv)
  BY BotInvHolds
<1>4. QED
  BY <1>1, <1>2, <1>3, PTL DEF BotSpec, Spec

(* So what is proved of every ledger holds of the bot: the row covers what a
   member can reach (grant_ledger.js:652), nobody is extended by a renewal that
   failed, and a deadline once called lapsed is never accepted. *)
THEOREM BotKeepsTheLedger ==
  ~DenialsRace =>
    (BotSpec => []AccessIsCovered /\ []NotExtended /\ LapsedStaysLapsed)
  BY BotIsALedger, AccessAlwaysCovered, NobodyExtended, LapsedNeverAccepted
     DEF ImplementsLedger

------------------------------------------------------------------------------
(* What the startup passes establish. *)

Clear(u, t) == t \in grants[u].targets /\ grants[u].ctx = conf.ctx

(* The record no longer authorizes the channel, and never will again while
   interactions stay closed: what has lapsed has lapsed for the clock mark. *)
Excluded(u, t) ==
  \/ t \notin grants[u].targets
  \/ grants[u].exp <= clockMark
  \/ grants[u].ctx # conf.ctx

(* While interactions are closed there are sweeps and repairs only: a repair
   gives what the record names for the context served, a sweep has dealt with
   what it has ticked off. *)
ClosedAt(u) ==
  /\ ~reconciled => op[u].phase \in {"idle", "sweep", "admit"}
  /\ op[u].phase = "admit" =>
       op[u].todo \subseteq grants[u].targets /\ grants[u].ctx = conf.ctx
  /\ op[u].phase = "sweep" =>
       /\ grants[u] = op[u].rec
       /\ \A t \in live[u] \cap grants[u].targets : t \in op[u].todo \/ ~Reachable(t)

ClosedInv == \A u \in Users : ClosedAt(u)

(* A pass that may open interactions has cleared the channels it has left
   behind, and whom it is about to clear is not authorized. *)
Settled(q, u, t) ==
  \/ t \in q.chans
  \/ t = q.chan /\ (u \in q.snap \/ u = q.who)
  \/ Clear(u, t)

SettlingAt(p) ==
  ~reconciled /\ pass[p].on =>
    /\ \A u \in Users : \A t \in grants[u].targets : Reachable(t)
    /\ pass[p].who # None => Excluded(pass[p].who, pass[p].chan)
    /\ pass[p].ready /\ ~pass[p].failed =>
         \A u \in Users : \A t \in live[u] \cap conf.targets : Settled(pass[p], u, t)

SettlingInv == \A p \in Passes : SettlingAt(p)

LEMMA ClosedKept ==
  ASSUME NEW v \in Users, ClosedAt(v), op'[v] = op[v], grants'[v] = grants[v],
         conf' = conf, adapter' = adapter, reconciled => reconciled',
         op[v].phase = "sweep" => live'[v] \subseteq live[v]
  PROVE  ClosedAt(v)'
<1>1. \A t : Reachable(t)' = Reachable(t)
  BY DEF Reachable
<1>2. QED
  BY <1>1 DEF ClosedAt

LEMMA ClosedIdle ==
  ASSUME NEW v \in Users, op'[v].phase = "idle"
  PROVE  ClosedAt(v)'
  BY DEF ClosedAt

(* A repair starts on what the record names, a sweep on the whole record. *)
LEMMA ClosedVisit ==
  ASSUME TypeOK, NEW u \in Users, ClosedAt(u), Admit(u) \/ SweepVisits(u),
         reconciled' = reconciled
  PROVE  ClosedAt(u)'
<1>1. op[u].phase = "idle"
  BY EmptyTypes DEF Admit, SweepVisits
<1>2. UNCHANGED <<adapter, grants, scope, up, conf, live, stray>>
  BY VisitKeeps
<1>3. CASE op' = op
  BY <1>1, <1>3, ClosedIdle
<1>4. CASE Admit(u) /\ op' # op
  <2>1. /\ op'[u].phase = "admit" /\ op'[u].todo = grants[u].targets \cap conf.targets
        /\ grants[u].ctx = conf.ctx
    BY <1>4 DEF Admit, Call, TypeOK
  <2>2. QED
    BY <1>2, <2>1 DEF ClosedAt
<1>5. CASE SweepVisits(u) /\ op' # op
  <2>1. /\ op'[u].phase = "sweep" /\ op'[u].todo = grants[u].targets
        /\ op'[u].rec = grants[u]
    BY <1>5 DEF SweepVisits, SweepSkips, SweepTakes, Call, TypeOK
  <2>2. QED
    BY <1>2, <2>1 DEF ClosedAt
<1>6. QED
  BY <1>3, <1>4, <1>5

LEMMA ClosedReturn ==
  ASSUME TypeOK, NEW u \in Users, ClosedAt(u), Resume(u), ~ApplyFailsUndone(u),
         reconciled' = reconciled
  PROVE  ClosedAt(u)'
<1>1. op[u].rec \in Records /\ op[u].prev \in Records
  BY DEF TypeOK
<1>2. CASE Migrated(u)
  <2>1. Written(u, op[u].rec, op[u].prev) \/ Unwritten(u)
    BY <1>1, <1>2, WriteEffect DEF Migrated
  <2>2. reconciled
    BY <1>2 DEF Migrated, ClosedAt
  <2>3. op'[u].phase \in {"apply", "idle"}
    BY <2>1 DEF Written, Unwritten
  <2>4. QED
    BY <2>2, <2>3 DEF ClosedAt
<1>3. CASE Settle(u)
  BY <1>3, SettleEffect, ClosedIdle
<1>4. QED
  BY <1>2, <1>3 DEF Resume, MigrateFails, Applied, ApplyRefused, RefusalTaken,
     ApplyFailsKept, TakenBack, TakeBackFails, AdmitSettles

LEMMA ClosedPlatform ==
  ASSUME TypeOK, NEW u \in Users, ClosedAt(u), reconciled' = reconciled,
         NEW t \in Targets, NEW learned \in BOOLEAN,
         Gives(u, t, learned) \/ Takes(u, t, learned)
  PROVE  ClosedAt(u)'
<1>1. UNCHANGED <<grants, conf, adapter>> /\ SameOps
  BY PlatformKeeps DEF elsewhere
<1>2. /\ op'[u].phase = op[u].phase /\ op'[u].rec = op[u].rec
      /\ op'[u].todo = (IF learned THEN op[u].todo \ {t} ELSE op[u].todo)
  <2>1. op \in [Users -> [phase : Phases, rec : Records, prev : Records,
                          todo : SUBSET Targets, sent : BOOLEAN]]
    BY DEF TypeOK
  <2>2. op'[u].todo = (IF learned THEN op[u].todo \ {t} ELSE op[u].todo)
    <3>1. CASE Gives(u, t, learned)
      <4>1. op' = [op EXCEPT ![u].sent = TRUE,
                             ![u].todo = IF learned THEN @ \ {t} ELSE @]
        BY <3>1 DEF Gives
      <4>2. QED
        BY <2>1, <4>1
    <3>2. CASE Takes(u, t, learned)
      <4>1. op' = [op EXCEPT ![u].todo = IF learned THEN @ \ {t} ELSE @]
        BY <3>2 DEF Takes
      <4>2. QED
        BY <2>1, <4>1
    <3>3. QED
      BY <3>1, <3>2
  <2>3. QED
    BY <1>1, <2>2 DEF SameOps
<1>3. \A x : Reachable(x)' = Reachable(x)
  BY <1>1 DEF Reachable
<1>4. op[u].phase = "sweep" => /\ live'[u] \subseteq live[u]
                               /\ learned /\ Reachable(t) => t \notin live'[u]
  BY DEF Gives, Giving, Takes, TypeOK
<1>5. QED
  BY <1>1, <1>2, <1>3, <1>4 DEF ClosedAt

(* What a step of a call, seen from the ledger, is. *)
LEMMA CallStepIsPlatform ==
  ASSUME NEW u \in Users, CallStep(u)
  PROVE  \/ \E t \in Targets : \E learned \in BOOLEAN :
              Gives(u, t, learned) \/ Takes(u, t, learned)
         \/ UNCHANGED vars
<1>1. PICK t \in Targets :
    \/ GrantReads(u, t) \/ GrantRefuses(u, t) \/ GrantCannotRead(u, t)
    \/ RepairSkips(u, t) \/ GrantEdits(u, t) \/ GrantEditFails(u, t)
    \/ RevokeReads(u, t) \/ RevokeSkips(u, t) \/ RevokeCannotRead(u, t)
    \/ RevokeEdits(u, t) \/ RevokeEditFails(u, t)
  BY DEF CallStep
<1>2. \/ Gives(u, t, TRUE) \/ Gives(u, t, FALSE)
      \/ Takes(u, t, TRUE) \/ Takes(u, t, FALSE) \/ UNCHANGED vars
  BY <1>1 DEF GrantReads, GrantRefuses, GrantCannotRead, RepairSkips, GrantEdits,
     GrantEditFails, RevokeReads, RevokeSkips, RevokeCannotRead, RevokeEdits,
     RevokeEditFails
<1>3. QED
  BY <1>2

(* In a process that is not down, operators and passes only take away. *)
LEMMA TakenLess ==
  ASSUME TypeOK, NEW us, NEW t, TakenOutside(us, t), NEW v \in Users
  PROVE  live'[v] \subseteq live[v]
  BY DEF TypeOK, TakenOutside, Without

LEMMA OperatorsTake ==
  ASSUME TypeOK, Operators, up # "down", NEW v \in Users
  PROVE  live'[v] \subseteq live[v]
<1> PICK t \in Targets :
    Deletes(t) \/ \E u \in Users : Denies(u, t) \/ RemovesDenial(u, t) \/ Strays(u, t)
  BY DEF Operators
<1>1. CASE Deletes(t)
  BY <1>1, TakenLess DEF Deletes
<1>2. CASE \E u \in Users : Denies(u, t)
  BY <1>2, TakenLess DEF Denies, vars
<1>3. CASE \E u \in Users : RemovesDenial(u, t)
  BY <1>3 DEF RemovesDenial, vars
<1>4. CASE \E u \in Users : Strays(u, t)
  BY <1>4 DEF Strays
<1>5. QED
  BY <1>1, <1>2, <1>3, <1>4

LEMMA ClosedNext ==
  ASSUME CoverInv, BotInv, ClosedInv, [BotNext]_allVars
  PROVE  ClosedInv'
<1>1. TypeOK /\ StartInv /\ BotType /\ GateInv /\ RetireInv
  BY DEF CoverInv, TypeInv, BotInv
<1>2. \A v \in Users : ClosedAt(v)
  BY DEF ClosedInv
<1> SUFFICES ASSUME NEW v \in Users PROVE ClosedAt(v)'
  BY DEF ClosedInv
<1>3. up # "up" => op[v].phase = "idle"
  BY <1>1 DEF StartInv
<1>4. (UNCHANGED <<op, grants, conf, adapter, reconciled, live>>) => ClosedAt(v)'
  BY <1>2, ClosedKept
<1>5. ASSUME NEW u \in Users, Submit(u) PROVE ClosedAt(v)'
  <2>1. GrantStarts(u) /\ reconciled /\ reconciled' = reconciled
    BY <1>5 DEF Submit, beside
  <2>2. UNCHANGED <<conf, adapter, live>>
    BY <2>1 DEF GrantStarts
  <2>3. CASE u # v
    BY <1>1, <1>2, <2>1, <2>2, <2>3, GrantEffect, ClosedKept
  <2>4. CASE u = v
    <3>1. op[u].phase = "idle"
      BY <2>1, EmptyTypes DEF GrantStarts, MayStart
    <3>2. op'[u].phase \in {"idle", "migrate", "apply"}
      <4>1. PICK t \in Time : \/ GrantTooLate(u, Offer(t))
                              \/ GrantMigrates(u, Offer(t))
                              \/ GrantWrites(u, Offer(t))
        BY <2>1 DEF GrantStarts
      <4>2. Offer(t) \in Records /\ grants[u] \in Records
        BY <1>1, FileTypes DEF TypeOK
      <4>3. CASE GrantWrites(u, Offer(t))
        <5>1. Written(u, Offer(t), grants[u]) \/ Unwritten(u)
          BY <1>1, <4>2, <4>3, WriteEffect DEF GrantWrites
        <5>2. QED
          BY <5>1 DEF Written, Unwritten
      <4>4. QED
        BY <1>1, <3>1, <4>1, <4>3 DEF GrantTooLate, GrantMigrates, Call, TypeOK
    <3>3. QED
      BY <2>1, <2>4, <3>2 DEF ClosedAt
  <2>5. QED
    BY <2>3, <2>4
<1>6. ASSUME NEW u \in Users, Repair(u) \/ Visit(u) PROVE ClosedAt(v)'
  <2>1. (Admit(u) \/ SweepVisits(u)) /\ reconciled' = reconciled
    BY <1>6 DEF Repair, Visit, beside
  <2>2. QED
    BY <1>1, <1>2, <2>1, VisitKeeps, ClosedVisit, ClosedKept
<1>7. ASSUME NEW u \in Users, Return(u) PROVE ClosedAt(v)'
  <2>1. Resume(u) /\ reconciled' = reconciled
    BY <1>1, <1>7, ReturnResumes DEF Return, beside
  <2>2. ~ApplyFailsUndone(u)
    BY <1>7, <1>1 DEF Return, ApplyFailsUndone, Migrated, Applied, TakenBack, MigrateFails,
       TakeBackFails, RefusalTaken, ApplyFailsKept, AdmitSettles, Call, Settle, TypeOK,
       Idle, rest
  <2>3. UNCHANGED <<conf, adapter, live>> /\ \A w \in Users :
          w # u => grants'[w] = grants[w] /\ op'[w] = op[w]
    BY <1>1, <2>1, ResumeEffect DEF rest
  <2>4. QED
    BY <1>1, <1>2, <2>1, <2>2, <2>3, ClosedReturn, ClosedKept
<1>8. ASSUME NEW u \in Users, CallStep(u) PROVE ClosedAt(v)'
  <2>1. UNCHANGED elsewhere /\ reconciled' = reconciled
    BY <1>1, <1>8, CallStepKeeps
  <2>2. CASE UNCHANGED vars
    BY <1>4, <2>1, <2>2 DEF vars
  <2>3. ASSUME NEW t \in Targets, NEW learned \in BOOLEAN,
               Gives(u, t, learned) \/ Takes(u, t, learned)
        PROVE  ClosedAt(v)'
    <3>1. CASE u = v
      BY <1>1, <1>2, <2>1, <2>3, <3>1, ClosedPlatform
    <3>2. CASE u # v
      <4>1. op'[v] = op[v] /\ live'[v] = live[v]
        BY <1>1, <2>3, <3>2 DEF Gives, Takes, TypeOK
      <4>2. QED
        BY <1>2, <2>1, <4>1, ClosedKept DEF elsewhere
    <3>3. QED
      BY <3>1, <3>2
  <2>4. QED
    BY <1>8, <2>2, <2>3, CallStepIsPlatform
<1>9. ASSUME NEW p \in Passes, PassStep(p) PROVE ClosedAt(v)'
  <2>1. UNCHANGED <<adapter, grants, conf, op>>
    BY <1>9, PassStepKeeps
  <2>2. reconciled => reconciled'
    BY <1>9 DEF PassStep, PassStarts, PassReads, PassEdits, PassEditFails,
       PassEntersChannel, PassThrows, PassEnds, PassJudges
  <2>3. live' = live \/ TakenOutside({pass[p].who}, pass[p].chan)
    BY <1>9 DEF PassStep, PassStarts, PassReads, PassEdits, PassEditFails,
       PassEntersChannel, PassThrows, PassEnds, PassJudges, Asked, vars
  <2>4. live'[v] \subseteq live[v]
    BY <2>3, TakenIsLess
  <2>5. QED
    BY <1>2, <2>1, <2>2, <2>4, ClosedKept
<1>10. CASE Operators
  <2>1. UNCHANGED <<grants, op, conf, adapter, reconciled, up>>
    BY <1>10, OperatorsKeep DEF elsewhere
  <2>2. up # "down" => live'[v] \subseteq live[v]
    BY <1>1, <1>10, OperatorsTake
  <2>3. QED
    BY <1>2, <1>3, <2>1, <2>2, ClosedKept, ClosedIdle
<1>11. CASE Decommission
  BY <1>1, <1>3, <1>11, CommandIsOffline, ClosedIdle
<1>12. CASE BotBoots \/ (\E c \in adapter.configs : BotOpens(c))
  <2>1. up # "up" /\ op' = op
    BY <1>12 DEF BotBoots, BotOpens, Boot, Import, Rename, Bind, Open
  <2>2. QED
    BY <1>3, <2>1, ClosedIdle
<1>13. CASE BotCrashes
  BY <1>13, EmptyTypes, ClosedIdle DEF BotCrashes, Crash
<1>14. CASE SweepDue \/ (\E t \in Time : SetClock(t) /\ UNCHANGED botVars)
            \/ UNCHANGED allVars
  BY <1>4, <1>14 DEF SweepDue, Sweep, SetClock, allVars, vars, botVars, db
<1>15. QED
  BY <1>5, <1>6, <1>7, <1>8, <1>9, <1>10, <1>11, <1>12, <1>13, <1>14 DEF BotNext

------------------------------------------------------------------------------
(* What a pass has settled stays settled while interactions are closed. *)

(* The step leaves the pass alone, drops only rows whose access is gone, and
   gives only what a record names. *)
Quiet ==
  /\ UNCHANGED <<conf, adapter>>
  /\ clockMark' >= clockMark
  /\ \A u \in Users :
       /\ \/ grants'[u] = grants[u]
          \/ grants'[u] = NoRow /\ \A t \in live[u] \cap grants[u].targets : ~Reachable(t)
       /\ \A t \in live'[u] : t \in live[u] \/ (Clear(u, t) /\ grants'[u] = grants[u])

LEMMA SettlingKept ==
  ASSUME TypeOK, TypeOK', BotType, NEW q \in Passes, SettlingAt(q), PassInv,
         ~reconciled, Quiet, pass'[q] = pass[q]
  PROVE  SettlingAt(q)'
<1> SUFFICES ASSUME pass[q].on PROVE SettlingAt(q)'
  BY DEF SettlingAt
<1>1. \A t : Reachable(t)' = Reachable(t)
  BY DEF Quiet, Reachable
<1>2. \A u \in Users : grants'[u] = grants[u] \/ grants'[u].targets = {}
  BY EmptyTypes DEF Quiet
<1>3. \A u \in Users : \A t \in grants'[u].targets : Reachable(t)'
  BY <1>1, <1>2 DEF SettlingAt
<1>4. pass[q].who # None => Excluded(pass[q].who, pass[q].chan)'
  <2>1. SUFFICES ASSUME pass[q].who # None PROVE Excluded(pass[q].who, pass[q].chan)'
    OBVIOUS
  <2>2. pass[q].who \in Users /\ Excluded(pass[q].who, pass[q].chan)
    BY <2>1 DEF SettlingAt, BotType, PassType
  <2>3. grants[pass[q].who].exp \in Int /\ clockMark \in Int /\ clockMark' \in Int
    BY <2>2, BoundTypes DEF TypeOK, Records
  <2>4. grants[pass[q].who].exp <= clockMark => grants[pass[q].who].exp <= clockMark'
    BY <2>3 DEF Quiet
  <2>5. CASE grants'[pass[q].who] = grants[pass[q].who]
    BY <2>2, <2>4, <2>5 DEF Excluded, Quiet
  <2>6. CASE grants'[pass[q].who].targets = {}
    BY <2>6 DEF Excluded
  <2>7. QED
    BY <1>2, <2>2, <2>5, <2>6
<1>5. ASSUME pass[q].ready, ~pass[q].failed, NEW u \in Users,
             NEW t \in live'[u] \cap conf.targets
      PROVE  Settled(pass[q], u, t)'
  <2>1. CASE Clear(u, t) /\ grants'[u] = grants[u]
    BY <2>1 DEF Settled, Clear, Quiet
  <2>2. CASE t \in live[u]
    <3>1. Settled(pass[q], u, t)
      BY <1>5, <2>2 DEF SettlingAt
    <3>2. CASE Clear(u, t) /\ grants'[u] # grants[u]
      <4>1. t \in grants[u].targets /\ Reachable(t)
        BY <3>2 DEF Clear, SettlingAt
      <4>2. QED
        BY <2>2, <3>2, <4>1 DEF Quiet
    <3>3. QED
      BY <2>1, <3>1, <3>2 DEF Settled
  <2>3. QED
    BY <1>5, <2>1, <2>2 DEF Quiet
<1>6. conf' = conf
  BY DEF Quiet
<1>7. QED
  BY <1>3, <1>4, <1>5, <1>6 DEF SettlingAt

(* A step that leaves the rows, and gives nothing, is quiet. *)
LEMMA TakingIsQuiet ==
  ASSUME TypeOK, UNCHANGED <<conf, adapter, grants>>,
         clockMark' = clockMark \/ clockMark' = floor,
         \A u \in Users : live'[u] \subseteq live[u]
  PROVE  Quiet
<1>1. clockMark' >= clockMark
  BY FileTypes, BoundTypes DEF TypeOK
<1>2. QED
  BY <1>1 DEF Quiet

LEMMA ReturnIsQuiet ==
  ASSUME TypeOK, NEW u \in Users, Resume(u), ClosedAt(u), ~reconciled
  PROVE  Quiet
<1>1. op[u].phase \in {"idle", "sweep", "admit"}
  BY DEF ClosedAt
<1>2. TakenBack(u) \/ TakeBackFails(u) \/ AdmitSettles(u)
  BY <1>1 DEF Resume, Migrated, MigrateFails, Applied, ApplyRefused, RefusalTaken,
     ApplyFailsKept, ApplyFailsUndone
<1>3. UNCHANGED <<conf, adapter, live, clockMark>>
  BY <1>2 DEF TakenBack, TakeBackFails, AdmitSettles, rest
<1>4. CASE grants' = grants
  BY <1>3, <1>4, TakingIsQuiet
<1>5. CASE TakenBack(u)
  <2>1. /\ op[u].phase = "sweep" /\ op[u].todo = {} /\ Del(u, op[u].rec.rev)
    BY <1>1, <1>5 DEF TakenBack
  <2>2. \A v \in Users : v # u => grants'[v] = grants[v]
    BY <2>1, DelEffect
  <2>3. grants'[u] = grants[u] \/ grants'[u] = NoRow
    BY <2>1, DelEffect
  <2>4. \A t \in live[u] \cap grants[u].targets : ~Reachable(t)
    BY <2>1 DEF ClosedAt
  <2>5. clockMark' >= clockMark
    BY <1>3, BoundTypes DEF TypeOK
  <2>6. QED
    BY <1>3, <2>2, <2>3, <2>4, <2>5 DEF Quiet
<1>6. QED
  BY <1>2, <1>4, <1>5 DEF TakeBackFails, AdmitSettles

LEMMA CallStepIsQuiet ==
  ASSUME TypeOK, NEW u \in Users, CallStep(u), ClosedAt(u), ~reconciled
  PROVE  Quiet
<1>1. UNCHANGED <<conf, adapter, grants, clockMark>>
  BY CallStepKeeps DEF elsewhere
<1>2. clockMark' >= clockMark
  BY <1>1, BoundTypes DEF TypeOK
<1>3. ASSUME NEW t \in Targets, NEW learned \in BOOLEAN, Gives(u, t, learned)
      PROVE  Quiet
  <2>1. /\ Clear(u, t) /\ \A v \in Users : live'[v] \subseteq live[v] \cup {t}
        /\ \A v \in Users : v # u => live'[v] = live[v]
    BY <1>3 DEF Gives, Giving, ClosedAt, Clear, TypeOK
  <2>2. QED
    BY <1>1, <1>2, <2>1 DEF Quiet
<1>4. ASSUME NEW t \in Targets, NEW learned \in BOOLEAN, Takes(u, t, learned)
      PROVE  Quiet
  <2>1. \A v \in Users : live'[v] \subseteq live[v]
    <3>1. live \in [Users -> SUBSET Targets]
      BY DEF TypeOK
    <3>2. live' = live \/ live' = [live EXCEPT ![u] = @ \ {t}]
      BY <1>4 DEF Takes
    <3>3. QED
      BY <3>1, <3>2
  <2>2. QED
    BY <1>1, <2>1, TakingIsQuiet
<1>5. CASE UNCHANGED vars
  BY <1>1, <1>5, TakingIsQuiet DEF vars
<1>6. QED
  BY <1>3, <1>4, <1>5, CallStepIsPlatform

LEMMA PassStepIsQuiet ==
  ASSUME TypeOK, NEW p \in Passes, PassStep(p)
  PROVE  Quiet
<1>1. UNCHANGED <<adapter, grants, conf>>
  BY PassStepKeeps
<1>2. live' = live \/ TakenOutside({pass[p].who}, pass[p].chan)
  BY DEF PassStep, PassStarts, PassReads, PassEdits, PassEditFails,
     PassEntersChannel, PassThrows, PassEnds, PassJudges, Asked, vars
<1>3. clockMark' = clockMark \/ clockMark' = floor
  BY DEF PassStep, PassStarts, PassReads, PassEdits, PassEditFails, PassEntersChannel,
     PassThrows, PassEnds, PassJudges, Asked, Observe, TakenOutside, elsewhere, vars
<1>4. QED
  BY <1>1, <1>2, <1>3, TakenLess, TakingIsQuiet

(* A pass goes on with its own work. *)
LEMMA SettlingStep ==
  ASSUME TypeOK, TypeOK', BotType, PassInv, NEW p \in Passes, PassStep(p),
         SettlingAt(p), ~reconciled
  PROVE  SettlingAt(p)'
<1> DEFINE q == pass[p]
<1>1. /\ pass \in [Passes -> PassType] /\ q \in PassType
      /\ q.who # None \/ q.snap # {} => q.on /\ q.chan \in Targets
      /\ q.who # None => q.who \in Users
  BY DEF BotType, PassInv, PassFits, PassType
<1>2. UNCHANGED <<adapter, grants, conf>> /\ \A t : Reachable(t)' = Reachable(t)
  BY PassStepKeeps DEF Reachable
<1>3. q.on => \A u \in Users : \A t \in grants'[u].targets : Reachable(t)'
  BY <1>2 DEF SettlingAt
<1>4. \A u \in Users : \A t : Clear(u, t)' = Clear(u, t)
  BY <1>2 DEF Clear
<1>5. q.on /\ q.ready /\ ~q.failed =>
        \A u \in Users : \A t \in live[u] \cap conf.targets : Settled(q, u, t)
  BY DEF SettlingAt
<1>6. CASE PassStarts(p)
  <2>1. /\ pass'[p].chans = conf.targets \ gone /\ pass'[p].who = None
        /\ pass'[p].ready => conf.targets \cap gone = {}
        /\ UNCHANGED live /\ ~ForeignRows
    BY <1>1, <1>6 DEF PassStarts, NoPass, vars
  <2>2. \A u \in Users : \A t \in grants'[u].targets : Reachable(t)'
    BY <1>2, <2>1 DEF ForeignRows
  <2>3. pass'[p].ready =>
          \A u \in Users : \A t \in live'[u] \cap conf'.targets : t \in pass'[p].chans
    BY <1>2, <2>1
  <2>4. QED
    BY <2>1, <2>2, <2>3 DEF SettlingAt, Settled
<1>7. CASE PassEntersChannel(p)
  <2> DEFINE c == FirstOf(pass[p].chans)
  <2>1. /\ q.on /\ q.who = None /\ q.snap = {} /\ live' = live /\ c \in Targets
    BY <1>1, <1>7, FirstIsOne DEF PassEntersChannel, ChannelDone, vars, PassType
  <2> HIDE DEF c
  <2>2. /\ pass'[p].chans = q.chans \ {c} /\ pass'[p].chan = c
        /\ pass'[p].snap = {u \in Users : c \in live[u] \cup denied[u]}
        /\ pass'[p].who = None /\ pass'[p].ready = q.ready /\ pass'[p].failed = q.failed
    BY <1>1, <1>7, <2>1 DEF PassEntersChannel, PassType, c
  <2>3. ASSUME q.ready, ~q.failed, NEW u \in Users, NEW t \in live'[u] \cap conf'.targets
        PROVE  Settled(pass[p], u, t)'
    <3>1. Settled(q, u, t) /\ t \in live[u]
      BY <1>2, <1>5, <2>1, <2>3
    <3>2. t \in q.chans \/ Clear(u, t)
      BY <1>1, <2>1, <3>1, BotFacts DEF Settled
    <3>3. QED
      BY <1>4, <2>2, <3>1, <3>2 DEF Settled
  <2>4. QED
    BY <1>3, <2>1, <2>2, <2>3 DEF SettlingAt
<1>8. CASE PassThrows(p) \/ PassEnds(p)
  <2>1. ~pass'[p].on
    BY <1>1, <1>8, BotFacts DEF PassThrows, PassEnds
  <2>2. QED
    BY <2>1 DEF SettlingAt
<1>9. CASE PassReads(p)
  <2>1. q.who # None /\ q.on /\ live' = live /\ clockMark' = clockMark
    BY <1>1, <1>9 DEF PassReads, vars
  <2>2. /\ pass'[p].chans = q.chans /\ pass'[p].chan = q.chan
        /\ pass'[p].snap = q.snap /\ pass'[p].ready = q.ready
        /\ pass'[p].failed = q.failed
    BY <1>1, <1>9 DEF PassReads, PassType
  <2>3. pass'[p].who = q.who \/ (pass'[p].who = None /\ q.chan \notin live[q.who])
    BY <1>1, <1>9 DEF PassReads, PassType
  <2>4. pass'[p].who # None => Excluded(pass[p].who, pass[p].chan)'
    BY <1>2, <2>1, <2>2, <2>3 DEF SettlingAt, Excluded
  <2>5. ASSUME q.ready, ~q.failed, NEW u \in Users, NEW t \in live'[u] \cap conf'.targets
        PROVE  Settled(pass[p], u, t)'
    <3>1. Settled(q, u, t) /\ t \in live[u]
      BY <1>2, <1>5, <2>1, <2>5
    <3>2. QED
      BY <1>4, <2>2, <2>3, <3>1 DEF Settled
  <2>6. QED
    BY <1>3, <2>1, <2>2, <2>4, <2>5 DEF SettlingAt
<1>10. CASE PassEdits(p) \/ PassEditFails(p)
  <2>1. q.edit /\ q.who # None /\ q.on
    BY <1>1, <1>10 DEF PassEdits, PassEditFails, PassInv, PassFits
  <2>2. /\ pass'[p].chans = q.chans /\ pass'[p].chan = q.chan
        /\ pass'[p].snap = q.snap /\ pass'[p].ready = q.ready /\ pass'[p].who = None
    BY <1>1, <1>10 DEF PassEdits, PassEditFails, PassType
  <2>3. CASE PassEdits(p)
    <3>1. /\ pass'[p].failed = q.failed
          /\ \A u \in Users : live'[u] \subseteq live[u]
          /\ q.chan \notin live'[q.who]
      BY <1>1, <2>1, <2>3 DEF PassEdits, PassType, TakenOutside, Without, TypeOK
    <3>2. ASSUME q.ready, ~q.failed, NEW u \in Users, NEW t \in live'[u] \cap conf'.targets
          PROVE  Settled(pass[p], u, t)'
      <4>1. Settled(q, u, t) /\ ~(u = q.who /\ t = q.chan)
        BY <1>2, <1>5, <2>1, <3>1, <3>2
      <4>2. QED
        BY <1>4, <2>2, <4>1 DEF Settled
    <3>3. QED
      BY <1>3, <2>1, <2>2, <3>1, <3>2 DEF SettlingAt
  <2>4. CASE PassEditFails(p)
    <3>1. pass'[p].failed
      BY <1>1, <2>4 DEF PassEditFails, PassType
    <3>2. QED
      BY <1>3, <2>1, <2>2, <3>1 DEF SettlingAt
  <2>5. QED
    BY <1>10, <2>3, <2>4
<1>11. ASSUME NEW u \in Users, PassJudges(p, u) PROVE SettlingAt(p)'
  <2>1. /\ u \in q.snap /\ q.who = None /\ q.on /\ live' = live /\ clockMark' = floor
        /\ u # None
    BY <1>1, <1>11, BotFacts DEF PassJudges, Asked, Observe
  <2>2. /\ pass'[p].chans = q.chans /\ pass'[p].chan = q.chan
        /\ pass'[p].snap = q.snap \ {u} /\ pass'[p].ready = q.ready
        /\ pass'[p].failed = q.failed
        /\ pass'[p].who = IF authorizedNow(u, q.chan) THEN None ELSE u
    BY <1>1, <1>11 DEF PassJudges, PassType
  <2>3. ~authorizedNow(u, q.chan) => Excluded(u, pass[p].chan)'
    <3>1. grants[u].exp \in Int /\ floor \in Int
      BY FileTypes, BoundTypes DEF TypeOK, Records
    <3>2. QED
      BY <1>2, <2>1, <2>2, <3>1 DEF authorizedNow, Excluded
  <2>4. pass'[p].who # None => Excluded(pass[p].who, pass[p].chan)'
    BY <2>2, <2>3 DEF Excluded
  <2>5. ASSUME q.ready, ~q.failed, NEW v \in Users, NEW t \in live'[v] \cap conf'.targets
        PROVE  Settled(pass[p], v, t)'
    <3>1. Settled(q, v, t)
      BY <1>2, <1>5, <2>1, <2>5
    <3>2. t = q.chan /\ v = u /\ authorizedNow(u, q.chan) => Clear(v, t)
      BY DEF authorizedNow, Clear
    <3>3. QED
      BY <1>4, <2>1, <2>2, <3>1, <3>2, BotFacts DEF Settled
  <2>6. QED
    BY <1>3, <2>1, <2>2, <2>4, <2>5 DEF SettlingAt
<1>12. QED
  BY <1>6, <1>7, <1>8, <1>9, <1>10, <1>11 DEF PassStep

LEMMA SettlingNext ==
  ASSUME CoverInv, CoverInv', BotInv, ClosedInv, SettlingInv, [BotNext]_allVars
  PROVE  SettlingInv'
<1>1. TypeOK /\ TypeOK' /\ BotType /\ PassInv /\ RetireInv /\ GateInv
  BY DEF CoverInv, TypeInv, BotInv
<1>2. \A v \in Users : ClosedAt(v)
  BY DEF ClosedInv
<1> SUFFICES ASSUME NEW q \in Passes PROVE SettlingAt(q)'
  BY DEF SettlingInv
<1>3. SettlingAt(q)
  BY DEF SettlingInv
<1>4. reconciled' \/ ~pass'[q].on => SettlingAt(q)'
  BY DEF SettlingAt
<1>5. Quiet /\ pass'[q] = pass[q] /\ ~reconciled => SettlingAt(q)'
  BY <1>1, <1>3, SettlingKept
<1>6. up # "up" => ~pass[q].on
  BY <1>1 DEF GateInv
<1>7. ASSUME NEW u \in Users,
             Submit(u) \/ Repair(u) \/ Visit(u) \/ Return(u) \/ CallStep(u)
      PROVE  SettlingAt(q)'
  <2>1. reconciled' = reconciled /\ pass' = pass
    <3>1. CASE CallStep(u)
      BY <1>1, <3>1, CallStepKeeps
    <3>2. QED
      BY <1>7, <3>1 DEF Submit, Repair, Visit, Return, beside
  <2>2. CASE Submit(u)
    BY <1>4, <2>1, <2>2 DEF Submit
  <2>3. CASE Repair(u) \/ Visit(u)
    <3>1. Admit(u) \/ SweepVisits(u)
      BY <2>3 DEF Repair, Visit
    <3>2. UNCHANGED <<conf, adapter, grants, live>>
      BY <1>1, <3>1, VisitKeeps
    <3>3. clockMark' = clockMark \/ clockMark' = floor
      BY <3>1 DEF Admit, SweepVisits, SweepSkips, SweepTakes, Observe
    <3>4. Quiet
      BY <1>1, <3>2, <3>3, TakingIsQuiet
    <3>5. QED
      BY <1>4, <1>5, <2>1, <3>4
  <2>4. CASE Return(u)
    <3>1. Resume(u)
      BY <1>1, <2>4, ReturnResumes
    <3>2. ~reconciled => Quiet
      BY <1>1, <1>2, <3>1, ReturnIsQuiet
    <3>3. QED
      BY <1>4, <1>5, <2>1, <3>2
  <2>5. CASE CallStep(u)
    <3>1. ~reconciled => Quiet
      BY <1>1, <1>2, <2>5, CallStepIsQuiet
    <3>2. QED
      BY <1>4, <1>5, <2>1, <3>1
  <2>6. QED
    BY <1>7, <2>2, <2>3, <2>4, <2>5
<1>8. ASSUME NEW p \in Passes, PassStep(p) PROVE SettlingAt(q)'
  <2>1. reconciled => reconciled'
    BY <1>8 DEF PassStep, PassStarts, PassReads, PassEdits, PassEditFails,
       PassEntersChannel, PassThrows, PassEnds, PassJudges
  <2>2. CASE p = q
    BY <1>1, <1>3, <1>4, <1>8, <2>1, <2>2, SettlingStep
  <2>3. CASE p # q
    <3>1. pass'[q] = pass[q]
      BY <1>1, <1>8, <2>3 DEF BotType, PassStep, PassStarts, PassReads, PassEdits,
         PassEditFails, PassEntersChannel, PassThrows, PassEnds, PassJudges
    <3>2. Quiet
      BY <1>1, <1>8, PassStepIsQuiet
    <3>3. QED
      BY <1>4, <1>5, <2>1, <3>1, <3>2
  <2>4. QED
    BY <2>2, <2>3
<1>9. CASE Operators
  <2>1. UNCHANGED <<reconciled, pass, conf, adapter, grants, clockMark, up>>
    BY <1>9, OperatorsKeep DEF elsewhere
  <2>2. up = "up" => Quiet
    BY <1>1, <1>9, <2>1, OperatorsTake, TakingIsQuiet
  <2>3. QED
    BY <1>4, <1>5, <1>6, <2>1, <2>2
<1>10. CASE Decommission
  BY <1>1, <1>4, <1>6, <1>10, CommandIsOffline
<1>11. CASE BotBoots \/ (\E c \in adapter.configs : BotOpens(c))
  <2>1. up # "up" /\ pass' = pass
    BY <1>11 DEF BotBoots, BotOpens, Boot, Import, Rename, Bind, Open, botVars
  <2>2. QED
    BY <1>4, <1>6, <2>1
<1>12. CASE BotCrashes
  BY <1>4, <1>12, BotFacts DEF BotCrashes
<1>13. CASE SweepDue \/ (\E t \in Time : SetClock(t) /\ UNCHANGED botVars)
            \/ UNCHANGED allVars
  <2>1. UNCHANGED <<reconciled, pass, conf, adapter, grants, live>>
    BY <1>13 DEF SweepDue, Sweep, SetClock, allVars, vars, botVars, db
  <2>2. clockMark' = clockMark \/ clockMark' = floor
    BY <1>13 DEF SweepDue, Sweep, SetClock, Observe, allVars, vars, db
  <2>3. Quiet
    BY <1>1, <2>1, <2>2, TakingIsQuiet
  <2>4. QED
    BY <1>4, <1>5, <2>1, <2>3
<1>14. QED
  BY <1>7, <1>8, <1>9, <1>10, <1>11, <1>12, <1>13 DEF BotNext

------------------------------------------------------------------------------
(* With one pass at a time, none is left when interactions are open. *)
OnePass == \A p, q \in Passes : p = q

AloneInv == OnePass /\ reconciled => \A p \in Passes : ~pass[p].on

LEMMA AloneNext ==
  ASSUME CoverInv, BotInv, AloneInv, [BotNext]_allVars
  PROVE  AloneInv'
<1>1. TypeOK /\ BotType /\ RetireInv
  BY DEF CoverInv, TypeInv, BotInv
<1>2. (UNCHANGED <<reconciled, pass>>) => AloneInv'
  BY DEF AloneInv
<1>3. ASSUME NEW u \in Users,
             Submit(u) \/ Repair(u) \/ Visit(u) \/ Return(u) \/ CallStep(u)
      PROVE  AloneInv'
  <2>1. CASE CallStep(u)
    BY <1>1, <1>2, <2>1, CallStepKeeps
  <2>2. QED
    BY <1>2, <1>3, <2>1 DEF Submit, Repair, Visit, Return, beside
<1>4. ASSUME NEW p \in Passes, PassStep(p), OnePass PROVE AloneInv'
  <2>1. \A q \in Passes : q = p
    BY <1>4 DEF OnePass
  <2>2. CASE PassEnds(p) \/ PassThrows(p)
    <3>1. ~pass'[p].on
      BY <1>1, <2>2, BotFacts DEF PassEnds, PassThrows, BotType
    <3>2. QED
      BY <2>1, <3>1 DEF AloneInv
  <2>3. CASE ~PassEnds(p) /\ ~PassThrows(p)
    <3>1. ~reconciled \/ pass'[p].on = pass[p].on
      <4>1. CASE PassStarts(p)
        BY <4>1 DEF PassStarts
      <4>2. CASE PassReads(p)
        BY <1>1, <4>2 DEF PassReads, BotType, PassType
      <4>3. CASE PassEntersChannel(p)
        BY <1>1, <4>3 DEF PassEntersChannel, BotType, PassType
      <4>4. CASE PassEdits(p) \/ PassEditFails(p)
        BY <1>1, <4>4 DEF PassEdits, PassEditFails, BotType, PassType
      <4>5. CASE \E u \in Users : PassJudges(p, u)
        BY <1>1, <4>5 DEF PassJudges, BotType, PassType
      <4>6. QED
        BY <1>4, <2>3, <4>1, <4>2, <4>3, <4>4, <4>5 DEF PassStep
    <3>2. reconciled' = reconciled
      BY <1>4, <2>3 DEF PassStep, PassStarts, PassReads, PassEdits, PassEditFails,
         PassEntersChannel, PassJudges
    <3>3. QED
      BY <2>1, <3>1, <3>2 DEF AloneInv
  <2>4. QED
    BY <2>2, <2>3
<1>5. CASE Operators
  BY <1>2, <1>5, OperatorsKeep
<1>6. CASE Decommission
  BY <1>1, <1>2, <1>6, CommandIsOffline
<1>7. CASE BotCrashes
  BY <1>7 DEF BotCrashes, AloneInv
<1>8. CASE SweepDue \/ BotBoots \/ (\E c \in adapter.configs : BotOpens(c))
           \/ (\E t \in Time : SetClock(t) /\ UNCHANGED botVars) \/ UNCHANGED allVars
  BY <1>2, <1>8 DEF SweepDue, BotBoots, BotOpens, allVars, botVars
<1>9. QED
  BY <1>3, <1>4, <1>5, <1>6, <1>7, <1>8 DEF BotNext, AloneInv, OnePass

FullInv == CoverInv /\ BotInv /\ ClosedInv /\ SettlingInv /\ AloneInv

LEMMA FullInvHolds == ~DenialsRace => (BotSpec => []FullInv)
<1> SUFFICES ASSUME ~DenialsRace PROVE BotSpec => []FullInv
  OBVIOUS
<1>1. BotInit => FullInv
  <2> SUFFICES ASSUME BotInit PROVE FullInv
    OBVIOUS
  <2>1. CoverInv /\ BotInv
    BY CoverInit, BotStarts DEF BotInit
  <2>2. ClosedInv
    BY EmptyTypes DEF BotInit, Init, ClosedInv, ClosedAt
  <2>3. SettlingInv /\ AloneInv
    BY BotFacts DEF BotInit, SettlingInv, SettlingAt, AloneInv
  <2>4. QED
    BY <2>1, <2>2, <2>3 DEF FullInv
<1>2. FullInv /\ [BotNext]_allVars => FullInv'
  <2> SUFFICES ASSUME FullInv, [BotNext]_allVars PROVE FullInv'
    OBVIOUS
  <2>1. CoverInv' /\ BotInv'
    BY BotNextInv DEF FullInv
  <2>2. QED
    BY <2>1, ClosedNext, SettlingNext, AloneNext DEF FullInv
<1>3. QED
  BY <1>1, <1>2, PTL DEF BotSpec

(* The step that opens interactions is the end of a pass with nothing left. *)
LEMMA OpeningIsClean ==
  FullInv /\ [BotNext]_allVars =>
    [~reconciled /\ reconciled' =>
       \A u \in Users : \A t \in live'[u] \cap conf'.targets :
         t \in grants'[u].targets /\ grants'[u].ctx = conf'.ctx]_allVars
<1> SUFFICES ASSUME FullInv, [BotNext]_allVars, ~reconciled, reconciled'
             PROVE  \A u \in Users : \A t \in live'[u] \cap conf'.targets :
                      t \in grants'[u].targets /\ grants'[u].ctx = conf'.ctx
  OBVIOUS
<1>1. TypeOK /\ RetireInv /\ SettlingInv
  BY DEF FullInv, CoverInv, TypeInv, BotInv
<1>2. PICK p \in Passes : PassEnds(p)
  <2>1. \A u \in Users :
          ~(Submit(u) \/ Repair(u) \/ Visit(u) \/ Return(u) \/ CallStep(u))
    BY <1>1, CallStepKeeps DEF Submit, Repair, Visit, Return, beside
  <2>2. ~Operators /\ ~Decommission
    BY <1>1, OperatorsKeep, CommandIsOffline
  <2>3. ~(SweepDue \/ BotBoots \/ BotCrashes \/ (\E c \in adapter.configs : BotOpens(c))
          \/ (\E t \in Time : SetClock(t) /\ UNCHANGED botVars) \/ UNCHANGED allVars)
    BY DEF SweepDue, BotBoots, BotCrashes, BotOpens, allVars, botVars
  <2>4. PICK p \in Passes : PassStep(p)
    BY <2>1, <2>2, <2>3 DEF BotNext
  <2>5. PassEnds(p)
    BY <2>4 DEF PassStep, PassStarts, PassReads, PassEdits, PassEditFails,
       PassEntersChannel, PassThrows, PassJudges
  <2>6. QED
    BY <2>5
<1>3. /\ pass[p].on /\ pass[p].ready /\ ~pass[p].failed /\ pass[p].chans = {}
      /\ pass[p].snap = {} /\ pass[p].who = None
      /\ UNCHANGED <<live, grants, conf>>
  BY <1>2 DEF PassEnds, ChannelDone, vars
<1>4. ASSUME NEW u \in Users, NEW t \in live[u] \cap conf.targets PROVE Clear(u, t)
  <2>1. Settled(pass[p], u, t)
    BY <1>1, <1>3 DEF SettlingInv, SettlingAt
  <2>2. QED
    BY <1>3, <2>1, BotFacts DEF Settled
<1>5. QED
  BY <1>3, <1>4 DEF Clear

(* When interactions open, whoever reaches a managed channel has a row that
   names it for the context served, however passes, sweeps, repairs, failing
   edits and operators interleaved since the start (bot.js, "reconciled"). *)
THEOREM OpensAlwaysClean == ~DenialsRace => (BotSpec => OpensClean)
<1> SUFFICES ASSUME ~DenialsRace PROVE BotSpec => OpensClean
  OBVIOUS
<1>1. BotSpec => []FullInv
  BY FullInvHolds
<1>2. QED
  BY <1>1, OpeningIsClean, PTL DEF BotSpec, OpensClean

(* With one pass at a time, no pass takes back what a live record gives: from
   its look at the record to its edit nobody is admitted. *)
THEOREM PassesAlwaysSpare ==
  ~DenialsRace /\ OnePass => (BotSpec => PassesSpareGrants)
<1> SUFFICES ASSUME ~DenialsRace, OnePass PROVE BotSpec => PassesSpareGrants
  OBVIOUS
<1>1. BotSpec => []FullInv
  BY FullInvHolds
<1>2. FullInv =>
        \A p \in Passes : pass[p].edit => ~authorizedNow(pass[p].who, pass[p].chan)
  <2> SUFFICES ASSUME FullInv, NEW p \in Passes, pass[p].edit
               PROVE  ~authorizedNow(pass[p].who, pass[p].chan)
    OBVIOUS
  <2>1. pass[p].who # None /\ pass[p].on /\ pass[p].who \in Users
    BY DEF FullInv, BotInv, PassInv, PassFits, BotType, PassType
  <2>2. ~reconciled
    BY <2>1 DEF FullInv, AloneInv
  <2>3. Excluded(pass[p].who, pass[p].chan)
    BY <2>1, <2>2 DEF FullInv, SettlingInv, SettlingAt
  <2>4. TypeOK
    BY DEF FullInv, CoverInv, TypeInv
  <2>5. /\ grants[pass[p].who].exp \in Int /\ floor \in Int /\ clockMark \in Int
        /\ floor >= clockMark
    BY <2>1, <2>4, FileTypes, BoundTypes DEF TypeOK, Records
  <2>6. QED
    BY <2>3, <2>5 DEF Excluded, authorizedNow
<1>3. FullInv /\ [BotNext]_allVars =>
        [\A p \in Passes :
           (pass[p].edit /\ pass[p].chan \in live[pass[p].who] \ live'[pass[p].who])
             => ~authorizedNow(pass[p].who, pass[p].chan)]_allVars
  BY <1>2
<1>4. QED
  BY <1>1, <1>3, PTL DEF BotSpec, PassesSpareGrants
==============================================================================
