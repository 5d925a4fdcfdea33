---------------------------- MODULE OneMembership ----------------------------
(***************************************************************************)
(* What the gateway promises, with no request, store, clock or crash in    *)
(* it: a tag (one voting key, in one epoch, for one context) is claimed by *)
(* at most one account, membership is granted only to the account that     *)
(* claimed the tag, and only until the tag's epoch is over.  What is       *)
(* recorded about an epoch may be forgotten once a later epoch was seen.   *)
(***************************************************************************)
EXTENDS Integers, TLAPS

CONSTANTS
  Tags, Accounts, None,
  LastEpoch   \* bound: the last epoch the clock reaches

(* A tag carries its epoch; the other fields only tell tags apart. *)
WellFormed ==
  /\ LastEpoch \in Nat /\ \A t \in Tags : t.epoch \in 0 .. LastEpoch
  /\ None \notin Accounts

VARIABLES
  owner,     \* owner[t]: the account that claimed tag t, or None
  granted,   \* the <<tag, account>> pairs membership was ever granted to
  open       \* the earliest epoch that can still be claimed or granted in

vars == <<owner, granted, open>>

(* The claims still remembered when e is the earliest open epoch. *)
Remembered(own, e) == [t \in Tags |-> IF t.epoch < e THEN None ELSE own[t]]

Init ==
  /\ owner = [t \in Tags |-> None]
  /\ granted = {}
  /\ open = -1

Claim(t, a) ==
  /\ t.epoch >= open
  /\ owner[t] = None
  /\ owner' = [owner EXCEPT ![t] = a]
  /\ UNCHANGED <<granted, open>>

(* A grant observes the time, so it may close earlier epochs by itself. *)
Grant(t, a) ==
  /\ owner[t] = a
  /\ open' \in open .. t.epoch
  /\ owner' = Remembered(owner, open')
  /\ granted' = granted \cup {<<t, a>>}

Advance ==
  /\ open' \in open .. LastEpoch
  /\ owner' = Remembered(owner, open')
  /\ UNCHANGED granted

Next == \/ \E t \in Tags, a \in Accounts : Claim(t, a) \/ Grant(t, a)
        \/ Advance

Spec == Init /\ [][Next]_vars

------------------------------------------------------------------------------
(* One voting key maps to one account per epoch and context: a tag is never
   granted to two accounts. *)
OneAccountPerTag ==
  \A g, h \in granted : g[1] = h[1] => g[2] = h[2]

(* Every grant in an epoch that is still open is backed by the claim that is
   remembered for its tag. *)
GrantsBacked ==
  \A g \in granted : g[1].epoch >= open => owner[g[1]] = g[2]

TypeOK ==
  /\ owner \in [Tags -> Accounts \cup {None}]
  /\ granted \subseteq Tags \X Accounts
  /\ open \in -1 .. LastEpoch

Inv == TypeOK /\ GrantsBacked /\ OneAccountPerTag

LEMMA Forgetting ==
  ASSUME WellFormed, TypeOK, GrantsBacked,
         NEW e \in -1 .. LastEpoch, e >= open, owner' = Remembered(owner, e), open' = e,
         NEW g \in granted, g[1].epoch >= e
  PROVE  owner'[g[1]] = g[2]
<1>1. g[1] \in Tags /\ g[1].epoch \in Int
  BY DEF TypeOK, WellFormed
<1>2. open \in Int /\ g[1].epoch >= open /\ ~(g[1].epoch < e)
  BY <1>1 DEF TypeOK
<1>3. owner[g[1]] = g[2]
  BY <1>2 DEF GrantsBacked
<1> QED
  BY <1>1, <1>2, <1>3 DEF Remembered

LEMMA RememberedType ==
  ASSUME TypeOK, NEW e
  PROVE  Remembered(owner, e) \in [Tags -> Accounts \cup {None}]
BY DEF TypeOK, Remembered

(* What the promise amounts to: whatever is forgotten and whenever, no key is
   granted to two accounts for one context and epoch. *)
THEOREM NoSecondAccount == WellFormed => (Spec => []OneAccountPerTag)
<1> SUFFICES ASSUME WellFormed PROVE Spec => []OneAccountPerTag
  OBVIOUS
<1>1. Init => Inv
  BY DEF Init, Inv, TypeOK, GrantsBacked, OneAccountPerTag, WellFormed
<1>2. Inv /\ [Next]_vars => Inv'
  <2> SUFFICES ASSUME Inv, [Next]_vars PROVE Inv'
    OBVIOUS
  <2> USE DEF Inv
  <2>1. ASSUME NEW t \in Tags, NEW a \in Accounts, Claim(t, a)
        PROVE  Inv'
    <3>1. TypeOK'
      BY <2>1 DEF Claim, TypeOK
    <3>2. ASSUME NEW g \in granted, g[1].epoch >= open
          PROVE  owner'[g[1]] = g[2]
      <4>1. g[1] \in Tags /\ g[2] \in Accounts /\ owner[g[1]] = g[2]
        BY <3>2 DEF TypeOK, GrantsBacked
      <4>2. g[1] # t
        BY <4>1, <2>1 DEF Claim, WellFormed
      <4> QED
        BY <4>1, <4>2, <2>1 DEF Claim, TypeOK
    <3> QED
      BY <2>1, <3>1, <3>2 DEF Claim, GrantsBacked, OneAccountPerTag
  <2>2. ASSUME NEW t \in Tags, NEW a \in Accounts, Grant(t, a)
        PROVE  Inv'
    <3>1. t.epoch \in 0 .. LastEpoch /\ open \in Int /\ open' \in open .. t.epoch
      BY <2>2 DEF Grant, TypeOK, WellFormed
    <3>2. open' \in -1 .. LastEpoch /\ open' >= open /\ t.epoch >= open' /\ t.epoch >= open
      BY <3>1 DEF TypeOK, WellFormed
    <3>3. TypeOK'
      BY <2>2, <3>2, RememberedType DEF Grant, TypeOK
    <3>4. ASSUME NEW g \in granted, g[1].epoch >= open'
          PROVE  owner'[g[1]] = g[2]
      BY <2>2, <3>2, <3>4, Forgetting DEF Grant
    <3>5. owner'[t] = a
      BY <2>2, <3>1, <3>2 DEF Grant, Remembered, TypeOK
    <3>6. GrantsBacked'
      BY <2>2, <3>4, <3>5 DEF Grant, GrantsBacked
    <3>7. ASSUME NEW g \in granted, g[1] = t
          PROVE  g[2] = a
      BY <2>2, <3>2, <3>7 DEF Grant, GrantsBacked
    <3>8. OneAccountPerTag'
      BY <2>2, <3>7 DEF Grant, OneAccountPerTag
    <3> QED
      BY <3>3, <3>6, <3>8
  <2>3. CASE Advance
    <3>1. open' \in -1 .. LastEpoch /\ open' >= open
      BY <2>3 DEF Advance, TypeOK, WellFormed
    <3>2. TypeOK'
      BY <2>3, <3>1, RememberedType DEF Advance, TypeOK
    <3>3. GrantsBacked'
      BY <2>3, <3>1, Forgetting DEF Advance, GrantsBacked
    <3> QED
      BY <2>3, <3>2, <3>3 DEF Advance, OneAccountPerTag
  <2>4. CASE UNCHANGED vars
    BY <2>4 DEF vars, TypeOK, GrantsBacked, OneAccountPerTag
  <2> QED
    BY <2>1, <2>2, <2>3, <2>4 DEF Next
<1>3. Inv => OneAccountPerTag
  BY DEF Inv
<1> QED
  BY <1>1, <1>2, <1>3, PTL DEF Spec
==============================================================================
