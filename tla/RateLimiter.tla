---------------------------- MODULE RateLimiter ----------------------------
(***************************************************************************)
(* The fixed-window limiter of core/stores.js as functions of its table    *)
(* and the wall clock.  A table is the Map of windows in the order of its  *)
(* iteration: a new key goes to the end, a renewed one keeps its place.    *)
(***************************************************************************)
EXTENDS Filters, SequencesExt

CONSTANTS
  WindowTicks,   \* config.rateWindowSeconds
  MaxKeys        \* config.rateMaxKeys

ASSUME LimiterAssumption == WindowTicks \in Nat /\ MaxKeys \in Nat \ {0}

Places(hits, key) == {i \in DOMAIN hits : hits[i].key = key}
Tracked(hits, key) == Places(hits, key) # {}
WindowOf(hits, key) == hits[CHOOSE i \in Places(hits, key) : TRUE]

\* A window ends after its reset, by the clock of now: after a step back it
\* lasts longer.
Live(hits, key, now) == Tracked(hits, key) /\ now <= WindowOf(hits, key).reset

Swept(hits, now) == Kept(hits, {i \in DOMAIN hits : now <= hits[i].reset})

\* A full table is swept, and loses its front as long as it is still full.
WithRoom(hits, now) ==
  LET live == Swept(hits, now)
  IN IF Len(hits) < MaxKeys THEN hits
     ELSE SubSeq(live, IF Len(live) < MaxKeys THEN 1 ELSE Len(live) - MaxKeys + 2, Len(live))

\* allow(): the table after one more request of the key.
Charged(hits, key, now) ==
  LET opened == [key |-> key, count |-> 1, reset |-> now + WindowTicks]
  IN IF Tracked(hits, key)
     THEN [i \in DOMAIN hits |->
            IF hits[i].key # key THEN hits[i]
            ELSE IF now > hits[i].reset THEN opened
            ELSE [hits[i] EXCEPT !.count = @ + 1]]
     ELSE Append(WithRoom(hits, now), opened)

\* allow(): its answer.
allow(hits, key, now, max) == WindowOf(Charged(hits, key, now), key).count <= max

wouldAllow(hits, key, now, max) ==
  Live(hits, key, now) => WindowOf(hits, key).count + 1 <= max
=============================================================================
