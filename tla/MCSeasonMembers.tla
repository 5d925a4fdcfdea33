-------------------------- MODULE MCSeasonMembers --------------------------
EXTENDS SeasonMembers, TLC
CONSTANTS k1, k2, k3, k4, k5, m4, m5, r1, r2, r3, r4, v1, x1, x2, timer

\* r1 and r2 are a registration and its retry, r3 and r4 are other keys'.
Retried == (r1 :> k1 @@ r2 :> k1 @@ r3 :> k2 @@ r4 :> k3)
OneEach == (r1 :> k1 @@ v1 :> k1)

\* Two members of the season registered before the gateway booted.
TwoMembers == << [key |-> k4, com |-> m4], [key |-> k5, com |-> m5] >>
NoMembers == <<>>
=============================================================================
