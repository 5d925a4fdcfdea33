------------------------ MODULE MCRegistrationStore ------------------------
EXTENDS RegistrationStore
CONSTANTS b1, b2, k1, k2, k3, c1, c2, s1, s2

Ask(b, k, c, d) == [bucket |-> b, nul |-> k, com |-> c, decl |-> d]
Rec(k, i) == recordOf(Ask(b1, k, c1, "derive"), i)

\* A member whose record may be in the file retries with either commitment and
\* under either statement, another one and, in a second bucket, a newcomer join.
MCRequests ==
  {Ask(b1, k1, c1, "derive"), Ask(b1, k1, c2, "custody"),
   Ask(b1, k2, c1, "derive"), Ask(b2, k3, c1, "derive")}

MCNewFile == {[lines |-> <<>>, acked |-> {}]}

Old(lines, told) == [lines |-> lines, acked |-> told]

\* Files of older builds: two records at one index, a retried record written
\* twice and reported at its second index, an index equal to the count, and one
\* with a gap, which is refused.
MCOldFiles ==
  {Old(<<Header(s1), Rec(k1, 0), Rec(k2, 0)>>, {}),
   Old(<<Header(s1), Rec(k1, 0), Rec(k2, 0), Rec(k1, 1)>>, {Rec(k2, 0), Rec(k1, 1)}),
   Old(<<Rec(k1, 1)>>, {}),
   Old(<<Header(s1), Rec(k1, 0), Rec(k2, 3)>>, {})}

\* A new deployment is among them.
MCAnyFiles == MCOldFiles \union MCNewFile
=============================================================================
