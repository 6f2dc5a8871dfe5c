---------------------------- MODULE MCApiServer ----------------------------
EXTENDS ApiServer

CONSTANTS a1, a2, p1, i1, q1, c1, n1, n2, s1

\* Two hotels whose names hash alike, so that the second needs a timestamp.
MCHash == [n \in {n1, n2} |-> 1]
============================================================================
