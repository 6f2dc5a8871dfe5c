---------------------------- MODULE MCRunReaders ----------------------------
(***************************************************************************)
(* RunReaders for TLC: two runs, one request for history and two clients   *)
(* that observe.  The runs are interchangeable, and so are the clients.    *)
(***************************************************************************)
EXTENDS RunReaders

CONSTANTS r1, r2, q1, o1, o2

MCSymmetry == Permutations({r1, r2}) \cup Permutations({o1, o2})
=============================================================================
