----------------------------- MODULE MCSessions -----------------------------
(* Small instances of Sessions for TLC.                                    *)
EXTENDS Sessions, TLC

CONSTANTS p1, p2, q1, q2

MCLogins == {p1, p2}
MCRequests == {q1, q2}
MCOneRequest == {q1}
MCSymmetry == Permutations(MCLogins) \cup Permutations(MCRequests)
=============================================================================
