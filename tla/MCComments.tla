----------------------------- MODULE MCComments -----------------------------
(* Small instances of Comments for TLC.                                    *)
EXTENDS Comments, TLC

CONSTANTS s1, s2, s3, r1

MCRequests == {s1, s2}
MCReaders == {r1}
MCSymmetry == Permutations(MCRequests)
=============================================================================
