----------------------------- MODULE MCShopCache -----------------------------
(* Small instances of ShopCache for TLC.                                   *)
EXTENDS ShopCache, TLC

CONSTANTS r1, r2, w1, w2

MCReaders == {r1, r2}
MCWorkers == {w1, w2}
MCOneWorker == {w1}
MCSymmetry == Permutations(MCReaders) \cup Permutations(MCWorkers)
=============================================================================
