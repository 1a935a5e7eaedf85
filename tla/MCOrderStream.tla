---------------------------- MODULE MCOrderStream ----------------------------
(* Small instances of OrderStream for TLC.                                 *)
EXTENDS OrderStream, TLC

CONSTANTS o1, o2, c1, c2

MCPayloads == {o1, o2}
MCConsumers == {c1, c2}
\* Payloads and consumers are interchangeable where none is reliable.
MCSymmetry == Permutations(MCPayloads) \cup Permutations(MCConsumers)
=============================================================================
