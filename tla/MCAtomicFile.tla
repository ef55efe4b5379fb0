---------------------------- MODULE MCAtomicFile ----------------------------
(***************************************************************************)
(* AtomicFile for TLC: two concurrent Saves, a Load, deletions.            *)
(***************************************************************************)
EXTENDS AtomicFile

CONSTANTS w1, w2, r1

MCWriters  == {w1, w2}
MCReaders  == {r1}
=============================================================================
