---------------------------- MODULE MCOrderDesk -----------------------------
(* Small instances of OrderDesk.                                           *)
EXTENDS OrderDesk, TLC

CONSTANTS l0, l1, r1, r2, k1, k2, h1, h2

DeskSymmetry ==
  Permutations(Clerks) \union Permutations(Handlers) \union Permutations(Changes)
=============================================================================
