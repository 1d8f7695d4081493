---------------------------- MODULE MCTamaServer ----------------------------
(* TamaServer for TLC: clients are interchangeable.  *)
EXTENDS TamaServer, TLC

Symmetry == Permutations(Addrs)
=============================================================================
