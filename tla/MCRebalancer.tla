---------------------------- MODULE MCRebalancer ----------------------------
(***************************************************************************)
(* Rebalancer on one or two managers; watches are numbered.                *)
(***************************************************************************)
EXTENDS Rebalancer, TLC

CONSTANTS m1, m2

SingleWatch == (1 :> m1)   \* one watch, of a manager that writes as well

Symmetry == Permutations(Nodes)
=============================================================================
