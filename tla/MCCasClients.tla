---------------------------- MODULE MCCasClients ----------------------------
(***************************************************************************)
(* CasClients on small sets.                                               *)
(***************************************************************************)
EXTENDS CasClients, TLC

\* No caller of the RPC other than those of CasClients.
Nobody == {}

Symmetry == Permutations(Clients) \cup Permutations(Values)
              \cup Permutations(CasKeys)
=============================================================================
