----------------------------- MODULE MCPgxStore -----------------------------
(***************************************************************************)
(* PgxStore on two keys, listed together.                                  *)
(***************************************************************************)
EXTENDS PgxStore, TLC

WholeStore == {Keys}

Symmetry == Permutations(Sessions) \cup Permutations(Keys)
=============================================================================
