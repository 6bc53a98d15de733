-------------------------- MODULE MCStorageService --------------------------
(***************************************************************************)
(* StorageService on three nodes with two tokens each, two servers and two *)
(* uploads of one segment.                                                 *)
(***************************************************************************)
EXTENDS StorageService

CONSTANTS n1, n2, n3, u1, u2, o1

ThreeNodes == <<n1, n2, n3>>

\* n2 has two tokens in a row; the tokens at the ends are of different nodes.
Positions ==
  (<<n1, 0>> :> 6) @@ (<<n1, 1>> :> 1) @@ (<<n2, 0>> :> 3) @@ (<<n2, 1>> :> 4)
    @@ (<<n3, 0>> :> 2) @@ (<<n3, 1>> :> 7)

Hashes == (o1 :> 3)
OneObject == (u1 :> o1) @@ (u2 :> o1)
OneChunk == (u1 :> 1) @@ (u2 :> 1)
=============================================================================
