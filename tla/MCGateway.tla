----------------------------- MODULE MCGateway ------------------------------
(***************************************************************************)
(* Gateway on two replicas and two uploads of different length.            *)
(***************************************************************************)
EXTENDS Gateway, TLC

CONSTANTS n1, n2, u1, u2, o1, s1, v1

OneObject == (u1 :> o1) @@ (u2 :> o1)
OneWanted == (v1 :> o1)
OneSegment == (o1 :> s1)
TwoReplicas == (o1 :> <<n1, n2>>)
Lengths == (u1 :> 2) @@ (u2 :> 1)
=============================================================================
