-------------------------- MODULE MCMetadataPaging --------------------------
(***************************************************************************)
(* MetadataPaging on five keys.                                            *)
(***************************************************************************)
EXTENDS MetadataPaging

FiveKeys == 1..5
SomeLimits == {0, 1, 2, 4}
=============================================================================
