---------------------------- MODULE MCLSMEngine ----------------------------
(***************************************************************************)
(* LSMEngine instantiated for TLC.                                        *)
(***************************************************************************)
EXTENDS LSMEngine

\* Three keys so that a deeper level can hold two SSTs with disjoint
\* ranges and a key can fall in the gap between them.
MCKeys == {1, 2, 3}

\* put_batch and remove_batch on two keys that are not neighbours.
MCBatchKeys == {{1, 3}}
=============================================================================
