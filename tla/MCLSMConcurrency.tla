-------------------------- MODULE MCLSMConcurrency --------------------------
(***************************************************************************)
(* LSMConcurrency instantiated for TLC.                                   *)
(***************************************************************************)
EXTENDS LSMConcurrency

\* Two keys: one to move between memtable and SSTs, one to fill a table.
MCKeys == {1, 2}
=============================================================================
