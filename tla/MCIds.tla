------------------------------- MODULE MCIds -------------------------------
(* Small instances of Ids for TLC.                                         *)
EXTENDS Ids
=============================================================================
