------------------------------ MODULE MCTower ------------------------------
(* Small instances of Tower for TLC.                                       *)
EXTENDS Tower
=============================================================================
