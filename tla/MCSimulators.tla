--------------------------- MODULE MCSimulators ---------------------------
(* Small instances of Simulators for TLC.                                  *)
EXTENDS Simulators
=============================================================================
