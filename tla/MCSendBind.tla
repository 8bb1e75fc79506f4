----------------------------- MODULE MCSendBind -----------------------------
(* Small instances of SendBind, with Builder, for TLC.                     *)
EXTENDS SendBind, TLC

\* A hash of one bit, so that different traces collide.
MCHash(tr) == Len(SelectSeq(tr, LAMBDA e : e = TaskSpawned)) % 2

\* The wrappers are interchangeable.
MCSymmetry == Permutations(Values)
=============================================================================
