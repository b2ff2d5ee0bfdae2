------------------------ MODULE MCDurableRuntimeCutover -----------------------
(* DurableRuntimeCutover for TLC: the instances that may become candidates   *)
(* are interchangeable, and no operation of the adapter is prompt.           *)
EXTENDS DurableRuntimeCutover, TLC

Symmetry == Permutations(Hosts \ {FirstHost})
=============================================================================
