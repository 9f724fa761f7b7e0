--------------------------- MODULE MCPodCollector ---------------------------
(* Instances of PodCollector for TLC.                                      *)
EXTENDS PodCollector, TLC

\* Neither the order of pods nor that of their states is ever looked at.
PodSymmetry == Permutations(Pods) \cup Permutations(Data)

\* Nor is that of the goroutines.
OverlapSymmetry == PodSymmetry \cup Permutations(Reporters)
=============================================================================
