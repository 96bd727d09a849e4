-------------------------- MODULE MCSiteIntegration ---------------------------
(* Instances of SiteIntegration for TLC.                                     *)
EXTENDS SiteIntegration, TLC

Symmetry == Permutations(Procs) \cup Permutations(Dids) \cup Permutations(Dirs)
=============================================================================
