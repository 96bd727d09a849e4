----------------------------- MODULE MCAuthStore ------------------------------
(* Instances of AuthStore for TLC.  Accounts are numbers, since the program  *)
(* orders them, so only the processes are symmetric.                         *)
EXTENDS AuthStore, TLC

Symmetry == Permutations(Procs)
=============================================================================
