----------------------------- MODULE MCPublishing -----------------------------
(* Instances of Publishing for TLC: small sites and configurations.         *)
EXTENDS Publishing, TLC

CONSTANT a

\* Two versions that can be published and one without a published time.
P(v, decl) == [ver |-> v, decl |-> decl]

\* A page that is edited, deselected, broken, deleted and brought back, beside
\* one that stays.
APages ==
  {NoPage, P(1, "default"), P(2, "standard"), P(3, "default"),
   P(1, "none"), P(2, "invalid")}
Beside == {[d \in Docs |-> IF d = a THEN page ELSE P(1, "default")] : page \in APages}

\* Pages that never change.
BothPages == {[d \in Docs |-> P(1, "default")]}
PageOrNot == [Docs -> {NoPage, P(1, "default")}]

Symmetry == Permutations(Docs) \cup Permutations(Procs)

Routed(mode) == [enabled |-> TRUE, paths |-> [d \in Docs |-> mode]]
AllConfigs == {Routed(m) : m \in Mode} \cup {[Routed("all") EXCEPT !.enabled = FALSE]}
RoutedAll == {Routed("all")}
AllOrNothing == {Routed("all"), Routed("off")}
=============================================================================
