---------------------------- MODULE AccountRegistry ----------------------------
(***************************************************************************)
(* What the account index accounts.json promises, whatever the commands    *)
(* that keep it do meanwhile: a set of accounts, of which one is active    *)
(* unless none is known.  The index of AuthStore implements it when        *)
(* commands run one at a time; see ImplementsRegistry there.               *)
(***************************************************************************)
EXTENDS Naturals

CONSTANT Dids  \* accounts, in the order in which they succeed each other

None == 0

VARIABLES known, active

vars == <<known, active>>

Init == known = {} /\ active = None

\* An account becomes known and active.
Login(d) ==
  /\ known' = known \cup {d}
  /\ active' = d

\* A known account becomes active.
Activate(d) ==
  /\ d \in known
  /\ active' = d
  /\ UNCHANGED known

\* An account is forgotten; the first of the others takes its place.
Remove(d) ==
  /\ d \in known
  /\ known' = known \ {d}
  /\ IF active # d THEN UNCHANGED active
     ELSE IF known' = {} THEN active' = None
     ELSE active' \in known' /\ \A e \in known' : active' <= e

Next == \E d \in Dids : Login(d) \/ Activate(d) \/ Remove(d)

Spec == Init /\ [][Next]_vars
=============================================================================
