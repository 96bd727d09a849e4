--------------------------- MODULE PublicationLedger ---------------------------
(***************************************************************************)
(* What .pdg/state.json promises about publication, whatever the commands  *)
(* that keep it do meanwhile: a document is unpublished, then has a record *)
(* of its own for good, and then may have a post of its own for good.      *)
(* The state file of Publishing implements it when commands run one at a   *)
(* time; see ImplementsLedger there.                                       *)
(***************************************************************************)
EXTENDS Naturals

CONSTANT Docs

VARIABLES record,  \* the record URI of each document, 0 for none
          post     \* the post URI of each document, 0 for none

vars == <<record, post>>

Init ==
  /\ record = [d \in Docs |-> 0]
  /\ post = [d \in Docs |-> 0]

Publish(d, u) ==
  /\ record[d] = 0 /\ u # 0
  /\ \A e \in Docs : record[e] # u
  /\ record' = [record EXCEPT ![d] = u]
  /\ UNCHANGED post

Post(d, u) ==
  /\ record[d] # 0 /\ post[d] = 0 /\ u # 0
  /\ \A e \in Docs : post[e] # u
  /\ post' = [post EXCEPT ![d] = u]
  /\ UNCHANGED record

Next == \E d \in Docs : \/ Publish(d, record'[d])
                        \/ Post(d, post'[d])

Spec == Init /\ [][Next]_vars
=============================================================================
