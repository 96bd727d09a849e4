------------------------ MODULE MCIdentityResolution ------------------------
(* An instance of IdentityResolution for TLC: two handles, two identities,   *)
(* two servers and two issuers.                                              *)
EXTENDS IdentityResolution, TLC

CONSTANTS h, g, d, e, s, t, i, j

ABZones == {[x \in Dids |-> 0], d :> 1 @@ e :> 0, d :> 1 @@ e :> 1, d :> 2 @@ e :> 0}
Doc(id, aka, services) == [id |-> id, aka |-> aka, services |-> services]
ABDocuments ==
  {Doc(d, {h}, <<s>>), Doc(d, {g}, <<s, t>>), Doc(d, {h, g}, <<None, t>>),
   Doc(e, {h}, <<t>>), Doc(e, {g}, << >>)}
ABResources == {<< >>, <<i>>, <<j, i>>, <<None>>}

\* Two identities with a handle each, one of them known to the DNS.
ABWorlds ==
  {[dns |-> h :> (d :> 1 @@ e :> 0) @@ g :> [x \in Dids |-> 0],
    wellKnown |-> h :> None @@ g :> e,
    document |-> d :> Doc(d, {h}, <<s>>) @@ e :> Doc(e, {g}, <<t>>),
    resource |-> s :> <<i>> @@ t :> <<j>>,
    metadata |-> [x \in Issuers |-> [issuer |-> x, sound |-> TRUE]]]}
=============================================================================
