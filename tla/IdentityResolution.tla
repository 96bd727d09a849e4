--------------------------- MODULE IdentityResolution ---------------------------
(***************************************************************************)
(* From a handle to an identity and its authorization server               *)
(* (internal/protocol/atproto/resolver.go, handle.go, did.go, pds.go,      *)
(* oauth.go).  `pdg identity` asks the DNS or the host of the handle for a *)
(* DID, and the document of the DID for the handle and the PDS; `pdg login` *)
(* goes on to ask the PDS for its authorization server and that server for *)
(* its metadata.  Each answer comes from another party, which may change   *)
(* its mind between two requests: a handle is given away, an identity      *)
(* changes its handle or moves to another PDS, a server is reconfigured.   *)
(***************************************************************************)
EXTENDS Naturals, Sequences

CONSTANTS Handles,     \* handles, normalized
          Dids,        \* DIDs of the two methods the program knows
          Servers,     \* endpoints of PDSs, well-formed
          Issuers,     \* URLs of authorization servers, well-formed
          None,        \* anything malformed, of an unknown method or not there
          Zones,       \* what the TXT records of a handle can be
          Documents,   \* what the document of a DID can be
          Resources,   \* what a PDS can say of its authorization servers
          Worlds,      \* what everyone says to begin with
          MaxChanges   \* bound: changes of mind

Commands == {"identity", "login"}

\* How many TXT records name each DID; the records of other methods are skipped.
Zone == [Dids -> Nat]
Document == [id : Dids \cup {None}, aka : SUBSET Handles,
             services : Seq(Servers \cup {None})]
Resource == Seq(Issuers \cup {None})

\* sound: the endpoints are https URLs, S256 and a DPoP algorithm are supported.
Metadata == [issuer : Issuers \cup {None}, sound : BOOLEAN]
World == [dns : [Handles -> Zone], wellKnown : [Handles -> Dids \cup {None}],
          document : [Dids -> Document], resource : [Servers -> Resource],
          metadata : [Issuers -> Metadata]]

ASSUME IdentityAssumption ==
  /\ None \notin Dids \cup Servers \cup Issuers
  /\ Zones \subseteq Zone /\ Documents \subseteq Document /\ Resources \subseteq Resource
  /\ Worlds \subseteq World
  /\ MaxChanges \in Nat

VARIABLES world,    \* what everyone says
          run,      \* the command that is running, or how the last one ended
          said,     \* history: what was said since that command began
          changes   \* changes so far

vars == <<world, run, said, changes>>

Ended == {"idle", "done", "failed"}
Run == [cmd : Commands, handle : Handles, did : Dids \cup {None},
        pds : Servers \cup {None}, issuer : Issuers \cup {None},
        pc : {"dns", "https", "document", "resource", "metadata"} \cup Ended,
        disturbed : BOOLEAN]

-----------------------------------------------------------------------------
(* What is said: a handle names a DID; a document is that of its DID, names a *)
(* handle and offers a PDS; a PDS names an issuer; an issuer names itself.    *)

Claims(w) == {c \in Handles \X Dids : w.dns[c[1]][c[2]] > 0 \/ w.wellKnown[c[1]] = c[2]}
Offers(doc, s) == \E i \in DOMAIN doc.services : doc.services[i] = s
Confirms(w) ==
  {c \in Dids \X Handles \X Servers :
     LET doc == w.document[c[1]]
     IN  doc.id = c[1] /\ c[2] \in doc.aka /\ Offers(doc, c[3])}
Names(w) == {c \in Servers \X Issuers : \E i \in DOMAIN w.resource[c[1]] :
                                          w.resource[c[1]][i] = c[2]}
Answers(w) == {i \in Issuers : w.metadata[i].issuer = i /\ w.metadata[i].sound}

Nothing == [claims |-> {}, confirms |-> {}, names |-> {}, answers |-> {}]
Heard(before, w) ==
  [claims |-> before.claims \cup Claims(w), confirms |-> before.confirms \cup Confirms(w),
   names |-> before.names \cup Names(w), answers |-> before.answers \cup Answers(w)]

TypeOK ==
  /\ world \in World
  /\ run \in Run
  /\ run.pc \in {"document", "resource", "metadata", "done"} => run.did \in Dids
  /\ run.pc \in {"resource", "metadata", "done"} => run.pds \in Servers
  /\ run.pc = "metadata" => run.issuer \in Issuers
  /\ said \in [claims : SUBSET (Handles \X Dids),
               confirms : SUBSET (Dids \X Handles \X Servers),
               names : SUBSET (Servers \X Issuers), answers : SUBSET Issuers]
  /\ changes \in Nat

Start(cmd, h) == [cmd |-> cmd, handle |-> h, did |-> None, pds |-> None, issuer |-> None,
                  pc |-> "dns", disturbed |-> FALSE]

Init ==
  /\ world \in Worlds
  /\ \E h \in Handles : run = [Start("identity", h) EXCEPT !.pc = "idle"]
  /\ said = Nothing
  /\ changes = 0

Begin(cmd, h) ==
  /\ run.pc \in Ended
  /\ run' = Start(cmd, h)
  /\ said' = Heard(Nothing, world)
  /\ UNCHANGED <<world, changes>>

-----------------------------------------------------------------------------
(* The requests, one step each.                                            *)

\* Mutant: the first of several records is taken.
SomeRecord(zone, d) == zone[d] > 0

\* parseHandleDNSRecords: one record, and no other, even for the same DID.
OnlyRecord(zone, d) == zone[d] = 1 /\ \A e \in Dids \ {d} : zone[e] = 0

\* resolveHandle: whatever is wrong with the DNS, the host of the handle is asked.
LookupTXT ==
  LET zone == world.dns[run.handle]  IN
  /\ run.pc = "dns"
  /\ \/ \E d \in Dids :
          OnlyRecord(zone, d) /\ run' = [run EXCEPT !.did = d, !.pc = "document"]
     \/ /\ \A d \in Dids : ~OnlyRecord(zone, d)
        /\ run' = [run EXCEPT !.pc = "https"]
     \/ run' = [run EXCEPT !.pc = "https", !.disturbed = TRUE]
  /\ UNCHANGED <<world, said, changes>>

\* A DID of another method is no DID here: the next step has no document for it.
FetchWellKnown ==
  LET did == world.wellKnown[run.handle]  IN
  /\ run.pc = "https"
  /\ run' = IF did = None THEN [run EXCEPT !.pc = "failed"]
                          ELSE [run EXCEPT !.did = did, !.pc = "document"]
  /\ UNCHANGED <<world, said, changes>>

\* Mutant: the document need not name the handle.
VerifyDid(doc, d, h) == doc.id = d

VerifyIdentity(doc, d, h) == doc.id = d /\ h \in doc.aka

\* The endpoints that findPDS does not pass over.
Usable(doc) == {i \in DOMAIN doc.services : doc.services[i] # None}

\* Mutant: the first endpoint, well-formed or not.
FirstPDS(doc) == doc.services[1]

FindPDS(doc) == doc.services[CHOOSE i \in Usable(doc) : \A j \in Usable(doc) : i <= j]

\* resolveDID, verifyIdentity and findPDS; `pdg identity` prints what it has.
FetchDocument ==
  LET doc == world.document[run.did]  IN
  /\ run.pc = "document"
  /\ run' = IF VerifyIdentity(doc, run.did, run.handle) /\ Usable(doc) # {}
              THEN [run EXCEPT !.pds = FindPDS(doc),
                               !.pc = IF run.cmd = "login" THEN "resource" ELSE "done"]
              ELSE [run EXCEPT !.pc = "failed"]
  /\ UNCHANGED <<world, said, changes>>

OneServer(servers) == Len(servers) = 1 /\ servers[1] # None

\* discoverIssuer.
DiscoverIssuer ==
  LET servers == world.resource[run.pds]  IN
  /\ run.pc = "resource"
  /\ run' = IF OneServer(servers)
              THEN [run EXCEPT !.issuer = servers[1], !.pc = "metadata"]
              ELSE [run EXCEPT !.pc = "failed"]
  /\ UNCHANGED <<world, said, changes>>

\* Mutant: the issuer of the metadata is not compared.
SoundMetadata(metadata, i) == metadata.sound

ValidMetadata(metadata, i) == metadata.issuer = i /\ metadata.sound

\* fetchAuthorizationServerMetadata.
FetchMetadata ==
  /\ run.pc = "metadata"
  /\ run' = [run EXCEPT !.pc = IF ValidMetadata(world.metadata[run.issuer], run.issuer)
                                 THEN "done" ELSE "failed"]
  /\ UNCHANGED <<world, said, changes>>

\* No answer, an error, or one that cannot be decoded.  (LookupTXT has its own.)
RequestFails ==
  /\ run.pc \notin Ended \cup {"dns"}
  /\ run' = [run EXCEPT !.pc = "failed", !.disturbed = TRUE]
  /\ UNCHANGED <<world, said, changes>>

Step == \/ LookupTXT \/ FetchWellKnown \/ FetchDocument
        \/ DiscoverIssuer \/ FetchMetadata \/ RequestFails

-----------------------------------------------------------------------------
(* The others.                                                             *)

ChangeTo(w) ==
  /\ changes < MaxChanges
  /\ world' = w
  /\ run' = [run EXCEPT !.disturbed = TRUE]
  /\ said' = Heard(said, w)
  /\ changes' = changes + 1

EditZone(h) == \E zone \in Zones : ChangeTo([world EXCEPT !.dns[h] = zone])
EditWellKnown(h) ==
  \E d \in Dids \cup {None} : ChangeTo([world EXCEPT !.wellKnown[h] = d])
EditDocument(d) == \E doc \in Documents : ChangeTo([world EXCEPT !.document[d] = doc])
EditResource(s) == \E res \in Resources : ChangeTo([world EXCEPT !.resource[s] = res])
EditMetadata(i) == \E md \in Metadata : ChangeTo([world EXCEPT !.metadata[i] = md])

Change ==
  \/ \E h \in Handles : EditZone(h) \/ EditWellKnown(h)
  \/ \E d \in Dids : EditDocument(d)
  \/ \E s \in Servers : EditResource(s)
  \/ \E i \in Issuers : EditMetadata(i)

Next ==
  \/ \E cmd \in Commands, h \in Handles : Begin(cmd, h)
  \/ Step
  \/ Change

Spec == Init /\ [][Next]_vars

-----------------------------------------------------------------------------
(* Properties.                                                             *)

\* An identity is resolved, and a login sent to an authorization server, only
\* when all of them have agreed while the command ran: the handle's domain named
\* the DID, the document of that very DID named that very handle together with
\* the PDS, that PDS named the issuer and the issuer itself.  Neither the owner of
\* a domain nor that of a DID gets an identity by himself, whatever fails and
\* whatever is changed between two requests (resolver.go:41-82, did.go:115-138,
\* oauth.go:124-192, 250-305).
Agreed ==
  run.pc = "done" =>
    /\ <<run.handle, run.did>> \in said.claims
    /\ <<run.did, run.handle, run.pds>> \in said.confirms
    /\ run.cmd = "login" =>
         <<run.pds, run.issuer>> \in said.names /\ run.issuer \in said.answers

\* The reference: what a handle stands for.  The DNS has the last word when it
\* has a single record; the first usable endpoint of the document is the PDS.
Single(d) == [e \in Dids |-> IF e = d THEN 1 ELSE 0]
NamedBy(h, d) ==
  \/ world.dns[h] = Single(d)
  \/ world.wellKnown[h] = d /\ \A e \in Dids : world.dns[h] # Single(e)
StandsFor(h, d) ==
  NamedBy(h, d) /\ world.document[d].id = d /\ h \in world.document[d].aka
LivesOn(d, s) ==
  \E i \in DOMAIN world.document[d].services :
    /\ world.document[d].services[i] = s
    /\ \A j \in 1..(i - 1) : world.document[d].services[j] = None
TrustedBy(i, s) == world.resource[s] = <<i>> /\ i \in Answers(world)

\* Nothing is refused for no reason and nothing else is found: with no request
\* failed and nothing changed, the command ends with what the handle stands for,
\* and fails only when there is no such thing (handle.go:37-61, 128-162,
\* pds.go:10-38).
FindsWhatIsThere ==
  ~run.disturbed =>
    /\ run.pc = "done" =>
         /\ StandsFor(run.handle, run.did) /\ LivesOn(run.did, run.pds)
         /\ run.cmd = "login" => TrustedBy(run.issuer, run.pds)
    /\ run.pc = "failed" =>
         ~\E d \in Dids, s \in Servers :
            /\ StandsFor(run.handle, d) /\ LivesOn(d, s)
            /\ run.cmd = "login" => \E i \in Issuers : TrustedBy(i, s)

=============================================================================
