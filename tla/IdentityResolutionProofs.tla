------------------------ MODULE IdentityResolutionProofs ------------------------
(***************************************************************************)
(* Theorems about IdentityResolution, for any handles, identities, servers *)
(* and any number of changes: an identity is one that its handle, its DID  *)
(* and its servers have agreed on, and what is there is found.             *)
(***************************************************************************)
EXTENDS IdentityResolution, SequenceTheorems, WellFoundedInduction, TLAPS

\* A command has heard everything that was said since it began.
Informed ==
  run.pc # "idle" =>
    /\ Claims(world) \subseteq said.claims /\ Confirms(world) \subseteq said.confirms
    /\ Names(world) \subseteq said.names /\ Answers(world) \subseteq said.answers

\* What it took from an answer was said.
Attested ==
  /\ run.pc \in {"document", "resource", "metadata", "done"} =>
       <<run.handle, run.did>> \in said.claims
  /\ run.pc \in {"resource", "metadata", "done"} =>
       <<run.did, run.handle, run.pds>> \in said.confirms
  /\ run.pc = "metadata" => <<run.pds, run.issuer>> \in said.names

Safe == TypeOK /\ Informed /\ Attested /\ Agreed

\* Undisturbed, it is on the way to what the handle stands for.
OnTheWay ==
  ~run.disturbed =>
    /\ run.pc = "https" => \A e \in Dids : world.dns[run.handle] # Single(e)
    /\ run.pc = "document" => NamedBy(run.handle, run.did)
    /\ run.pc \in {"resource", "metadata"} =>
         run.cmd = "login" /\ StandsFor(run.handle, run.did) /\ LivesOn(run.did, run.pds)
    /\ run.pc = "metadata" => world.resource[run.pds] = <<run.issuer>>

-----------------------------------------------------------------------------
(* The answers and the reference.                                          *)

\* A zone has one record when it is the zone of a single DID.
LEMMA OnlyIsSingle ==
  ASSUME NEW zone \in Zone, NEW d \in Dids
  PROVE  OnlyRecord(zone, d) <=> zone = Single(d)
<1>1. zone = [e \in Dids |-> zone[e]]
  BY DEF Zone
<1> QED
  BY <1>1 DEF OnlyRecord, Single

\* A zone is that of one DID at most.
LEMMA SingleUnique ==
  ASSUME NEW d \in Dids, NEW e \in Dids, Single(d) = Single(e)
  PROVE  d = e
<1>1. Single(d)[d] = 1
  BY DEF Single
<1>2. d # e => Single(e)[d] = 0
  BY DEF Single
<1> QED
  BY <1>1, <1>2

\* A handle names one DID at most.
LEMMA NamedUnique ==
  ASSUME NEW h, NEW d \in Dids, NEW e \in Dids, NamedBy(h, d), NamedBy(h, e)
  PROVE  d = e
<1> QED
  BY SingleUnique DEF NamedBy

\* A set of positions that is not empty has a least one.
LEMMA LeastPosition ==
  ASSUME NEW T, T \subseteq Nat, T # {}
  PROVE  \E x \in T : \A y \in T : x <= y
<1>1. PICK x \in T : \A y \in T : ~(<<y, x>> \in OpToRel(<, Nat))
  BY NatLessThanWellFounded, WFMin, Zenon
<1>2. ASSUME NEW y \in T PROVE x <= y
  <2>1. ~(y < x)
    BY <1>1 DEF OpToRel
  <2> QED
    BY <2>1
<1> QED
  BY <1>2

\* findPDS returns the first usable endpoint.
LEMMA FirstUsable ==
  ASSUME NEW doc \in Document, Usable(doc) # {}
  PROVE  /\ FindPDS(doc) \in Servers
         /\ \E i \in DOMAIN doc.services :
              /\ doc.services[i] = FindPDS(doc)
              /\ \A j \in 1..(i - 1) : doc.services[j] = None
<1> DEFINE services == doc.services
           Least(i) == i \in Usable(doc) /\ \A j \in Usable(doc) : i <= j
           least == CHOOSE i \in Usable(doc) : \A j \in Usable(doc) : i <= j
<1>1. services \in Seq(Servers \cup {None})
  BY DEF Document
<1>2. DOMAIN services = 1..Len(services) /\ Len(services) \in Nat
  BY <1>1
<1>3. Usable(doc) \subseteq Nat
  BY <1>2 DEF Usable
<1>4. \E i \in Usable(doc) : \A j \in Usable(doc) : i <= j
  BY <1>3, LeastPosition
<1>5. least \in Usable(doc) /\ \A j \in Usable(doc) : least <= j
  BY <1>4
<1>6. least \in DOMAIN services /\ services[least] # None
  BY <1>5 DEF Usable
<1>7. services[least] \in Servers
  BY <1>1, <1>2, <1>6
<1>8. FindPDS(doc) = services[least]
  BY DEF FindPDS
<1> HIDE DEF least
<1>9. ASSUME NEW j \in 1..(least - 1) PROVE services[j] = None
  <2>1. j \in DOMAIN services /\ ~(least <= j)
    BY <1>2, <1>6
  <2>2. j \notin Usable(doc)
    BY <2>1, <1>5
  <2> QED
    BY <2>1, <2>2 DEF Usable
<1> QED
  BY <1>6, <1>7, <1>8, <1>9

\* A DID lives on one server at most, and on none when no endpoint is usable.
LEMMA LivesUnique ==
  ASSUME TypeOK, IdentityAssumption,
         NEW d \in Dids, NEW s \in Servers, NEW t \in Servers, LivesOn(d, s), LivesOn(d, t)
  PROVE  s = t
<1> DEFINE services == world.document[d].services
<1>1. services \in Seq(Servers \cup {None})
  BY DEF TypeOK, World, Document
<1>2. DOMAIN services = 1..Len(services) /\ Len(services) \in Nat
  BY <1>1
<1>3. PICK i \in DOMAIN services :
        services[i] = s /\ \A k \in 1..(i - 1) : services[k] = None
  BY DEF LivesOn
<1>4. PICK j \in DOMAIN services :
        services[j] = t /\ \A k \in 1..(j - 1) : services[k] = None
  BY DEF LivesOn
<1>5. s # None /\ t # None
  BY DEF IdentityAssumption
<1> HIDE DEF services
<1>6. i \in Nat /\ j \in Nat /\ i >= 1 /\ j >= 1
  BY <1>2, <1>3, <1>4
<1>7. ~(i < j) /\ ~(j < i)
  <2>1. i < j => i \in 1..(j - 1)
    BY <1>6
  <2>2. j < i => j \in 1..(i - 1)
    BY <1>6
  <2> QED
    BY <2>1, <2>2, <1>3, <1>4, <1>5
<1> QED
  BY <1>3, <1>4, <1>6, <1>7

LEMMA UnusableNowhere ==
  ASSUME IdentityAssumption, NEW d \in Dids, NEW s \in Servers,
         Usable(world.document[d]) = {}
  PROVE  ~LivesOn(d, s)
<1> QED
  BY DEF IdentityAssumption, Usable, LivesOn

-----------------------------------------------------------------------------
(* The steps.                                                              *)

\* Someone changes his mind: the world is another one.
LEMMA ChangeType ==
  ASSUME TypeOK, IdentityAssumption, Change
  PROVE  \E w \in World : ChangeTo(w)
<1>0. world \in World
  BY DEF TypeOK
<1>1. ASSUME NEW h \in Handles, EditZone(h) PROVE \E w \in World : ChangeTo(w)
  <2>1. PICK zone \in Zones : ChangeTo([world EXCEPT !.dns[h] = zone])
    BY <1>1 DEF EditZone
  <2>2. zone \in Zone
    BY DEF IdentityAssumption
  <2>3. [world EXCEPT !.dns[h] = zone] \in World
    BY <1>0, <2>2 DEF World
  <2> QED
    BY <2>1, <2>3
<1>2. ASSUME NEW h \in Handles, EditWellKnown(h) PROVE \E w \in World : ChangeTo(w)
  <2>1. PICK d \in Dids \cup {None} : ChangeTo([world EXCEPT !.wellKnown[h] = d])
    BY <1>2 DEF EditWellKnown
  <2>2. [world EXCEPT !.wellKnown[h] = d] \in World
    BY <1>0 DEF World
  <2> QED
    BY <2>1, <2>2
<1>3. ASSUME NEW d \in Dids, EditDocument(d) PROVE \E w \in World : ChangeTo(w)
  <2>1. PICK doc \in Documents : ChangeTo([world EXCEPT !.document[d] = doc])
    BY <1>3 DEF EditDocument
  <2>2. doc \in Document
    BY DEF IdentityAssumption
  <2>3. [world EXCEPT !.document[d] = doc] \in World
    BY <1>0, <2>2 DEF World
  <2> QED
    BY <2>1, <2>3
<1>4. ASSUME NEW s \in Servers, EditResource(s) PROVE \E w \in World : ChangeTo(w)
  <2>1. PICK res \in Resources : ChangeTo([world EXCEPT !.resource[s] = res])
    BY <1>4 DEF EditResource
  <2>2. res \in Resource
    BY DEF IdentityAssumption
  <2>3. [world EXCEPT !.resource[s] = res] \in World
    BY <1>0, <2>2 DEF World
  <2> QED
    BY <2>1, <2>3
<1>5. ASSUME NEW i \in Issuers, EditMetadata(i) PROVE \E w \in World : ChangeTo(w)
  <2>1. PICK md \in Metadata : ChangeTo([world EXCEPT !.metadata[i] = md])
    BY <1>5 DEF EditMetadata
  <2>2. [world EXCEPT !.metadata[i] = md] \in World
    BY <1>0 DEF World
  <2> QED
    BY <2>1, <2>2
<1> QED
  BY <1>1, <1>2, <1>3, <1>4, <1>5 DEF Change

\* The actions, one by one.
LEMMA NextCases ==
  ASSUME TypeOK, IdentityAssumption, [Next]_vars
  PROVE  \/ \E cmd \in Commands, h \in Handles : Begin(cmd, h)
         \/ LookupTXT \/ FetchWellKnown \/ FetchDocument \/ DiscoverIssuer
         \/ FetchMetadata \/ RequestFails
         \/ \E w \in World : ChangeTo(w)
         \/ UNCHANGED vars
<1> QED
  BY ChangeType DEF Next, Step

\* What everyone says is of the right kind, and so is what a command hears.
LEMMA HeardType ==
  ASSUME NEW w, NEW before,
         before \in [claims : SUBSET (Handles \X Dids),
                     confirms : SUBSET (Dids \X Handles \X Servers),
                     names : SUBSET (Servers \X Issuers), answers : SUBSET Issuers]
  PROVE  /\ Heard(before, w) \in [claims : SUBSET (Handles \X Dids),
                                  confirms : SUBSET (Dids \X Handles \X Servers),
                                  names : SUBSET (Servers \X Issuers),
                                  answers : SUBSET Issuers]
         /\ Heard(before, w).claims = before.claims \cup Claims(w)
         /\ Heard(before, w).confirms = before.confirms \cup Confirms(w)
         /\ Heard(before, w).names = before.names \cup Names(w)
         /\ Heard(before, w).answers = before.answers \cup Answers(w)
<1>1. /\ Claims(w) \subseteq Handles \X Dids
      /\ Confirms(w) \subseteq Dids \X Handles \X Servers
      /\ Names(w) \subseteq Servers \X Issuers /\ Answers(w) \subseteq Issuers
  BY DEF Claims, Confirms, Names, Answers
<1> HIDE DEF Claims, Confirms, Names, Answers
<1> QED
  BY <1>1 DEF Heard

\* A command that begins.
LEMMA StartType ==
  ASSUME NEW cmd \in Commands, NEW h \in Handles
  PROVE  /\ Start(cmd, h) \in Run
         /\ Start(cmd, h).pc = "dns" /\ Start(cmd, h).disturbed = FALSE
<1> QED
  BY DEF Start, Run

\* The DNS has named a DID; or the host of the handle is asked.
LEMMA LookupEffect ==
  ASSUME TypeOK, LookupTXT
  PROVE  /\ run.pc = "dns" /\ run' \in Run
         /\ run'.handle = run.handle /\ run'.cmd = run.cmd
         /\ \/ /\ run'.pc = "document" /\ run'.did \in Dids
               /\ OnlyRecord(world.dns[run.handle], run'.did)
            \/ /\ run'.pc = "https"
               /\ ~run'.disturbed =>
                    \A d \in Dids : ~OnlyRecord(world.dns[run.handle], d)
         /\ UNCHANGED <<world, said, changes>>
<1>0. run \in Run
  BY DEF TypeOK
<1>1. CASE \E d \in Dids : OnlyRecord(world.dns[run.handle], d)
                           /\ run' = [run EXCEPT !.did = d, !.pc = "document"]
  BY <1>0, <1>1 DEF Run, LookupTXT
<1>2. CASE /\ \A d \in Dids : ~OnlyRecord(world.dns[run.handle], d)
           /\ run' = [run EXCEPT !.pc = "https"]
  BY <1>0, <1>2 DEF Run, LookupTXT
<1>3. CASE run' = [run EXCEPT !.pc = "https", !.disturbed = TRUE]
  BY <1>0, <1>3 DEF Run, LookupTXT
<1> QED
  BY <1>1, <1>2, <1>3 DEF LookupTXT

\* The host of the handle has named a DID, or nothing the program knows.
LEMMA WellKnownEffect ==
  ASSUME TypeOK, FetchWellKnown
  PROVE  /\ run.pc = "https" /\ run' \in Run
         /\ run'.handle = run.handle /\ run'.cmd = run.cmd
         /\ run'.disturbed = run.disturbed
         /\ \/ /\ run'.pc = "document" /\ run'.did \in Dids
               /\ world.wellKnown[run.handle] = run'.did
            \/ run'.pc = "failed" /\ world.wellKnown[run.handle] = None
         /\ UNCHANGED <<world, said, changes>>
<1>0. run \in Run /\ world.wellKnown[run.handle] \in Dids \cup {None}
  BY DEF TypeOK, World, Run
<1> DEFINE d == world.wellKnown[run.handle]
<1>1. /\ run.pc = "https"
      /\ run' = IF d = None THEN [run EXCEPT !.pc = "failed"]
                            ELSE [run EXCEPT !.did = d, !.pc = "document"]
      /\ UNCHANGED <<world, said, changes>>
  BY DEF FetchWellKnown
<1> HIDE DEF d
<1>2. d \in Dids \cup {None}
  BY <1>0 DEF d
<1>3. CASE d = None
  <2>1. run' = [run EXCEPT !.pc = "failed"]
    BY <1>1, <1>3
  <2> QED
    BY <2>1, <1>0, <1>1, <1>3 DEF Run, d, Ended
<1>4. CASE d # None
  <2>1. run' = [run EXCEPT !.did = d, !.pc = "document"]
    BY <1>1, <1>4
  <2> QED
    BY <2>1, <1>0, <1>1, <1>2, <1>4 DEF Run, d
<1> QED
  BY <1>3, <1>4

\* The document was the one asked for, with a PDS in it, or it was refused.
LEMMA DocumentEffect ==
  ASSUME TypeOK, FetchDocument
  PROVE  /\ run.pc = "document" /\ run' \in Run
         /\ run'.handle = run.handle /\ run'.cmd = run.cmd /\ run'.did = run.did
         /\ run'.disturbed = run.disturbed
         /\ \/ /\ run'.pc = IF run.cmd = "login" THEN "resource" ELSE "done"
               /\ run'.pds \in Servers
               /\ VerifyIdentity(world.document[run.did], run.did, run.handle)
               /\ Offers(world.document[run.did], run'.pds) /\ LivesOn(run.did, run'.pds)
            \/ /\ run'.pc = "failed"
               /\ \/ ~VerifyIdentity(world.document[run.did], run.did, run.handle)
                  \/ Usable(world.document[run.did]) = {}
         /\ UNCHANGED <<world, said, changes>>
<1> DEFINE doc == world.document[run.did]
<1>0. run \in Run
  BY DEF TypeOK
<1>1. run.pc = "document" /\ UNCHANGED <<world, said, changes>>
  BY DEF FetchDocument
<1>2. doc \in Document
  BY <1>1 DEF TypeOK, World
<1>3. CASE VerifyIdentity(doc, run.did, run.handle) /\ Usable(doc) # {}
  <2>1. run' = [run EXCEPT !.pds = FindPDS(doc),
                           !.pc = IF run.cmd = "login" THEN "resource" ELSE "done"]
    BY <1>3 DEF FetchDocument
  <2>2. /\ FindPDS(doc) \in Servers
        /\ \E i \in DOMAIN doc.services :
             /\ doc.services[i] = FindPDS(doc)
             /\ \A j \in 1..(i - 1) : doc.services[j] = None
    BY <1>2, <1>3, FirstUsable
  <2>3. Offers(doc, FindPDS(doc)) /\ LivesOn(run.did, FindPDS(doc))
    BY <2>2 DEF Offers, LivesOn
  <2>4. /\ run' \in Run /\ run'.pds = FindPDS(doc)
        /\ run'.pc = IF run.cmd = "login" THEN "resource" ELSE "done"
        /\ run'.handle = run.handle /\ run'.cmd = run.cmd /\ run'.did = run.did
        /\ run'.disturbed = run.disturbed
    <3> DEFINE pds == FindPDS(doc)
    <3>1. pds \in Servers
      BY <2>2
    <3> HIDE DEF pds
    <3>2. run' = [run EXCEPT !.pds = pds,
                             !.pc = IF run.cmd = "login" THEN "resource" ELSE "done"]
      BY <2>1 DEF pds
    <3>3. /\ run' \in Run /\ run'.pds = pds
          /\ run'.pc = IF run.cmd = "login" THEN "resource" ELSE "done"
          /\ run'.handle = run.handle /\ run'.cmd = run.cmd /\ run'.did = run.did
          /\ run'.disturbed = run.disturbed
      BY <3>1, <3>2, <1>0 DEF Run, Ended
    <3> QED
      BY <3>3 DEF pds
  <2> QED
    BY <2>2, <2>3, <2>4, <1>1, <1>3
<1>4. CASE ~(VerifyIdentity(doc, run.did, run.handle) /\ Usable(doc) # {})
  <2>1. run' = [run EXCEPT !.pc = "failed"]
    BY <1>4 DEF FetchDocument
  <2> QED
    BY <2>1, <1>0, <1>1, <1>4 DEF Run, Ended
<1> QED
  BY <1>3, <1>4

\* The PDS has named its only issuer, or the command has failed.
LEMMA ResourceEffect ==
  ASSUME TypeOK, DiscoverIssuer
  PROVE  /\ run.pc = "resource" /\ run' \in Run
         /\ run'.handle = run.handle /\ run'.cmd = run.cmd /\ run'.did = run.did
         /\ run'.pds = run.pds /\ run'.disturbed = run.disturbed
         /\ \/ /\ run'.pc = "metadata" /\ run'.issuer \in Issuers
               /\ world.resource[run.pds] = <<run'.issuer>>
            \/ run'.pc = "failed" /\ ~OneServer(world.resource[run.pds])
         /\ UNCHANGED <<world, said, changes>>
<1> DEFINE servers == world.resource[run.pds]
<1>0. run \in Run
  BY DEF TypeOK
<1>1. run.pc = "resource" /\ UNCHANGED <<world, said, changes>>
  BY DEF DiscoverIssuer
<1>2. servers \in Seq(Issuers \cup {None})
  BY <1>1 DEF TypeOK, World, Resource
<1>3. CASE OneServer(servers)
  <2>1. run' = [run EXCEPT !.issuer = servers[1], !.pc = "metadata"]
    BY <1>3 DEF DiscoverIssuer
  <2>2. servers = <<servers[1]>> /\ servers[1] \in Issuers
    BY <1>2, <1>3 DEF OneServer
  <2> DEFINE i == servers[1]
  <2>3. i \in Issuers /\ run' = [run EXCEPT !.issuer = i, !.pc = "metadata"]
    BY <2>1, <2>2
  <2> HIDE DEF i
  <2>4. /\ run' \in Run /\ run'.issuer = i /\ run'.pc = "metadata"
        /\ run'.handle = run.handle /\ run'.cmd = run.cmd /\ run'.did = run.did
        /\ run'.pds = run.pds /\ run'.disturbed = run.disturbed
    BY <2>3, <1>0 DEF Run
  <2>5. servers = <<i>>
    BY <2>2 DEF i
  <2> QED
    BY <2>3, <2>4, <2>5, <1>1
<1>4. CASE ~OneServer(servers)
  <2>1. run' = [run EXCEPT !.pc = "failed"]
    BY <1>4 DEF DiscoverIssuer
  <2> QED
    BY <2>1, <1>0, <1>1, <1>4 DEF Run, Ended
<1> QED
  BY <1>3, <1>4

\* The issuer has answered for itself, or the command has failed.
LEMMA MetadataEffect ==
  ASSUME TypeOK, FetchMetadata
  PROVE  /\ run.pc = "metadata" /\ run' \in Run
         /\ run'.handle = run.handle /\ run'.cmd = run.cmd /\ run'.did = run.did
         /\ run'.pds = run.pds /\ run'.issuer = run.issuer
         /\ run'.disturbed = run.disturbed
         /\ \/ run'.pc = "done" /\ run.issuer \in Answers(world)
            \/ run'.pc = "failed" /\ run.issuer \notin Answers(world)
         /\ UNCHANGED <<world, said, changes>>
<1>0. run \in Run /\ run.pc = "metadata" /\ run.issuer \in Issuers
  BY DEF TypeOK, FetchMetadata
<1>1. run.issuer \in Answers(world) <=> ValidMetadata(world.metadata[run.issuer], run.issuer)
  BY <1>0 DEF Answers, ValidMetadata
<1>2. CASE ValidMetadata(world.metadata[run.issuer], run.issuer)
  <2>1. run' = [run EXCEPT !.pc = "done"] /\ UNCHANGED <<world, said, changes>>
    BY <1>2 DEF FetchMetadata
  <2> QED
    BY <2>1, <1>0, <1>1, <1>2 DEF Run, Ended
<1>3. CASE ~ValidMetadata(world.metadata[run.issuer], run.issuer)
  <2>1. run' = [run EXCEPT !.pc = "failed"] /\ UNCHANGED <<world, said, changes>>
    BY <1>3 DEF FetchMetadata
  <2> QED
    BY <2>1, <1>0, <1>1, <1>3 DEF Run, Ended
<1> QED
  BY <1>2, <1>3

LEMMA FailureEffect ==
  ASSUME TypeOK, RequestFails
  PROVE  /\ run' \in Run /\ run'.pc = "failed" /\ run'.disturbed = TRUE
         /\ UNCHANGED <<world, said, changes>>
<1> QED
  BY DEF TypeOK, RequestFails, Run, Ended

\* The command notices nothing of a change but that there was one.
LEMMA ChangeEffect ==
  ASSUME TypeOK, NEW w \in World, ChangeTo(w)
  PROVE  /\ world' = w /\ said' = Heard(said, w) /\ changes' = changes + 1
         /\ run' \in Run /\ run'.disturbed = TRUE
         /\ run'.handle = run.handle /\ run'.cmd = run.cmd /\ run'.did = run.did
         /\ run'.pds = run.pds /\ run'.issuer = run.issuer /\ run'.pc = run.pc
<1> QED
  BY DEF TypeOK, ChangeTo, Run

-----------------------------------------------------------------------------
(* What is agreed on.                                                      *)

LEMMA SafeInit ==
  ASSUME IdentityAssumption, Init
  PROVE  Safe /\ OnTheWay /\ FindsWhatIsThere
<1>1. PICK h \in Handles : run = [Start("identity", h) EXCEPT !.pc = "idle"]
  BY DEF Init
<1>2. run \in Run /\ run.pc = "idle"
  BY <1>1 DEF Start, Run, Commands, Ended
<1>3. TypeOK
  BY <1>2 DEF Init, IdentityAssumption, TypeOK, Nothing
<1> QED
  BY <1>2, <1>3 DEF Safe, Informed, Attested, Agreed, OnTheWay, FindsWhatIsThere

LEMMA SafeNext ==
  ASSUME IdentityAssumption, Safe, [Next]_vars
  PROVE  Safe'
<1>0. TypeOK /\ Informed /\ Attested /\ Agreed
  BY DEF Safe
<1>1. ASSUME NEW cmd \in Commands, NEW h \in Handles, Begin(cmd, h)
      PROVE  Safe'
  <2>1. run' = Start(cmd, h) /\ said' = Heard(Nothing, world) /\ UNCHANGED <<world, changes>>
    BY <1>1 DEF Begin
  <2>2. run' \in Run /\ run'.pc = "dns"
    BY <2>1, StartType
  <2>3. /\ said' \in [claims : SUBSET (Handles \X Dids),
                      confirms : SUBSET (Dids \X Handles \X Servers),
                      names : SUBSET (Servers \X Issuers), answers : SUBSET Issuers]
        /\ Claims(world) \subseteq said'.claims /\ Confirms(world) \subseteq said'.confirms
        /\ Names(world) \subseteq said'.names /\ Answers(world) \subseteq said'.answers
    BY <2>1, HeardType DEF Nothing
  <2>4. TypeOK'
    BY <2>1, <2>2, <2>3, <1>0 DEF TypeOK
  <2>5. Informed'
    BY <2>1, <2>3 DEF Informed
  <2> QED
    BY <2>2, <2>4, <2>5 DEF Safe, Attested, Agreed
<1>2. CASE LookupTXT
  <2>1. /\ run.pc = "dns" /\ run' \in Run
        /\ run'.handle = run.handle /\ run'.cmd = run.cmd
        /\ \/ /\ run'.pc = "document" /\ run'.did \in Dids
              /\ OnlyRecord(world.dns[run.handle], run'.did)
           \/ run'.pc = "https"
        /\ UNCHANGED <<world, said, changes>>
    BY <1>0, <1>2, LookupEffect
  <2>2. run.handle \in Handles
    BY <1>0 DEF TypeOK, Run
  <2>3. run'.pc = "document" => <<run'.handle, run'.did>> \in Claims(world)
    BY <2>1, <2>2 DEF OnlyRecord, Claims
  <2>4. TypeOK'
    BY <2>1, <1>0 DEF TypeOK
  <2>5. Informed'
    BY <2>1, <1>0 DEF Informed
  <2>6. Attested' /\ Agreed'
    BY <2>1, <2>3, <1>0 DEF Informed, Attested, Agreed
  <2> QED
    BY <2>4, <2>5, <2>6 DEF Safe
<1>3. CASE FetchWellKnown
  <2>1. /\ run.pc = "https" /\ run' \in Run
        /\ run'.handle = run.handle /\ run'.cmd = run.cmd
        /\ \/ /\ run'.pc = "document" /\ run'.did \in Dids
              /\ world.wellKnown[run.handle] = run'.did
           \/ run'.pc = "failed"
        /\ UNCHANGED <<world, said, changes>>
    BY <1>0, <1>3, WellKnownEffect
  <2>2. run.handle \in Handles
    BY <1>0 DEF TypeOK, Run
  <2>3. run'.pc = "document" => <<run'.handle, run'.did>> \in Claims(world)
    BY <2>1, <2>2 DEF Claims
  <2>4. TypeOK'
    BY <2>1, <1>0 DEF TypeOK
  <2>5. Informed'
    BY <2>1, <1>0 DEF Informed
  <2>6. Attested' /\ Agreed'
    BY <2>1, <2>3, <1>0 DEF Informed, Attested, Agreed
  <2> QED
    BY <2>4, <2>5, <2>6 DEF Safe
<1>4. CASE FetchDocument
  <2>1. /\ run.pc = "document" /\ run' \in Run
        /\ run'.handle = run.handle /\ run'.cmd = run.cmd /\ run'.did = run.did
        /\ \/ /\ run'.pc = IF run.cmd = "login" THEN "resource" ELSE "done"
              /\ run'.pds \in Servers
              /\ VerifyIdentity(world.document[run.did], run.did, run.handle)
              /\ Offers(world.document[run.did], run'.pds)
           \/ run'.pc = "failed"
        /\ UNCHANGED <<world, said, changes>>
    BY <1>0, <1>4, DocumentEffect
  <2>2. run.handle \in Handles /\ run.did \in Dids
    BY <1>0, <2>1 DEF TypeOK, Run
  <2>3. run'.pc # "failed" => <<run'.did, run'.handle, run'.pds>> \in Confirms(world)
    BY <2>1, <2>2 DEF VerifyIdentity, Confirms
  <2>4. TypeOK'
    BY <2>1, <2>2, <1>0 DEF TypeOK
  <2>5. Informed'
    BY <2>1, <1>0 DEF Informed
  <2>6. Attested' /\ Agreed'
    BY <2>1, <2>3, <1>0 DEF Informed, Attested, Agreed
  <2> QED
    BY <2>4, <2>5, <2>6 DEF Safe
<1>5. CASE DiscoverIssuer
  <2>1. /\ run.pc = "resource" /\ run' \in Run
        /\ run'.handle = run.handle /\ run'.cmd = run.cmd /\ run'.did = run.did
        /\ run'.pds = run.pds
        /\ \/ /\ run'.pc = "metadata" /\ run'.issuer \in Issuers
              /\ world.resource[run.pds] = <<run'.issuer>>
           \/ run'.pc = "failed"
        /\ UNCHANGED <<world, said, changes>>
    BY <1>0, <1>5, ResourceEffect
  <2>2. run.did \in Dids /\ run.pds \in Servers
    BY <1>0, <2>1 DEF TypeOK
  <2>3. ASSUME run'.pc = "metadata" PROVE <<run'.pds, run'.issuer>> \in Names(world)
    <3>1. /\ 1 \in DOMAIN world.resource[run.pds]
          /\ world.resource[run.pds][1] = run'.issuer /\ run'.issuer \in Issuers
      BY <2>1, <2>3
    <3> QED
      BY <3>1, <2>1, <2>2 DEF Names
  <2>4. TypeOK'
    BY <2>1, <2>2, <1>0 DEF TypeOK
  <2>5. Informed'
    BY <2>1, <1>0 DEF Informed
  <2>6. Attested' /\ Agreed'
    BY <2>1, <2>3, <1>0 DEF Informed, Attested, Agreed
  <2> QED
    BY <2>4, <2>5, <2>6 DEF Safe
<1>6. CASE FetchMetadata
  <2>1. /\ run.pc = "metadata" /\ run' \in Run
        /\ run'.handle = run.handle /\ run'.cmd = run.cmd /\ run'.did = run.did
        /\ run'.pds = run.pds /\ run'.issuer = run.issuer
        /\ \/ run'.pc = "done" /\ run.issuer \in Answers(world)
           \/ run'.pc = "failed"
        /\ UNCHANGED <<world, said, changes>>
    BY <1>0, <1>6, MetadataEffect
  <2>2. run.did \in Dids /\ run.pds \in Servers
    BY <1>0, <2>1 DEF TypeOK
  <2>4. TypeOK'
    BY <2>1, <2>2, <1>0 DEF TypeOK
  <2>5. Informed'
    BY <2>1, <1>0 DEF Informed
  <2>6. Attested' /\ Agreed'
    BY <2>1, <1>0 DEF Informed, Attested, Agreed
  <2> QED
    BY <2>4, <2>5, <2>6 DEF Safe
<1>7. CASE RequestFails
  <2>1. /\ run' \in Run /\ run'.pc = "failed" /\ UNCHANGED <<world, said, changes>>
    BY <1>0, <1>7, FailureEffect
  <2>2. run.pc # "idle"
    BY <1>7 DEF RequestFails, Ended
  <2>3. TypeOK' /\ Informed'
    BY <2>1, <2>2, <1>0 DEF TypeOK, Informed
  <2> QED
    BY <2>1, <2>3 DEF Safe, Attested, Agreed
<1>8. ASSUME NEW w \in World, ChangeTo(w)
      PROVE  Safe'
  <2>1. /\ world' = w /\ said' = Heard(said, w) /\ changes' = changes + 1 /\ run' \in Run
        /\ run'.handle = run.handle /\ run'.cmd = run.cmd /\ run'.did = run.did
        /\ run'.pds = run.pds /\ run'.issuer = run.issuer /\ run'.pc = run.pc
    BY <1>0, <1>8, ChangeEffect
  <2>2. /\ said' \in [claims : SUBSET (Handles \X Dids),
                      confirms : SUBSET (Dids \X Handles \X Servers),
                      names : SUBSET (Servers \X Issuers), answers : SUBSET Issuers]
        /\ said'.claims = said.claims \cup Claims(world')
        /\ said'.confirms = said.confirms \cup Confirms(world')
        /\ said'.names = said.names \cup Names(world')
        /\ said'.answers = said.answers \cup Answers(world')
    BY <2>1, <1>0, HeardType DEF TypeOK
  <2>3. TypeOK'
    BY <2>1, <2>2, <1>0 DEF TypeOK
  <2>4. Informed'
    BY <2>1, <2>2 DEF Informed
  <2>5. Attested' /\ Agreed'
    BY <2>1, <2>2, <1>0 DEF Attested, Agreed
  <2> QED
    BY <2>3, <2>4, <2>5 DEF Safe
<1>9. CASE UNCHANGED vars
  BY <1>0, <1>9 DEF vars, Safe, TypeOK, Informed, Attested, Agreed
<1> QED
  BY <1>0, <1>1, <1>2, <1>3, <1>4, <1>5, <1>6, <1>7, <1>8, <1>9, NextCases

\* Types are correct in every behaviour; in particular each request is made with
\* an answer of the one before (internal/protocol/atproto/resolver.go:41-82).
THEOREM TypeCorrect == Spec => []TypeOK
<1>1. Init => Safe
  BY IdentityAssumption, SafeInit
<1>2. Safe /\ [Next]_vars => Safe'
  BY IdentityAssumption, SafeNext
<1>3. Safe => TypeOK
  BY DEF Safe
<1> QED
  BY <1>1, <1>2, <1>3, PTL DEF Spec

\* Whoever changes what between two requests, an identity is resolved, and a
\* login sent to a server, only when the domain, the DID's document, the PDS and
\* the issuer have each named the next since the command began.
THEOREM AlwaysAgreed == Spec => []Agreed
<1>1. Init => Safe
  BY IdentityAssumption, SafeInit
<1>2. Safe /\ [Next]_vars => Safe'
  BY IdentityAssumption, SafeNext
<1>3. Safe => Agreed
  BY DEF Safe
<1> QED
  BY <1>1, <1>2, <1>3, PTL DEF Spec

-----------------------------------------------------------------------------
(* What is found.                                                          *)

\* With one record the DNS decides, without one the host of the handle.
LEMMA NamingDecides ==
  ASSUME TypeOK, NEW h \in Handles, NEW d \in Dids
  PROVE  /\ OnlyRecord(world.dns[h], d) => NamedBy(h, d)
         /\ (\A e \in Dids : ~OnlyRecord(world.dns[h], e)) =>
              \A e \in Dids : world.dns[h] # Single(e)
<1>1. world.dns[h] \in Zone
  BY DEF TypeOK, World
<1> QED
  BY <1>1, OnlyIsSingle DEF NamedBy

LEMMA WayNext ==
  ASSUME IdentityAssumption, TypeOK, OnTheWay, FindsWhatIsThere, [Next]_vars
  PROVE  OnTheWay' /\ FindsWhatIsThere'
<1>1. ASSUME NEW cmd \in Commands, NEW h \in Handles, Begin(cmd, h)
      PROVE  OnTheWay' /\ FindsWhatIsThere'
  <2>1. run'.pc = "dns"
    BY <1>1, StartType DEF Begin
  <2> QED
    BY <2>1 DEF OnTheWay, FindsWhatIsThere
<1>2. CASE LookupTXT
  <2>1. /\ run.pc = "dns"
        /\ run'.handle = run.handle
        /\ \/ /\ run'.pc = "document" /\ run'.did \in Dids
              /\ OnlyRecord(world.dns[run.handle], run'.did)
           \/ /\ run'.pc = "https"
              /\ ~run'.disturbed => \A d \in Dids : ~OnlyRecord(world.dns[run.handle], d)
        /\ UNCHANGED world
    BY <1>2, LookupEffect
  <2>2. run.handle \in Handles
    BY DEF TypeOK, Run
  <2>3. run'.pc = "document" => NamedBy(run.handle, run'.did)
    BY <2>1, <2>2, NamingDecides
  <2>4. run'.pc = "https" /\ ~run'.disturbed =>
          \A e \in Dids : world'.dns[run'.handle] # Single(e)
    BY <2>1, <2>2, NamingDecides
  <2>5. run'.pc = "document" => NamedBy(run.handle, run.did)'
    BY <2>1, <2>3 DEF NamedBy
  <2> QED
    BY <2>1, <2>4, <2>5 DEF OnTheWay, FindsWhatIsThere
<1>3. CASE FetchWellKnown
  <2>1. /\ run.pc = "https"
        /\ run'.handle = run.handle /\ run'.disturbed = run.disturbed
        /\ \/ /\ run'.pc = "document" /\ run'.did \in Dids
              /\ world.wellKnown[run.handle] = run'.did
           \/ run'.pc = "failed" /\ world.wellKnown[run.handle] = None
        /\ UNCHANGED world
    BY <1>3, WellKnownEffect
  <2>2. ~run.disturbed => \A e \in Dids : world.dns[run.handle] # Single(e)
    BY <2>1 DEF OnTheWay
  <2>3. ~run'.disturbed /\ run'.pc = "document" => NamedBy(run.handle, run.did)'
    BY <2>1, <2>2 DEF NamedBy
  <2>4. ~run'.disturbed /\ run'.pc = "failed" =>
          \A d \in Dids : ~StandsFor(run.handle, d)'
    BY <2>1, <2>2 DEF StandsFor, NamedBy, IdentityAssumption
  <2> QED
    BY <2>1, <2>3, <2>4 DEF OnTheWay, FindsWhatIsThere
<1>4. CASE FetchDocument
  <2>1. /\ run.pc = "document"
        /\ run'.handle = run.handle /\ run'.cmd = run.cmd /\ run'.did = run.did
        /\ run'.disturbed = run.disturbed
        /\ \/ /\ run'.pc = IF run.cmd = "login" THEN "resource" ELSE "done"
              /\ VerifyIdentity(world.document[run.did], run.did, run.handle)
              /\ LivesOn(run.did, run'.pds)
           \/ /\ run'.pc = "failed"
              /\ \/ ~VerifyIdentity(world.document[run.did], run.did, run.handle)
                 \/ Usable(world.document[run.did]) = {}
        /\ UNCHANGED world
    BY <1>4, DocumentEffect
  <2>2. run.did \in Dids /\ (~run.disturbed => NamedBy(run.handle, run.did))
    BY <2>1 DEF OnTheWay, TypeOK
  <2>3. CASE run'.pc # "failed"
    <3>1. ~run'.disturbed => StandsFor(run.handle, run.did)' /\ LivesOn(run.did, run.pds)'
      BY <2>1, <2>2, <2>3 DEF StandsFor, NamedBy, LivesOn, VerifyIdentity
    <3> QED
      BY <2>1, <2>3, <3>1 DEF OnTheWay, FindsWhatIsThere
  <2>4. CASE run'.pc = "failed"
    <3>1. ASSUME ~run'.disturbed, NEW d \in Dids, NEW s \in Servers,
                 StandsFor(run.handle, d), LivesOn(d, s)
          PROVE  FALSE
      <4>1. d = run.did
        BY <3>1, <2>1, <2>2, NamedUnique DEF StandsFor
      <4>2. VerifyIdentity(world.document[run.did], run.did, run.handle)
        BY <3>1, <4>1 DEF StandsFor, VerifyIdentity
      <4>3. Usable(world.document[run.did]) # {}
        BY <3>1, <4>1, <2>2, UnusableNowhere
      <4> QED
        BY <4>2, <4>3, <2>1, <2>4
    <3>2. ASSUME ~run'.disturbed, NEW d \in Dids, NEW s \in Servers
          PROVE  ~(StandsFor(run.handle, d)' /\ LivesOn(d, s)')
      BY <3>1, <3>2, <2>1 DEF StandsFor, NamedBy, LivesOn
    <3> QED
      BY <2>4, <3>2 DEF OnTheWay, FindsWhatIsThere
  <2> QED
    BY <2>3, <2>4
<1>5. CASE DiscoverIssuer
  <2>1. /\ run.pc = "resource"
        /\ run'.handle = run.handle /\ run'.cmd = run.cmd /\ run'.did = run.did
        /\ run'.pds = run.pds /\ run'.disturbed = run.disturbed
        /\ \/ run'.pc = "metadata" /\ world.resource[run.pds] = <<run'.issuer>>
           \/ run'.pc = "failed" /\ ~OneServer(world.resource[run.pds])
        /\ UNCHANGED world
    BY <1>5, ResourceEffect
  <2>2. /\ run.did \in Dids /\ run.pds \in Servers
        /\ ~run.disturbed => /\ run.cmd = "login" /\ StandsFor(run.handle, run.did)
                             /\ LivesOn(run.did, run.pds)
    BY <2>1 DEF OnTheWay, TypeOK
  <2>3. CASE run'.pc = "metadata"
    <3>1. ~run'.disturbed => StandsFor(run.handle, run.did)' /\ LivesOn(run.did, run.pds)'
      BY <2>1, <2>2 DEF StandsFor, NamedBy, LivesOn
    <3> QED
      BY <2>1, <2>2, <2>3, <3>1 DEF OnTheWay, FindsWhatIsThere
  <2>4. CASE run'.pc = "failed"
    <3>1. ASSUME ~run'.disturbed, NEW d \in Dids, NEW s \in Servers, NEW i \in Issuers,
                 StandsFor(run.handle, d), LivesOn(d, s), TrustedBy(i, s)
          PROVE  FALSE
      <4>1. d = run.did
        BY <3>1, <2>1, <2>2, NamedUnique DEF StandsFor
      <4>2. s = run.pds
        BY <3>1, <4>1, <2>1, <2>2, LivesUnique
      <4>3. world.resource[run.pds] = <<i>> /\ i # None
        BY <3>1, <4>2 DEF TrustedBy, IdentityAssumption
      <4>4. OneServer(world.resource[run.pds])
        BY <4>3 DEF OneServer
      <4> QED
        BY <4>4, <2>1, <2>4
    <3>2. ASSUME ~run'.disturbed, NEW d \in Dids, NEW s \in Servers, NEW i \in Issuers
          PROVE  ~(StandsFor(run.handle, d)' /\ LivesOn(d, s)' /\ TrustedBy(i, s)')
      BY <3>1, <3>2, <2>1 DEF StandsFor, NamedBy, LivesOn, TrustedBy, Answers
    <3> QED
      BY <2>1, <2>2, <2>4, <3>2 DEF OnTheWay, FindsWhatIsThere
  <2> QED
    BY <2>1, <2>3, <2>4
<1>6. CASE FetchMetadata
  <2>1. /\ run.pc = "metadata"
        /\ run'.handle = run.handle /\ run'.cmd = run.cmd /\ run'.did = run.did
        /\ run'.pds = run.pds /\ run'.issuer = run.issuer
        /\ run'.disturbed = run.disturbed
        /\ \/ run'.pc = "done" /\ run.issuer \in Answers(world)
           \/ run'.pc = "failed" /\ run.issuer \notin Answers(world)
        /\ UNCHANGED world
    BY <1>6, MetadataEffect
  <2>2. /\ run.did \in Dids /\ run.pds \in Servers
        /\ ~run.disturbed => /\ run.cmd = "login" /\ StandsFor(run.handle, run.did)
                             /\ LivesOn(run.did, run.pds)
                             /\ world.resource[run.pds] = <<run.issuer>>
    BY <2>1 DEF OnTheWay, TypeOK
  <2>3. CASE run'.pc = "done"
    <3>1. ~run'.disturbed => /\ StandsFor(run.handle, run.did)' /\ LivesOn(run.did, run.pds)'
                            /\ TrustedBy(run.issuer, run.pds)'
      BY <2>1, <2>2, <2>3 DEF StandsFor, NamedBy, LivesOn, TrustedBy, Answers
    <3> QED
      BY <2>3, <3>1 DEF OnTheWay, FindsWhatIsThere
  <2>4. CASE run'.pc = "failed"
    <3>1. ASSUME ~run'.disturbed, NEW d \in Dids, NEW s \in Servers, NEW i \in Issuers,
                 StandsFor(run.handle, d), LivesOn(d, s), TrustedBy(i, s)
          PROVE  FALSE
      <4>1. d = run.did
        BY <3>1, <2>1, <2>2, NamedUnique DEF StandsFor
      <4>2. s = run.pds
        BY <3>1, <4>1, <2>1, <2>2, LivesUnique
      <4>3. <<i>> = <<run.issuer>> /\ i \in Answers(world)
        BY <3>1, <4>2, <2>1, <2>2 DEF TrustedBy
      <4>4. i = run.issuer
        BY <4>3
      <4> QED
        BY <4>3, <4>4, <2>1, <2>4
    <3>2. ASSUME ~run'.disturbed, NEW d \in Dids, NEW s \in Servers, NEW i \in Issuers
          PROVE  ~(StandsFor(run.handle, d)' /\ LivesOn(d, s)' /\ TrustedBy(i, s)')
      BY <3>1, <3>2, <2>1 DEF StandsFor, NamedBy, LivesOn, TrustedBy, Answers
    <3> QED
      BY <2>1, <2>2, <2>4, <3>2 DEF OnTheWay, FindsWhatIsThere
  <2> QED
    BY <2>1, <2>3, <2>4
<1>7. CASE RequestFails
  <2>1. run'.disturbed = TRUE
    BY <1>7, FailureEffect
  <2> QED
    BY <2>1 DEF OnTheWay, FindsWhatIsThere
<1>8. ASSUME NEW w \in World, ChangeTo(w)
      PROVE  OnTheWay' /\ FindsWhatIsThere'
  <2>1. run'.disturbed = TRUE
    BY <1>8, ChangeEffect
  <2> QED
    BY <2>1 DEF OnTheWay, FindsWhatIsThere
<1>9. CASE UNCHANGED vars
  BY <1>9 DEF vars, OnTheWay, FindsWhatIsThere, StandsFor, NamedBy, LivesOn, TrustedBy, Answers
<1> QED
  BY <1>1, <1>2, <1>3, <1>4, <1>5, <1>6, <1>7, <1>8, <1>9, NextCases

\* With no request failed and nothing changed, a command ends with what the handle
\* stands for and where that lives, and fails only when there is no such thing.
THEOREM AlwaysFindsWhatIsThere == Spec => []FindsWhatIsThere
<1> DEFINE Inv == Safe /\ OnTheWay /\ FindsWhatIsThere
<1>1. Init => Inv
  BY IdentityAssumption, SafeInit
<1>2. Inv /\ [Next]_vars => Inv'
  <2>1. Safe => TypeOK
    BY DEF Safe
  <2> QED
    BY <2>1, IdentityAssumption, SafeNext, WayNext
<1> QED
  BY <1>1, <1>2, PTL DEF Spec
=============================================================================
