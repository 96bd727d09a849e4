----------------------------- MODULE ProjectState -----------------------------
(***************************************************************************)
(* The durable project state, .pdg/state.json (internal/state), and the    *)
(* function `pdg scan` computes on it (internal/scan/stateful.go).         *)
(*                                                                         *)
(* A document is keyed by its website path.  Its content is a version      *)
(* number, which stands for everything state.Fingerprint hashes: two scans *)
(* see the same fingerprint exactly when they see the same version.  The   *)
(* versions in Dated are those that carry a published time.  Record URIs   *)
(* and post URIs are numbers; 0 is the empty string.                       *)
(***************************************************************************)
EXTENDS Naturals

CONSTANTS Docs,        \* website paths
          Versions,    \* contents a page can have (what Fingerprint tells apart)
          Dated        \* the versions with a published_at

ASSUME VersionsAssumption == Versions \subseteq Nat \ {0} /\ Dated \subseteq Versions

\* config.PublicationPath.Publish of the longest configured path that matches
\* a document; "off" when none does, or when the integration is disabled.
Mode == {"off", "all", "explicit"}

\* The pdg:targets declaration of a page: absent, `none`, `standard-site`, or
\* one ParseHTML rejects.  A "clash" is a path that two HTML files map to.
Declaration == {"default", "none", "standard", "invalid", "clash"}

\* A page on disk; NoPage when the path has no HTML file.
NoPage == [ver |-> 0, decl |-> "default"]
Page == [ver : Versions, decl : Declaration] \cup {NoPage}
Site == [Docs -> Page]

\* DocumentStatus, and "unknown" for a path that is no key of the state.
Status == {"unknown", "discovered", "modified", "unchanged", "missing",
           "unpublished", "out_of_scope"}

\* DocumentState with its one target, standard-site, flattened into it, and
\* the URI of its one post, bluesky.
DocumentState ==
  [status : Status, fp : Versions \cup {0}, selected : BOOLEAN,
   uri : Nat, pubfp : Versions \cup {0}, post : Nat]

NoDocument == [status |-> "unknown", fp |-> 0, selected |-> FALSE,
               uri |-> 0, pubfp |-> 0, post |-> 0]

Project == [Docs -> DocumentState]

\* state.New, which is also what state.Load makes of a missing file.
New == [d \in Docs |-> NoDocument]

\* What publish makes of a document: it passes over one that is not selected, has
\* nothing to do when the record has the present content, and reports an error for
\* a fingerprint without a URI and for a page without a published time.
Publishable(doc) == doc.selected /\ doc.status \notin {"unknown", "missing"}
NoopOncePublished(doc) == doc.uri # 0  \* mutant: never updates
Noop(doc) == doc.uri # 0 /\ doc.pubfp = doc.fp
Rejected(doc) == (doc.uri = 0 /\ doc.pubfp # 0) \/ doc.fp \notin Dated

\* What publish and post note of what they did with the scanned document.
Published(doc, u) == [doc EXCEPT !.uri = u, !.pubfp = doc.fp]
Posted(doc, u) == [doc EXCEPT !.post = u]

-----------------------------------------------------------------------------
\* containsTarget(effectiveTargets(page), standard-site)
Selects(page, mode) ==
  /\ mode # "off"
  /\ page.decl # "none"
  /\ mode = "explicit" => page.decl = "standard"

\* Mutants: the document is forgotten; its status is one nobody knows.
OutOfScopeForgets(prior) == NoDocument
MissingMisspelt(prior) ==
  IF prior.status = "unknown" THEN prior ELSE [prior EXCEPT !.status = "deleted"]

\* A path with a page that lies under no publication path: remembered only if
\* it was known, with its target as it was.
OutOfScope(prior) ==
  IF prior.status = "unknown" THEN prior
                              ELSE [prior EXCEPT !.status = "out_of_scope"]

\* A path the previous state may know and the walk did not meet.
Missing(prior) ==
  IF prior.status \in {"unknown", "out_of_scope"}
    THEN prior
    ELSE [prior EXCEPT !.status = "missing"]

ScanStatus(prior, page, mode) ==
  IF ~Selects(page, mode) THEN "unpublished"
  ELSE IF prior.status = "unknown" THEN "discovered"
  ELSE IF prior.fp = page.ver THEN "unchanged" ELSE "modified"

\* Mutants: the scan takes the new content for published; it drops the target
\* of a page that is not selected.
PresentAsPublished(prior, page, mode) ==
  [prior EXCEPT !.status   = ScanStatus(prior, page, mode),
                !.fp       = page.ver,
                !.pubfp    = IF prior.uri = 0 THEN 0 ELSE page.ver,
                !.selected = Selects(page, mode)]
PresentWithoutTarget(prior, page, mode) ==
  [prior EXCEPT !.status   = ScanStatus(prior, page, mode),
                !.fp       = page.ver,
                !.uri      = IF Selects(page, mode) THEN @ ELSE 0,
                !.pubfp    = IF Selects(page, mode) THEN @ ELSE 0,
                !.selected = Selects(page, mode)]

\* A page under a publication path: the target keeps the record URI and the
\* published fingerprint it had, the posts are carried over.
Present(prior, page, mode) ==
  [prior EXCEPT !.status   = ScanStatus(prior, page, mode),
                !.fp       = page.ver,
                !.selected = Selects(page, mode)]

ScanDocument(prior, page, mode) ==
  IF page = NoPage THEN Missing(prior)
  ELSE IF mode = "off" THEN OutOfScope(prior)
  ELSE Present(prior, page, mode)

\* The project after a walk of the site, given the state before it.
ScanStateful(project, site, modes) ==
  [d \in Docs |-> ScanDocument(project[d], site[d], modes[d])]

\* The walk collects errors; with one, the command writes nothing.  Two files
\* for one path clash wherever they lie; a page is parsed only under a path.
ScanFails(site, modes) ==
  \E d \in Docs :
    /\ site[d] # NoPage
    /\ \/ site[d].decl = "clash"
       \/ site[d].decl = "invalid" /\ modes[d] # "off"
=============================================================================
