------------------------------- MODULE SiteOutput -------------------------------
(***************************************************************************)
(* The generated site and what pdg leaves in it: `pdg scan` finds the      *)
(* pages of the output directory and routes them, `pdg publish` gives them *)
(* records, `pdg inject standard-site` writes a link to its record into    *)
(* the head of each page and the .well-known file into the directory       *)
(* (internal/inject), the user deploys the directory, and `pdg verify      *)
(* --live` reads it back over HTTP (internal/reconcile/live.go).           *)
(*                                                                         *)
(* One command runs at a time, but the site generator and the deployment   *)
(* know nothing of pdg and may run at any moment.  A publication is        *)
(* attached throughout; every identity has one, which stands for it.       *)
(***************************************************************************)
EXTENDS ProjectState, PathRouting, FiniteSets

CONSTANTS Files,       \* HTML files the output directory can hold
          Dids,        \* ATProto identities of the user
          Routings,    \* lists of publication paths that pdg.yaml can hold
          Configs,     \* configurations to begin with
          Sites,       \* directories the site generator can make
          Elsewhere,   \* the pages of another directory, for `pdg scan <directory>`
          Canonical,   \* the path of the canonical URL a version of a document declares
          Faults,      \* kinds of faults that can happen
          MaxRecords,  \* bound: document records ever created
          MaxFaults,   \* bound: faults in a behaviour
          MaxChanges   \* bound: builds and changes of pdg.yaml in a behaviour

\* A generated page: its content and the records its links name, 0 being any that
\* is not of this project.
Built == [ver : Versions, decl : Declaration, links : SUBSET Nat]
NoFile == [ver |-> 0, decl |-> "default", links |-> {}]
NoSource == [dir |-> << >>, stem |-> Index, ext |-> "none"]
Directory == [Files -> Built \cup {NoFile}]

\* "crash": the command dies.  "disk": reading or writing a file fails.  A request
\* for a deployed resource can fail at any time; it does no harm and is no fault.
FaultKind == {"crash", "disk"}

ASSUME SiteOutputAssumption ==
  /\ IsFiniteSet(Files)
  /\ Docs = {WebsitePath(f) : f \in Files}
  /\ 0 \notin Dids /\ NoSource \notin Files
  /\ \A paths \in Routings : IsPathList(paths)
  /\ Configs \subseteq [did : Dids, paths : Routings]
  /\ Sites \subseteq Directory
  /\ \A pages \in Sites : \A f \in Files : pages[f].links \subseteq {0}
  /\ Elsewhere \in Directory
  /\ Canonical \in [Docs -> [Versions -> Docs]]
  /\ Faults \subseteq FaultKind
  /\ {MaxRecords, MaxFaults, MaxChanges} \subseteq Nat

VARIABLES output,     \* the output directory
          wellKnown,  \* the publication its .well-known file names
          deployed,   \* the directory as it was deployed last
          project,    \* .pdg/state.json
          source,     \* the file of each document in it
          cfg,        \* pdg.yaml: the identity and the publication paths
          created,    \* document records; the URI of one is its index
          run,        \* the command that is running
          settled,    \* history: nothing has changed since a clean inject
          faults,     \* faults so far
          changes     \* changes so far

vars == <<output, wellKnown, deployed, project, source, cfg, created, run, settled,
          faults, changes>>

None == 0

Config == [did : Dids, paths : Routings]
Deployment == [pages : Directory, wellKnown : Dids \cup {None}]
Record == [doc : Docs, did : Dids]

\* A command: where it is, the documents it has still to look at, the page it has
\* read and is about to replace, and whether it has collected an error.  History:
\* whether a build came between the steps of an inject or a request of a verification
\* failed, the deployments that a verification may have read, and the documents that
\* it has found fault with.
Active == [cmd : {"inject", "verify"}, pc : {"wellKnown", "pages", "replace"},
           left : SUBSET Docs, doc : Docs \cup {<< >>}, page : Built \cup {NoFile},
           failed : BOOLEAN, disturbed : BOOLEAN,
           served : SUBSET Deployment, blamed : SUBSET Docs]
Idle == [cmd |-> "none", pc |-> "idle", left |-> {}, doc |-> << >>, page |-> NoFile,
         failed |-> FALSE, disturbed |-> FALSE, served |-> {}, blamed |-> {}]

TypeOK ==
  /\ output \in Directory
  /\ wellKnown \in Dids \cup {None}
  /\ deployed \in Deployment
  /\ project \in Project
  /\ source \in [Docs -> Files \cup {NoSource}]
  /\ cfg \in Config
  /\ created \in Seq(Record)
  /\ run \in Active \cup {Idle}
  /\ settled \in BOOLEAN
  /\ faults \in Nat
  /\ changes \in Nat

Empty == [f \in Files |-> NoFile]

Init ==
  /\ output \in Sites
  /\ wellKnown = None
  /\ deployed = [pages |-> Empty, wellKnown |-> None]
  /\ project = New
  /\ source = [d \in Docs |-> NoSource]
  /\ cfg \in Configs
  /\ created = << >>
  /\ run = Idle
  /\ settled = FALSE
  /\ faults = 0
  /\ changes = 0

Fault(kind) ==
  /\ kind \in Faults
  /\ faults < MaxFaults
  /\ faults' = faults + 1

Change ==
  /\ changes < MaxChanges
  /\ changes' = changes + 1

\* LoadConfig: every command fails on a configuration it refuses.
Ready == run = Idle /\ ~Refused(cfg.paths)

-----------------------------------------------------------------------------
(* pdg scan                                                                *)

FilesAt(pages, d) == {f \in Files : pages[f] # NoFile /\ WebsitePath(f) = d}

\* What the walk of a directory finds at each website path.
Found(pages) ==
  [d \in Docs |->
     IF FilesAt(pages, d) = {} THEN NoPage
     ELSE LET f == CHOOSE f \in FilesAt(pages, d) : TRUE
          IN [ver  |-> pages[f].ver,
              decl |-> IF FilesAt(pages, d) = {f} THEN pages[f].decl ELSE "clash"]]

Routes == [d \in Docs |-> PublicationMode(d, Normalized(cfg.paths))]

\* Source is set where the document is written anew, and otherwise kept.
Sources(pages) ==
  [d \in Docs |->
     IF FilesAt(pages, d) # {} /\ Routes[d] # "off"
       THEN CHOOSE f \in FilesAt(pages, d) : TRUE
       ELSE source[d]]

Scan(pages) ==
  /\ Ready
  /\ ~ScanFails(Found(pages), Routes)
  /\ project' = ScanStateful(project, Found(pages), Routes)
  /\ source' = Sources(pages)
  /\ settled' = FALSE
  /\ UNCHANGED <<output, wellKnown, deployed, cfg, created, run, faults>>

\* With no argument, or for another directory.
ScanOutput == Scan(output) /\ UNCHANGED changes
ScanElsewhere == Scan(Elsewhere) /\ Change

-----------------------------------------------------------------------------
(* pdg publish: what it does to one document.  (Publishing has the whole of it.) *)

Foreign(d) == created[project[d].uri].did # cfg.did

PublishDocument(d) ==
  LET doc == project[d]  IN
  /\ Ready
  /\ Publishable(doc) /\ ~Noop(doc) /\ ~Rejected(doc)
  /\ \/ /\ doc.uri = 0
        /\ Len(created) < MaxRecords
        /\ created' = Append(created, [doc |-> d, did |-> cfg.did])
        /\ project' = [project EXCEPT ![d] = Published(@, Len(created) + 1)]
     \/ /\ doc.uri # 0 /\ ~Foreign(d)
        /\ project' = [project EXCEPT ![d] = Published(@, doc.uri)]
        /\ UNCHANGED created
  /\ settled' = FALSE
  /\ UNCHANGED <<output, wellKnown, deployed, source, cfg, run, faults, changes>>

-----------------------------------------------------------------------------
(* pdg inject standard-site                                                *)

\* Mutant: documents that are not selected get no link.
SelectedInjectable(d) ==
  /\ project[d].selected
  /\ project[d].status \notin {"missing", "out_of_scope"}
  /\ source[d] # NoSource /\ project[d].uri # 0

Injectable(d) ==
  /\ project[d].status # "missing"
  /\ source[d] # NoSource /\ project[d].uri # 0

BeginInject ==
  /\ Ready
  /\ run' = [Idle EXCEPT !.cmd = "inject", !.pc = "wellKnown",
                         !.left = {d \in Docs : Injectable(d)}]
  /\ UNCHANGED <<output, wellKnown, deployed, project, source, cfg, created, settled,
                 faults, changes>>

At(cmd, pc) == run.cmd = cmd /\ run.pc = pc

\* materializePublication; whether it fails or not, the documents follow.
Materialize ==
  /\ At("inject", "wellKnown")
  /\ \/ wellKnown' = cfg.did /\ run' = [run EXCEPT !.pc = "pages"] /\ UNCHANGED faults
     \/ /\ Fault("disk")
        /\ run' = [run EXCEPT !.pc = "pages", !.failed = TRUE]
        /\ UNCHANGED wellKnown
  /\ UNCHANGED <<output, deployed, project, source, cfg, created, settled, changes>>

\* Mutant: the first error ends the command.
FirstErrorEnds(d, error) ==
  run' = IF error THEN Idle ELSE [run EXCEPT !.left = @ \ {d}]

\* Done with a document, with or without an error; the others follow.
Visited(d, error) == run' = [run EXCEPT !.left = @ \ {d}, !.failed = @ \/ error]

Injecting(d) == At("inject", "pages") /\ d \in run.left
Injected(d) == output[source[d]].links = {project[d].uri}

\* validateDocumentURI and safeSource: the record is one of the identity of
\* pdg.yaml, and the file one that ends in .html.
Injects(d) == ~Foreign(d) /\ source[d].ext = "html"

RefuseDocument(d) ==
  /\ Injecting(d) /\ ~Injects(d)
  /\ Visited(d, TRUE)
  /\ UNCHANGED <<output, wellKnown, deployed, project, source, cfg, created, settled,
                 faults, changes>>

\* The file is not there, or has the link and no other.
SkipDocument(d) ==
  /\ Injecting(d) /\ Injects(d)
  /\ output[source[d]] = NoFile \/ Injected(d)
  /\ Visited(d, FALSE)
  /\ UNCHANGED <<output, wellKnown, deployed, project, source, cfg, created, settled,
                 faults, changes>>

ReadPage(d) ==
  /\ Injecting(d) /\ Injects(d)
  /\ \/ /\ output[source[d]] # NoFile /\ ~Injected(d)
        /\ run' = [run EXCEPT !.pc = "replace", !.doc = d, !.page = output[source[d]]]
        /\ UNCHANGED faults
     \/ Fault("disk") /\ Visited(d, TRUE)
  /\ UNCHANGED <<output, wellKnown, deployed, project, source, cfg, created, settled, changes>>

\* Mutants: the links that are there stay; the link is that of a document still
\* to come.
LinkAdded(page, d) == [page EXCEPT !.links = @ \cup {project[d].uri}]
LinkOfAnother(page, d) ==
  [page EXCEPT !.links = {project[CHOOSE e \in run.left : run.left # {d} => e # d].uri}]

\* Every link to a document record is removed, and the one appended.
Linked(page, d) == [page EXCEPT !.links = {project[d].uri}]

\* atomicWrite, from what was read some time before.
ReplacePage ==
  /\ At("inject", "replace")
  /\ \/ /\ output' = [output EXCEPT ![source[run.doc]] = Linked(run.page, run.doc)]
        /\ run' = [run EXCEPT !.pc = "pages", !.left = @ \ {run.doc},
                              !.doc = << >>, !.page = NoFile]
        /\ UNCHANGED faults
     \/ /\ Fault("disk")
        /\ run' = [run EXCEPT !.pc = "pages", !.left = @ \ {run.doc},
                              !.doc = << >>, !.page = NoFile, !.failed = TRUE]
        /\ UNCHANGED output
  /\ UNCHANGED <<wellKnown, deployed, project, source, cfg, created, settled, changes>>

EndInject ==
  /\ At("inject", "pages") /\ run.left = {}
  /\ settled' = (~run.failed /\ ~run.disturbed)
  /\ run' = Idle
  /\ UNCHANGED <<output, wellKnown, deployed, project, source, cfg, created, faults, changes>>

-----------------------------------------------------------------------------
(* pdg verify --live                                                       *)

\* Every document with a record that has been scanned, whatever its status.
BeginVerify ==
  /\ Ready
  /\ run' = [Idle EXCEPT !.cmd = "verify", !.pc = "wellKnown",
                         !.left = {d \in Docs : project[d].uri # 0},
                         !.served = {deployed}]
  /\ UNCHANGED <<output, wellKnown, deployed, project, source, cfg, created, settled,
                 faults, changes>>

\* A request fails for a reason that is not in the site.
RequestFails(next) == run' = [next EXCEPT !.failed = TRUE, !.disturbed = TRUE]

FetchWellKnown ==
  /\ At("verify", "wellKnown")
  /\ LET next == [run EXCEPT !.pc = "pages"]  IN
       \/ run' = [next EXCEPT !.failed = deployed.wellKnown # cfg.did]
       \/ RequestFails(next)
  /\ UNCHANGED <<output, wellKnown, deployed, project, source, cfg, created, settled,
                 faults, changes>>

CanonicalOf(d) == Canonical[d][project[d].fp]

\* Mutant: a page without any link passes.
NoneWrong(links, uri) == links \subseteq {uri}

\* documentLinks and the three ways to find fault with them.
Correct(links, uri) == links = {uri}

Blaming(next, d) == [next EXCEPT !.failed = TRUE, !.blamed = @ \cup {d}]

\* The server answers the canonical URL with a file at its path, or not at all.
FetchPage(d) ==
  LET next == [run EXCEPT !.left = @ \ {d}]
      found == FilesAt(deployed.pages, CanonicalOf(d))
  IN
  /\ At("verify", "pages") /\ d \in run.left
  /\ \/ /\ Foreign(d) \/ found = {}
        /\ run' = Blaming(next, d)
     \/ /\ ~Foreign(d)
        /\ \E f \in found :
             run' = IF Correct(deployed.pages[f].links, project[d].uri)
                      THEN next ELSE Blaming(next, d)
     \/ ~Foreign(d) /\ RequestFails(next)
  /\ UNCHANGED <<output, wellKnown, deployed, project, source, cfg, created, settled,
                 faults, changes>>

EndVerify ==
  /\ At("verify", "pages") /\ run.left = {}
  /\ run' = Idle
  /\ UNCHANGED <<output, wellKnown, deployed, project, source, cfg, created, settled,
                 faults, changes>>

-----------------------------------------------------------------------------
(* The site generator, the deployment, and the user.                       *)

\* The directory is generated anew from sources that may have changed: from
\* nothing, or leaving the pages that need no change with what pdg put in them.
Build ==
  /\ Change
  /\ \E pages \in Sites :
       \/ output' = pages /\ wellKnown' = None
       \/ /\ output' = [f \in Files |-> IF output[f].ver = pages[f].ver THEN output[f]
                                                                     ELSE pages[f]]
          /\ UNCHANGED wellKnown
  /\ run' = IF run.cmd = "inject" THEN [run EXCEPT !.disturbed = TRUE] ELSE run
  /\ settled' = FALSE
  /\ UNCHANGED <<deployed, project, source, cfg, created, faults>>

Deploy ==
  /\ run.cmd # "inject"
  /\ deployed' = [pages |-> output, wellKnown |-> wellKnown]
  /\ run' = IF run.cmd = "verify" THEN [run EXCEPT !.served = @ \cup {deployed'}] ELSE run
  /\ UNCHANGED <<output, wellKnown, project, source, cfg, created, settled, faults, changes>>

\* The publication paths are edited.  The editor asks nothing of pdg, so they may
\* be such as LoadConfig refuses.
Reroute ==
  /\ run = Idle
  /\ Change
  /\ \E paths \in Routings \ {cfg.paths} : cfg' = [cfg EXCEPT !.paths = paths]
  /\ settled' = FALSE
  /\ UNCHANGED <<output, wellKnown, deployed, project, source, created, run, faults>>

\* pdg remove, and pdg add with another identity: it writes the .well-known file,
\* which a clean build has to have removed.
Readopt ==
  /\ Ready
  /\ Change
  /\ wellKnown = None
  /\ \E did \in Dids \ {cfg.did} : cfg' = [cfg EXCEPT !.did = did] /\ wellKnown' = did
  /\ settled' = FALSE
  /\ UNCHANGED <<output, deployed, project, source, created, run, faults>>

\* A verification changes nothing: one that dies is as good as none.
Crash ==
  /\ run.cmd = "inject"
  /\ Fault("crash")
  /\ run' = Idle
  /\ UNCHANGED <<output, wellKnown, deployed, project, source, cfg, created, settled, changes>>

-----------------------------------------------------------------------------
Inject ==
  \/ Materialize \/ ReplacePage \/ EndInject
  \/ \E d \in Docs : RefuseDocument(d) \/ SkipDocument(d) \/ ReadPage(d)

Verify == FetchWellKnown \/ EndVerify \/ \E d \in Docs : FetchPage(d)

Next ==
  \/ ScanOutput \/ ScanElsewhere
  \/ \E d \in Docs : PublishDocument(d)
  \/ BeginInject \/ Inject
  \/ BeginVerify \/ Verify
  \/ Build \/ Deploy \/ Reroute \/ Readopt \/ Crash

Spec == Init /\ [][Next]_vars

\* The operating system runs the command.  The user follows the workflow of
\* docs/publishing.md again and again: scan, publish, inject, deploy.
FairSpec ==
  /\ Spec
  /\ WF_vars(Inject \/ Verify)
  /\ SF_vars(ScanOutput) /\ SF_vars(\E d \in Docs : PublishDocument(d))
  /\ SF_vars(BeginInject) /\ SF_vars(Deploy)

-----------------------------------------------------------------------------
(* Properties.                                                             *)

\* The reference for the routing: what the deepest of the paths that cover a
\* document says, "/" being the least of them.
Covering(d) == {item \in ToSet(cfg.paths) : Covers(item, d)}
Deepest(items) == CHOOSE a \in items : \A b \in items : Depth(b) <= Depth(a)

\* A document below a publication path other than "/" is published as the deepest
\* such path says, in whatever order pdg.yaml lists them and however often
\* (internal/scan/stateful.go:249-291, internal/config/publication_path.go:37-69).
DeepestPathRules ==
  ~Refused(cfg.paths) =>
    \A d \in Docs :
      LET below == {item \in Covering(d) : Depth(item) > 0}
      IN  below # {} => Routes[d] = Deepest(below).publish

\* `pdg add` offers "/" as the path to publish (internal/cli/integrations.go:152),
\* and the scan means it to cover every document ("if value == \"/\" ||",
\* internal/scan/stateful.go:278).
RootCoversAll ==
  ~Refused(cfg.paths) /\ (\E item \in ToSet(cfg.paths) : Depth(item) = 0) =>
    \A d \in Docs : Routes[d] # "off"

\* A link that a page carries, on disk or deployed, is that of the record made for
\* the page's own path: not after the page moved to another file, another
\* directory was scanned, the identity changed or a build ran between the reading
\* of a page and its replacement (internal/inject/inject.go:48-73, 127-170).
LinksAreOwn ==
  \A pages \in {output, deployed.pages} : \A f \in Files :
    \A uri \in pages[f].links \ {0} :
      uri \in 1..Len(created) /\ created[uri].doc = WebsitePath(f)

\* Injecting again changes nothing after an inject that ended without an error and
\* undisturbed, and everything it had to do is done ("is safe to repeat after a
\* clean site build", docs/publishing.md:126).
InjectSettles ==
  settled =>
    /\ wellKnown = cfg.did
    /\ \A d \in Docs : Injectable(d) => output[source[d]] = NoFile \/ Injected(d)

\* Reasons for a document not to be found at its canonical URL that no inject
\* and no deployment can remove: its page is gone or has moved since the scan, two
\* files answer its URL, or it declares that of another page.
Unreachable(d) ==
  \/ project[d].status = "missing"
  \/ output[source[d]] = NoFile
  \/ Cardinality(FilesAt(output, d)) # 1
  \/ CanonicalOf(d) # d

\* The workflow verifies: of a cleanly injected directory that is deployed as it is,
\* live verification finds fault with a document only for a reason above, each
\* document for a reason of its own, and for nothing else.  (It compares every
\* document that has a record; inject passes some over: internal/inject/inject.go:48,
\* internal/reconcile/live.go:68-101.)
WorkflowVerifies ==
  /\ run.cmd = "verify" /\ run.served = {deployed}
  /\ settled /\ deployed = [pages |-> output, wellKnown |-> wellKnown]
  => /\ \A d \in run.blamed : Unreachable(d)
     /\ run.failed /\ ~run.disturbed => run.blamed # {}

\* A verification that passes, however often the site is built and deployed while it
\* runs, proves that each thing it looked for was deployed at some moment of it: the
\* attached publication, and the link of every record, at its canonical URL and
\* with no other link beside it.  With no deployment meanwhile, it proves this of the
\* one that is there (internal/reconcile/live.go:24-103).
VerifiedIsLinked ==
  At("verify", "pages") /\ run.left = {} /\ ~run.failed =>
    /\ \E site \in run.served : site.wellKnown = cfg.did
    /\ \A d \in Docs : project[d].uri # 0 =>
         /\ ~Foreign(d)
         /\ \E site \in run.served : \E f \in FilesAt(site.pages, CanonicalOf(d)) :
              site.pages[f].links = {project[d].uri}

\* Once the site and pdg.yaml stop changing, the workflow brings the link of every
\* published document to the deployed site and keeps it there, whatever other
\* documents inject refuses, and whatever failed before.
Deploys ==
  <>[](~Refused(cfg.paths) =>
         /\ deployed.wellKnown = cfg.did
         /\ \A d \in Docs :
              Injectable(d) /\ Injects(d) /\ output[source[d]] # NoFile =>
                deployed.pages[source[d]].links = {project[d].uri})

=============================================================================
