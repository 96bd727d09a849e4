------------------------------ MODULE Publishing ------------------------------
(***************************************************************************)
(* The commands that share .pdg/state.json: `pdg scan`, `pdg publish       *)
(* standard-site` and `pdg post <path>`.  Every run of a command is an     *)
(* operating-system process of its own; there is no lock.  A command loads *)
(* pdg.yaml, then the state, works on its copy, and replaces the file by   *)
(* the whole copy (temporary file, fsync, rename: atomic), so between two  *)
(* of its steps the site, the configuration and the file may change.       *)
(*                                                                         *)
(* What is remote, the records and posts of the account, survives whatever *)
(* happens to a process.  A publication record exists (`pdg add` made it), *)
(* Bluesky is enabled, the identity and its session are valid throughout.  *)
(***************************************************************************)
EXTENDS ProjectState, Sequences, FiniteSets

CONSTANTS Procs,       \* slots for running commands
          Sites,       \* the contents the site directory can have
          Configs,     \* the configurations pdg.yaml can hold
          Faults,      \* kinds of faults that can happen
          MaxRunning,  \* bound: commands that run at the same time
          MaxRecords,  \* bound: document records ever created
          MaxPosts,    \* bound: posts ever created
          MaxFaults,   \* bound: counted faults in a behaviour
          MaxEdits     \* bound: changes of the site and the configuration

\* pdg.yaml: is the integration enabled, and which mode does its path list
\* give to each document.
Config == [enabled : BOOLEAN, paths : [Docs -> Mode]]

\* "network": a request fails without effect; harmless, and not counted.
\* "crash": a process dies between two steps.  "disk": state.Write fails and
\* leaves the old file.  "reply": the server did what was asked, but the client
\* sees an error (connection lost, undecodable body, or the session store
\* failing on the new nonce).  "overlap": a command is started while another runs.
FaultKind == {"crash", "disk", "network", "reply", "overlap"}

ASSUME PublishingAssumption ==
  /\ IsFiniteSet(Procs)
  /\ Sites \subseteq Site
  /\ Configs \subseteq Config
  /\ Faults \subseteq FaultKind
  /\ {MaxRunning, MaxRecords, MaxPosts, MaxFaults, MaxEdits} \subseteq Nat

VARIABLES site,    \* the generated HTML: [Docs -> Page]
          config,  \* pdg.yaml
          file,    \* .pdg/state.json
          remote,  \* document records on the PDS; the URI of one is its index
          posts,   \* posts on Bluesky; the URI of one is its index
          proc,    \* the process in each slot
          faults,  \* counted faults so far
          edits    \* edits so far

vars == <<site, config, file, remote, posts, proc, faults, edits>>

Command == {"scan", "publish", "post"}
Record == [doc : Docs, fp : Versions]

\* A process: what it runs and where it is; the path modes of the
\* configuration it loaded; its copy of the state; the documents it has still
\* to look at; whether it has collected an error.
Active ==
  [cmd : Command, pc : Command \cup {"load", "persist"}, modes : [Docs -> Mode],
   mem : Project, left : SUBSET Docs, failed : BOOLEAN]

AllOff == [d \in Docs |-> "off"]

Idle == [cmd |-> "none", pc |-> "idle", modes |-> AllOff, mem |-> New,
         left |-> {}, failed |-> FALSE]

Process == Active \cup {Idle}

Modes == IF config.enabled THEN config.paths ELSE AllOff

Running == {p \in Procs : proc[p].pc # "idle"}

TypeOK ==
  /\ site \in Site
  /\ config \in Config
  /\ file \in Project
  /\ remote \in Seq(Record)
  /\ posts \in Seq(Docs)
  /\ proc \in [Procs -> Process]
  /\ faults \in Nat
  /\ edits \in Nat

Init ==
  /\ site \in Sites
  /\ config \in Configs
  /\ file = New
  /\ remote = << >>
  /\ posts = << >>
  /\ proc = [p \in Procs |-> Idle]
  /\ faults = 0
  /\ edits = 0

Fault(kind) ==
  /\ kind \in Faults
  /\ faults < MaxFaults
  /\ faults' = faults + 1

Become(p, q) == proc' = [proc EXCEPT ![p] = q]
Stop(p) == Become(p, Idle)

-----------------------------------------------------------------------------
(* Starting a command: it reads pdg.yaml, and in a later step the state.   *)

Begin(p, cmd, docs) ==
  /\ proc[p].pc = "idle"
  /\ Cardinality(Running) < MaxRunning
  /\ IF Running = {} THEN UNCHANGED faults ELSE Fault("overlap")
  /\ Become(p, [Idle EXCEPT !.cmd = cmd, !.pc = "load", !.modes = Modes,
                            !.left = docs])
  /\ UNCHANGED <<site, config, file, remote, posts, edits>>

BeginScan(p) == Begin(p, "scan", {})
BeginPublish(p) == config.enabled /\ Begin(p, "publish", {})
BeginPost(p, d) == Begin(p, "post", {d})

\* state.Load.  A publish goes on to visit every document of the state, in
\* the random order of a map; with none it ends with an error and no effect.
LoadState(p) ==
  /\ proc[p].pc = "load"
  /\ Become(p, [proc[p] EXCEPT
       !.mem = file,
       !.pc = proc[p].cmd,
       !.left = IF proc[p].cmd = "publish"
                  THEN {d \in Docs : file[d].status # "unknown"} ELSE @])
  /\ UNCHANGED <<site, config, file, remote, posts, faults, edits>>

\* Mutant: a publish whose write fails goes on with the next document.
PersistContinues(p) ==
  /\ proc[p].pc = "persist"
  /\ \/ file' = proc[p].mem /\ UNCHANGED faults
     \/ Fault("disk") /\ UNCHANGED file
  /\ IF proc[p].cmd = "publish"
       THEN Become(p, [proc[p] EXCEPT !.pc = "publish"])
       ELSE Stop(p)
  /\ UNCHANGED <<site, config, remote, posts, edits>>

\* state.Write of the whole copy.  A publish goes on with the next document;
\* it returns at once when the write fails.
Persist(p) ==
  /\ proc[p].pc = "persist"
  /\ \/ /\ file' = proc[p].mem
        /\ IF proc[p].cmd = "publish"
             THEN Become(p, [proc[p] EXCEPT !.pc = "publish"])
             ELSE Stop(p)
        /\ UNCHANGED faults
     \/ /\ Fault("disk")
        /\ Stop(p)
        /\ UNCHANGED file
  /\ UNCHANGED <<site, config, remote, posts, edits>>

Crash(p) ==
  /\ proc[p].pc # "idle"
  /\ Fault("crash")
  /\ Stop(p)
  /\ UNCHANGED <<site, config, file, remote, posts, edits>>

-----------------------------------------------------------------------------
(* pdg scan                                                                *)

Walk(p) ==
  /\ proc[p].pc = "scan"
  /\ IF ScanFails(site, proc[p].modes)
       THEN Stop(p)
       ELSE Become(p, [proc[p] EXCEPT
              !.mem = ScanStateful(@, site, proc[p].modes),
              !.pc = "persist"])
  /\ UNCHANGED <<site, config, file, remote, posts, faults, edits>>

-----------------------------------------------------------------------------
(* pdg publish standard-site                                               *)

Visiting(p, d) == proc[p].pc = "publish" /\ d \in proc[p].left

\* Done with document d, with or without an error to report at the end.
Visited(p, d, error) ==
  Become(p, [proc[p] EXCEPT !.left = @ \ {d}, !.failed = @ \/ error])

\* Document d is created or updated at uri: set its target, then persist.
Recorded(p, d, uri) ==
  Become(p, [proc[p] EXCEPT !.left = @ \ {d},
                            !.mem[d] = Published(@, uri),
                            !.pc = "persist"])

SkipDocument(p, d) ==
  /\ Visiting(p, d)
  /\ ~Publishable(proc[p].mem[d]) \/ Noop(proc[p].mem[d])
  /\ Visited(p, d, FALSE)
  /\ UNCHANGED <<site, config, file, remote, posts, faults, edits>>

Due(p, d) ==
  /\ Visiting(p, d)
  /\ Publishable(proc[p].mem[d])
  /\ ~Noop(proc[p].mem[d])

\* Mutant: passes over a document it cannot publish without an error.
RejectSilently(p, d) ==
  /\ Due(p, d)
  /\ Rejected(proc[p].mem[d])
  /\ Visited(p, d, FALSE)
  /\ UNCHANGED <<site, config, file, remote, posts, faults, edits>>

RejectDocument(p, d) ==
  /\ Due(p, d)
  /\ Rejected(proc[p].mem[d])
  /\ Visited(p, d, TRUE)
  /\ UNCHANGED <<site, config, file, remote, posts, faults, edits>>

\* com.atproto.repo.createRecord: the server names the record.
CreateDocument(p, d) ==
  LET doc == proc[p].mem[d]  IN
  /\ Due(p, d) /\ ~Rejected(doc) /\ doc.uri = 0
  /\ Len(remote) < MaxRecords
  /\ remote' = Append(remote, [doc |-> d, fp |-> doc.fp])
  /\ \/ Recorded(p, d, Len(remote) + 1) /\ UNCHANGED faults
     \/ Visited(p, d, TRUE) /\ Fault("reply")
  /\ UNCHANGED <<site, config, file, posts, edits>>

\* com.atproto.repo.putRecord under the record key of the stored URI.
UpdateDocument(p, d) ==
  LET doc == proc[p].mem[d]  IN
  /\ Due(p, d) /\ ~Rejected(doc) /\ doc.uri # 0
  /\ remote' = [remote EXCEPT ![doc.uri].fp = doc.fp]
  /\ \/ Recorded(p, d, doc.uri) /\ UNCHANGED faults
     \/ Visited(p, d, TRUE) /\ Fault("reply")
  /\ UNCHANGED <<site, config, file, posts, edits>>

\* Mutant: the error is ignored and the document taken for created.
FailureIgnored(p, d) ==
  /\ "network" \in Faults
  /\ Due(p, d) /\ ~Rejected(proc[p].mem[d])
  /\ Recorded(p, d, Len(remote) + 1)
  /\ UNCHANGED <<site, config, file, remote, posts, faults, edits>>

RequestFails(p, d) ==
  /\ "network" \in Faults
  /\ Due(p, d) /\ ~Rejected(proc[p].mem[d])
  /\ Visited(p, d, TRUE)
  /\ UNCHANGED <<site, config, file, remote, posts, faults, edits>>

FinishPublish(p) ==
  /\ proc[p].pc = "publish" /\ proc[p].left = {}
  /\ Stop(p)
  /\ UNCHANGED <<site, config, file, remote, posts, faults, edits>>

-----------------------------------------------------------------------------
(* pdg post <path>                                                         *)

\* Mutants: a post before publication; a second post.
PostableUnpublished(doc) == doc.status # "unknown" /\ doc.post = 0
PostableAgain(doc) == doc.status # "unknown" /\ doc.uri # 0

Postable(doc) == doc.status # "unknown" /\ doc.uri # 0 /\ doc.post = 0

RefusePost(p, d) ==
  /\ proc[p].pc = "post" /\ d \in proc[p].left
  /\ ~Postable(proc[p].mem[d])
  /\ Stop(p)
  /\ UNCHANGED <<site, config, file, remote, posts, faults, edits>>

CreatePost(p, d) ==
  /\ proc[p].pc = "post" /\ d \in proc[p].left
  /\ Postable(proc[p].mem[d])
  /\ Len(posts) < MaxPosts
  /\ posts' = Append(posts, d)
  /\ \/ /\ Become(p, [proc[p] EXCEPT !.mem[d] = Posted(@, Len(posts) + 1),
                                     !.pc = "persist"])
        /\ UNCHANGED faults
     \/ Stop(p) /\ Fault("reply")
  /\ UNCHANGED <<site, config, file, remote, edits>>

\* A dry run, or a request that fails without effect.
AbandonPost(p, d) ==
  /\ proc[p].pc = "post" /\ d \in proc[p].left
  /\ Postable(proc[p].mem[d])
  /\ Stop(p)
  /\ UNCHANGED <<site, config, file, remote, posts, faults, edits>>

-----------------------------------------------------------------------------
(* The user rebuilds the site, or edits pdg.yaml (by hand or with           *)
(* `pdg configure`, `pdg add` and `pdg remove`).                            *)

EditSite ==
  /\ edits < MaxEdits
  /\ site' \in Sites \ {site}
  /\ edits' = edits + 1
  /\ UNCHANGED <<config, file, remote, posts, proc, faults>>

EditConfig ==
  /\ edits < MaxEdits
  /\ config' \in Configs \ {config}
  /\ edits' = edits + 1
  /\ UNCHANGED <<site, file, remote, posts, proc, faults>>

-----------------------------------------------------------------------------
\* The steps a process takes by itself once it runs.
Step(p) ==
  \/ LoadState(p) \/ Persist(p) \/ Walk(p) \/ FinishPublish(p)
  \/ \E d \in Docs : \/ SkipDocument(p, d) \/ RejectDocument(p, d)
                     \/ CreateDocument(p, d) \/ UpdateDocument(p, d)
                     \/ RequestFails(p, d)
                     \/ RefusePost(p, d) \/ CreatePost(p, d) \/ AbandonPost(p, d)

Next ==
  \/ \E p \in Procs : \/ BeginScan(p) \/ BeginPublish(p)
                      \/ \E d \in Docs : BeginPost(p, d)
                      \/ Step(p) \/ Crash(p)
  \/ EditSite \/ EditConfig

Spec == Init /\ [][Next]_vars

\* The scheduler runs every process, and a user who keeps to the workflow of
\* docs/publishing.md goes on running `pdg scan` and `pdg publish`.
FairSpec ==
  /\ Spec
  /\ \A p \in Procs : WF_vars(Step(p)) /\ SF_vars(BeginScan(p)) /\ SF_vars(BeginPublish(p))

-----------------------------------------------------------------------------
(* Safety, whatever runs together and whatever fails.                      *)

OwnUris(project, records, announced) ==
  \A d \in Docs : LET doc == project[d]  IN
    /\ doc.uri # 0 => doc.uri \in 1..Len(records) /\ records[doc.uri].doc = d
    /\ doc.post # 0 => doc.post \in 1..Len(announced) /\ announced[doc.post] = d

\* A URI in the state, or in the copy a command holds, is that of a record (a
\* post) that exists and was made for this very document: no command, however
\* it overlaps with others or fails, confuses two documents' records
\* (internal/publish/publish.go:64-108, internal/post/post.go:73-79).
OwnRecords ==
  /\ OwnUris(file, remote, posts)
  /\ \A p \in Procs : OwnUris(proc[p].mem, remote, posts)

RecordsOf(d) == {u \in 1..Len(remote) : remote[u].doc = d}
PostsOf(d) == {u \in 1..Len(posts) : posts[u] = d}

\* A document has one record and one post, and every further one is the price
\* of a fault that struck between the request and the write of the state, or of a
\* command started while another ran, whose older copy of the state may replace
\* the one with the URI (internal/cli/scan.go:43-66, internal/publish/publish.go:
\* 78-113): never more than one for each.
DuplicatesAreFaults ==
  \A d \in Docs : /\ Cardinality(RecordsOf(d)) <= 1 + faults
                  /\ Cardinality(PostsOf(d)) <= 1 + faults

-----------------------------------------------------------------------------
(* Safety of commands that run one at a time (MaxRunning = 1).             *)

\* A URI once persisted is never dropped or replaced: not when the page is
\* edited, deselected, moved out of every publication path, deleted or brought
\* back, and not by a command that fails (internal/scan/stateful.go:108-136,
\* 143-154, 162-178).
UrisAreKept ==
  [][\A d \in Docs : /\ file[d].uri # 0 => file'[d].uri = file[d].uri
                     /\ file[d].post # 0 => file'[d].post = file[d].post]_vars

\* When a publish ends without an error to report, each document selected in
\* the state is recorded as published in its present content
\* (internal/publish/publish.go:52-115 has six ways to pass over a document).
CleanPublishIsComplete ==
  \A p \in Procs :
    proc[p].pc = "publish" /\ proc[p].left = {} /\ ~proc[p].failed =>
      \A d \in Docs : Publishable(file[d]) => Noop(file[d])

\* The documents whose record does not hold what the project takes it to hold.
OutOfStep(project) ==
  {d \in Docs : project[d].uri # 0 /\ remote[project[d].uri].fp # project[d].pubfp}

\* Between commands the published fingerprint in the state is what the record
\* holds, so a publish that skips an unchanged document skips nothing, save for
\* one document for each fault: after an update whose answer is lost, a page that
\* goes back to its old content is skipped although the record holds the new one
\* (internal/publish/publish.go:78-108).
PublishedIsCurrent == Running = {} => Cardinality(OutOfStep(file)) <= faults

\* Two states of the project that differ as the ledger below allows: nothing
\* new is recorded, or one document gets a record or a post of its own.
Same(old, new, d) == new[d].uri = old[d].uri /\ new[d].post = old[d].post
LedgerStep(old, new) ==
  \/ \A d \in Docs : Same(old, new, d)
  \/ \E d \in Docs :
       /\ \A e \in Docs \ {d} : Same(old, new, e)
       /\ \/ /\ old[d].uri = 0 /\ new[d].uri # 0 /\ new[d].post = old[d].post
             /\ \A e \in Docs : old[e].uri # new[d].uri
          \/ /\ old[d].post = 0 /\ new[d].post # 0 /\ new[d].uri = old[d].uri
             /\ old[d].uri # 0
             /\ \A e \in Docs : old[e].post # new[d].post

\* The copy a command works on is the file itself until it has something to
\* write, and then at most one ledger step ahead of it: after a failed or lost
\* request, and from one document to the next, a publish never holds a target
\* the file does not (internal/publish/publish.go:78-113).
CopyIsFresh ==
  \A p \in Procs :
    /\ proc[p].pc \in {"scan", "publish", "post"} => proc[p].mem = file
    /\ proc[p].pc = "persist" => LedgerStep(file, proc[p].mem)

\* What a document can go through, for a reader of the state file who knows
\* nothing of scans and processes: unpublished, published, posted.
Ledger == INSTANCE PublicationLedger WITH
            record <- [d \in Docs |-> file[d].uri],
            post <- [d \in Docs |-> file[d].post]

\* The state file implements the ledger: one document at a time, a post only
\* after a record, each at most once and under a URI no other document has.
ImplementsLedger == Ledger!Spec

\* A record is created or updated only for a document whose page was found,
\* under a publication path, by the last scan.
OnlyRoutedPublished ==
  [][\A p \in Procs, d \in Docs :
       (CreateDocument(p, d) \/ UpdateDocument(p, d)) =>
         proc[p].mem[d].status \notin {"missing", "out_of_scope"}]_vars

-----------------------------------------------------------------------------
(* Liveness.                                                               *)

InSync(d) ==
  Selects(site[d], Modes[d]) /\ site[d].ver \in Dated =>
    file[d].uri # 0 /\ remote[file[d].uri].fp = site[d].ver

\* Once the site and pdg.yaml stop changing (MaxEdits sees to it), repeated
\* scans and publishes bring every selected page that has a published time to
\* the PDS, and keep it there, unless a page cannot be scanned or the
\* integration is disabled; a fault keeps back one page at most, the one whose
\* update lost its answer (internal/scan/stateful.go:101-107,
\* internal/publish/publish.go:52-115).
Converges ==
  <>[](config.enabled /\ ~ScanFails(site, Modes) =>
         Cardinality({d \in Docs : ~InSync(d)}) <= faults)

=============================================================================
