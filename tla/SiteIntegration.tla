---------------------------- MODULE SiteIntegration ----------------------------
(***************************************************************************)
(* Attaching a project to Standard.site: pdg init, add, remove, configure, *)
(* inject and repair (internal/cli/integrations.go, init.go, configure.go, *)
(* inject.go, verify.go, internal/inject, internal/reconcile), with scan   *)
(* as the command that writes the state file back as it found it.          *)
(*                                                                         *)
(* One publication record is named in four places: by the personal data    *)
(* server that keeps it, in pdg.yaml, in .pdg/state.json and in the file   *)
(* .well-known/site.standard.publication of the public directory.  `pdg    *)
(* add` writes them one after the other and can stop in between.           *)
(***************************************************************************)
EXTENDS Naturals, Sequences, FiniteSets

CONSTANTS Dids,             \* ATProto identities of the user
          Dirs,             \* directories that can be the public directory
          Procs,            \* slots for running commands
          Faults,           \* kinds of faults that can happen
          Changes,          \* kinds of changes the user makes
          MaxRunning,       \* bound: commands that run at the same time
          MaxPublications,  \* bound: publication records ever created
          MaxFaults,        \* bound: faults in a behaviour
          MaxChanges        \* bound: changes in a behaviour

\* "crash": a process dies between two steps.  "disk": reading or writing a file
\* fails.  "reply": the record is created, but the command sees an error.
FaultKind == {"crash", "disk", "reply"}

\* "init": pdg init of a project that has a configuration.  "remove": pdg remove.
\* "move": public_dir is edited in pdg.yaml.  "clean": a build replaces a public
\* directory, and with it the .well-known file.
ChangeKind == {"init", "remove", "move", "clean"}

ASSUME SiteAssumption ==
  /\ 0 \notin Dids /\ 0 \notin Dirs
  /\ IsFiniteSet(Procs)
  /\ Faults \subseteq FaultKind
  /\ Changes \subseteq ChangeKind
  /\ {MaxRunning, MaxPublications, MaxFaults, MaxChanges} \subseteq Nat

VARIABLES cfg,        \* pdg.yaml
          recorded,   \* the publication in .pdg/state.json
          hasState,   \* whether that file exists
          wellKnown,  \* the publication in the .well-known file of each directory
          created,    \* the identity each publication record was created for
          proc,       \* the process in each slot
          faults,     \* faults so far
          changes     \* changes so far

vars == <<cfg, recorded, hasState, wellKnown, created, proc, faults, changes>>

None == 0
Publications == 1..Len(created)
Fresh == Len(created) + 1

\* StandardSiteIntegration; Enabled goes with Identity and Publication.
Site == [did : Dids, uri : Nat, dir : Dirs]
NoSite == [did |-> None, uri |-> None, dir |-> None]

\* Config: what concerns the integrations.  A project has none before pdg init.
Config == [initialised : BOOLEAN, site : Site \cup {NoSite}, bluesky : BOOLEAN]
NoConfig == [initialised |-> FALSE, site |-> NoSite, bluesky |-> FALSE]
NewConfig == [NoConfig EXCEPT !.initialised = TRUE]

Enabled(c) == c.site # NoSite

Integration == {"standard-site", "bluesky"}
Command == {"init", "add", "remove", "configure", "inject", "repair", "scan"}
Step == {"loadConfig", "loadState", "provision", "check", "publish", "saveConfig",
         "findState", "saveState", "inspect", "write"}

\* A process: its command, the integrations it names and the identity the user
\* chose; where it is; its copy of the configuration and of the recorded
\* publication; and the publication it has to write into a .well-known file.
Active == [cmd : Command, names : SUBSET Integration, did : Dids, pc : Step,
           cfg : Config, recorded : Nat, expected : Nat]
Idle == [cmd |-> "none", names |-> {}, did |-> None, pc |-> "idle",
         cfg |-> NoConfig, recorded |-> None, expected |-> None]
Process == Active \cup {Idle}

Running == {p \in Procs : proc[p].pc # "idle"}

TypeOK ==
  /\ cfg \in Config
  /\ recorded \in Nat
  /\ hasState \in BOOLEAN
  /\ wellKnown \in [Dirs -> Nat]
  /\ created \in Seq(Dids)
  /\ proc \in [Procs -> Process]
  /\ faults \in Nat
  /\ changes \in Nat

Init ==
  /\ cfg = NoConfig
  /\ recorded = None
  /\ hasState = FALSE
  /\ wellKnown = [d \in Dirs |-> None]
  /\ created = << >>
  /\ proc = [p \in Procs |-> Idle]
  /\ faults = 0
  /\ changes = 0

Fault(kind) ==
  /\ kind \in Faults
  /\ faults < MaxFaults
  /\ faults' = faults + 1

Change(kind) ==
  /\ kind \in Changes
  /\ changes < MaxChanges
  /\ changes' = changes + 1

Become(p, q) == proc' = [proc EXCEPT ![p] = q]
Stop(p) == Become(p, Idle)
At(p, pc) == proc[p].pc = pc

-----------------------------------------------------------------------------
(* Starting and abandoning a command.                                      *)

Begin(p, q) ==
  /\ At(p, "idle")
  /\ Cardinality(Running) < MaxRunning
  /\ Become(p, q)
  /\ UNCHANGED <<cfg, recorded, hasState, wellKnown, created, faults>>

\* pdg init looks at no configuration that may be there: it writes a new one, and
\* then an empty state if it finds none.
BeginInit(p, did) ==
  /\ Begin(p, [Idle EXCEPT !.cmd = "init", !.did = did, !.pc = "saveConfig",
                           !.cfg = NewConfig])
  /\ IF cfg.initialised THEN Change("init") ELSE UNCHANGED changes

\* The identity is used by pdg add only.
BeginCommand(p, cmd, names, did) ==
  /\ cmd # "init"
  /\ Begin(p, [Idle EXCEPT !.cmd = cmd, !.names = names, !.did = did, !.pc = "loadConfig"])
  /\ IF cmd = "remove" THEN Change("remove") ELSE UNCHANGED changes

BeginAdd(p, name, did) == BeginCommand(p, "add", {name}, did)
BeginRemove(p, names, did) == BeginCommand(p, "remove", names, did)
BeginOther(p, cmd, did) == BeginCommand(p, cmd, {"standard-site"}, did)

Crash(p) ==
  /\ ~At(p, "idle")
  /\ Fault("crash")
  /\ Stop(p)
  /\ UNCHANGED <<cfg, recorded, hasState, wellKnown, created, changes>>

\* The command ends before it has written anything: the user breaks off a
\* dialogue, a session cannot be had, the request fails, nothing was configured,
\* a page cannot be scanned.
Abandon(p) ==
  /\ \/ At(p, "provision")
     \/ At(p, "saveConfig") /\ proc[p].cmd = "configure"
     \/ At(p, "saveState") /\ proc[p].cmd = "scan"
  /\ Stop(p)
  /\ UNCHANGED <<cfg, recorded, hasState, wellKnown, created, faults, changes>>

-----------------------------------------------------------------------------
(* Reading the project.                                                    *)

\* Mutant: the publication stays enabled without an identity.
RemovedIdentity(c, names) ==
  [c EXCEPT !.site = IF "standard-site" \in names THEN [@ EXCEPT !.did = None] ELSE @,
            !.bluesky = IF "bluesky" \in names THEN FALSE ELSE @]

\* What runRemove makes of the configuration it loaded.
Removed(c, names) ==
  [c EXCEPT !.site = IF "standard-site" \in names THEN NoSite ELSE @,
            !.bluesky = IF "bluesky" \in names THEN FALSE ELSE @]

\* configure, inject and repair want the integration to be configured.
Refuses(p) ==
  \/ ~cfg.initialised
  \/ proc[p].cmd \in {"configure", "inject", "repair"} /\ ~Enabled(cfg)

LoadConfig(p) ==
  /\ At(p, "loadConfig")
  /\ \/ /\ ~Refuses(p)
        /\ Become(p, [proc[p] EXCEPT
             !.cfg = IF proc[p].cmd = "remove" THEN Removed(cfg, proc[p].names) ELSE cfg,
             !.pc = IF proc[p].cmd \in {"remove", "configure"}
                      THEN "saveConfig" ELSE "loadState"])
        /\ UNCHANGED faults
     \/ Refuses(p) /\ Stop(p) /\ UNCHANGED faults
     \/ Fault("disk") /\ Stop(p)
  /\ UNCHANGED <<cfg, recorded, hasState, wellKnown, created, changes>>

LoadState(p) ==
  /\ At(p, "loadState")
  /\ \/ /\ Become(p, [proc[p] EXCEPT
             !.recorded = recorded,
             !.pc = IF proc[p].cmd = "add" THEN "provision"
                    ELSE IF proc[p].cmd = "scan" THEN "saveState" ELSE "inspect"])
        /\ UNCHANGED faults
     \/ Fault("disk") /\ Stop(p)
  /\ UNCHANGED <<cfg, recorded, hasState, wellKnown, created, changes>>

-----------------------------------------------------------------------------
(* pdg add.                                                                *)

Adds(p, name) == At(p, "provision") /\ name \in proc[p].names

EnableBluesky(p) ==
  /\ Adds(p, "bluesky")
  /\ Become(p, [proc[p] EXCEPT !.cfg.bluesky = TRUE, !.pc = "saveConfig"])
  /\ UNCHANGED <<cfg, recorded, hasState, wellKnown, created, faults, changes>>

Conflicts(q) == q.recorded \notin {None, q.cfg.site.uri}

\* Mutant: the configured publication is kept, but not recorded.
KeepUnrecorded(p) ==
  /\ Adds(p, "standard-site")
  /\ Enabled(proc[p].cfg)
  /\ ~Conflicts(proc[p])
  /\ Become(p, [proc[p] EXCEPT !.pc = "saveConfig"])
  /\ UNCHANGED <<cfg, recorded, hasState, wellKnown, created, faults, changes>>

\* Mutant: the configured publication goes over to the identity chosen.
KeepForAnother(p) ==
  /\ Adds(p, "standard-site")
  /\ Enabled(proc[p].cfg)
  /\ ~Conflicts(proc[p])
  /\ Become(p, [proc[p] EXCEPT !.recorded = proc[p].cfg.site.uri,
                               !.cfg.site.did = proc[p].did, !.pc = "saveConfig"])
  /\ UNCHANGED <<cfg, recorded, hasState, wellKnown, created, faults, changes>>

\* The integration is configured: its publication is recorded, unless the state
\* has another one.
KeepPublication(p) ==
  /\ Adds(p, "standard-site")
  /\ Enabled(proc[p].cfg)
  /\ IF Conflicts(proc[p])
       THEN Stop(p)
       ELSE Become(p, [proc[p] EXCEPT !.recorded = proc[p].cfg.site.uri, !.pc = "saveConfig"])
  /\ UNCHANGED <<cfg, recorded, hasState, wellKnown, created, faults, changes>>

\* It is not: a publication is created, for a directory that the user names.
CreatePublication(p, dir) ==
  /\ Adds(p, "standard-site")
  /\ ~Enabled(proc[p].cfg)
  /\ Fresh <= MaxPublications
  /\ created' = Append(created, proc[p].did)
  /\ \/ /\ Become(p, [proc[p] EXCEPT
             !.cfg.site = [did |-> proc[p].did, uri |-> Fresh, dir |-> dir],
             !.recorded = Fresh, !.expected = Fresh, !.pc = "check"])
        /\ UNCHANGED faults
     \/ Fault("reply") /\ Stop(p)
  /\ UNCHANGED <<cfg, recorded, hasState, wellKnown, changes>>

\* Mutant: a file that names another publication is replaced.
CheckNothing(p) ==
  /\ At(p, "check")
  /\ Become(p, [proc[p] EXCEPT !.pc = "publish"])
  /\ UNCHANGED <<cfg, recorded, hasState, wellKnown, created, faults, changes>>

\* injectWellKnown: the command fails when the file names another publication.
CheckWellKnown(p) ==
  LET found == wellKnown[proc[p].cfg.site.dir]  IN
  /\ At(p, "check")
  /\ \/ found = None /\ Become(p, [proc[p] EXCEPT !.pc = "publish"]) /\ UNCHANGED faults
     \/ /\ found = proc[p].expected
        /\ Become(p, [proc[p] EXCEPT !.pc = "saveConfig"])
        /\ UNCHANGED faults
     \/ found \notin {None, proc[p].expected} /\ Stop(p) /\ UNCHANGED faults
     \/ Fault("disk") /\ Stop(p)
  /\ UNCHANGED <<cfg, recorded, hasState, wellKnown, created, changes>>

WriteWellKnown(p) ==
  /\ At(p, "publish")
  /\ \/ /\ wellKnown' = [wellKnown EXCEPT ![proc[p].cfg.site.dir] = proc[p].expected]
        /\ Become(p, [proc[p] EXCEPT !.pc = "saveConfig"])
        /\ UNCHANGED faults
     \/ Fault("disk") /\ Stop(p) /\ UNCHANGED wellKnown
  /\ UNCHANGED <<cfg, recorded, hasState, created, changes>>

\* Mutant: pdg add ends without writing the state.
SaveConfigOnly(p) ==
  /\ At(p, "saveConfig")
  /\ cfg' = proc[p].cfg
  /\ Stop(p)
  /\ UNCHANGED <<recorded, hasState, wellKnown, created, faults, changes>>

\* WriteConfig: pdg.yaml is replaced by the copy.
SaveConfig(p) ==
  /\ At(p, "saveConfig")
  /\ \/ /\ cfg' = proc[p].cfg
        /\ \/ proc[p].cmd = "add" /\ Become(p, [proc[p] EXCEPT !.pc = "saveState"])
           \/ proc[p].cmd = "init" /\ Become(p, [proc[p] EXCEPT !.pc = "findState"])
           \/ proc[p].cmd \in {"remove", "configure"} /\ Stop(p)
        /\ UNCHANGED faults
     \/ Fault("disk") /\ Stop(p) /\ UNCHANGED cfg
  /\ UNCHANGED <<recorded, hasState, wellKnown, created, changes>>

\* pdg init, at the end.
FindState(p) ==
  /\ At(p, "findState")
  /\ \/ ~hasState /\ Become(p, [proc[p] EXCEPT !.pc = "saveState"]) /\ UNCHANGED faults
     \/ hasState /\ Stop(p) /\ UNCHANGED faults
     \/ Fault("disk") /\ Stop(p)
  /\ UNCHANGED <<cfg, recorded, hasState, wellKnown, created, changes>>

\* state.Write: .pdg/state.json is replaced by the copy.
SaveState(p) ==
  /\ At(p, "saveState")
  /\ \/ recorded' = proc[p].recorded /\ hasState' = TRUE /\ UNCHANGED faults
     \/ Fault("disk") /\ UNCHANGED <<recorded, hasState>>
  /\ Stop(p)
  /\ UNCHANGED <<cfg, wellKnown, created, changes>>

-----------------------------------------------------------------------------
(* pdg inject and pdg repair, as far as the publication is concerned.      *)

\* ValidatePublicationURI: the recorded publication is one of the identity.
Valid(q) == q.recorded \in Publications /\ created[q.recorded] = q.cfg.site.did

\* inject writes the file whatever it holds; repair only when it differs.
Intact(q) == q.cmd = "repair" /\ wellKnown[q.cfg.site.dir] = q.recorded

Inspect(p) ==
  /\ At(p, "inspect")
  /\ \/ /\ Valid(proc[p])
        /\ IF Intact(proc[p])
             THEN Stop(p)
             ELSE Become(p, [proc[p] EXCEPT !.expected = proc[p].recorded, !.pc = "write"])
        /\ UNCHANGED faults
     \/ ~Valid(proc[p]) /\ Stop(p) /\ UNCHANGED faults
     \/ Fault("disk") /\ Stop(p)
  /\ UNCHANGED <<cfg, recorded, hasState, wellKnown, created, changes>>

\* materializePublication and RepairStandardSite.
Materialize(p) ==
  /\ At(p, "write")
  /\ \/ /\ wellKnown' = [wellKnown EXCEPT ![proc[p].cfg.site.dir] = proc[p].expected]
        /\ UNCHANGED faults
     \/ Fault("disk") /\ UNCHANGED wellKnown
  /\ Stop(p)
  /\ UNCHANGED <<cfg, recorded, hasState, created, changes>>

-----------------------------------------------------------------------------
(* The user's hand and the site generator.                                 *)

MoveSite ==
  /\ Change("move")
  /\ Enabled(cfg)
  /\ \E dir \in Dirs \ {cfg.site.dir} : cfg' = [cfg EXCEPT !.site.dir = dir]
  /\ UNCHANGED <<recorded, hasState, wellKnown, created, proc, faults>>

CleanBuild ==
  /\ Change("clean")
  /\ \E dir \in Dirs : wellKnown' = [wellKnown EXCEPT ![dir] = None]
  /\ UNCHANGED <<cfg, recorded, hasState, created, proc, faults>>

-----------------------------------------------------------------------------
Advance(p) ==
  \/ LoadConfig(p) \/ LoadState(p)
  \/ EnableBluesky(p) \/ KeepPublication(p) \/ \E dir \in Dirs : CreatePublication(p, dir)
  \/ CheckWellKnown(p) \/ WriteWellKnown(p) \/ SaveConfig(p)
  \/ FindState(p) \/ SaveState(p)
  \/ Inspect(p) \/ Materialize(p)

Start(p, did) ==
  \/ BeginInit(p, did)
  \/ \E name \in Integration : BeginAdd(p, name, did)
  \/ \E names \in SUBSET Integration \ {{}} : BeginRemove(p, names, did)
  \/ \E cmd \in {"configure", "inject", "repair", "scan"} : BeginOther(p, cmd, did)

Next ==
  \/ \E p \in Procs :
       \/ \E did \in Dids : Start(p, did)
       \/ Advance(p) \/ Abandon(p) \/ Crash(p)
  \/ MoveSite \/ CleanBuild

Spec == Init /\ [][Next]_vars

\* The operating system runs every process.  The user keeps adding the
\* integration, without breaking off every time, and keeps repairing it.
FairSpec ==
  /\ Spec
  /\ \A p \in Procs : WF_vars(Advance(p)) /\ SF_vars(KeepPublication(p))
  /\ SF_vars(\E p \in Procs, did \in Dids : BeginAdd(p, "standard-site", did))
  /\ SF_vars(\E p \in Procs, did \in Dids : BeginOther(p, "repair", did))

-----------------------------------------------------------------------------
(* Properties.                                                             *)

OwnPublication(c) ==
  Enabled(c) => c.site.uri \in Publications /\ created[c.site.uri] = c.site.did

\* Of commands that run one at a time: whichever of their writes fail or never
\* happen, and whatever the user edits and a build removes between two steps of one, a
\* publication that pdg.yaml, the state or a .well-known file names exists, and
\* pdg.yaml names it with the very identity it was created for: no command joins the
\* identity of one `pdg add` with the publication of another
\* (internal/cli/integrations.go:100-130).  (It does not take the one at a time:
\* SiteIntegrationProofs has it of commands that overlap in any way.)
PublicationsAreOwn ==
  /\ \A c \in {cfg} \cup {proc[p].cfg : p \in Procs} : OwnPublication(c)
  /\ recorded \in Publications \cup {None}
  /\ \A dir \in Dirs : wellKnown[dir] \in Publications \cup {None}
  /\ \A p \in Procs : {proc[p].recorded, proc[p].expected} \subseteq Publications \cup {None}

\* The state records another publication than the one the project is attached to,
\* and every `pdg add` refuses to go on.
Conflict == Enabled(cfg) /\ recorded \notin {None, cfg.site.uri}

\* Commands that run one at a time leave the publication of pdg.yaml recorded in
\* the state, through every sequence of add, remove, init and edits, unless a
\* fault cut one short; and then the state has none, rather than another one, until
\* pdg.yaml has been changed too.  So publish, inject and repair, which take the
\* publication from the state, find none or the right one
\* (internal/reconcile/reconcile.go:50-57, internal/cli/integrations.go:101-130).
Attached ==
  Running = {} /\ Enabled(cfg) /\ recorded # cfg.site.uri =>
    faults > 0 /\ (Conflict => changes > 0)

\* The state is the authority: a .well-known file that names a publication comes
\* to name another one only when the state records that one (docs/publishing.md:
\* 126; integrations.go:220-224).  Of commands that run one at a time.
StateIsAuthority ==
  [][\A dir \in Dirs :
       wellKnown[dir] # None /\ wellKnown'[dir] \notin {None, wellKnown[dir]} =>
         wellKnown'[dir] = recorded]_vars

\* What a fault leaves of `pdg add` is mended by adding again and repairing: once
\* pdg.yaml has a publication, the state and the .well-known file come to have
\* the same, whatever was removed or moved before, unless the state has another
\* one.  Of commands that run one at a time.
Heals ==
  <>[](Enabled(cfg) /\ ~Conflict => /\ recorded = cfg.site.uri
                                    /\ wellKnown[cfg.site.dir] = cfg.site.uri)

\* `pdg add standard-site` configures the integration, as every command that finds
\* it not configured tells the user ("Standard.site is not configured for this
\* project; run `pdg add standard-site`", internal/cli/publish.go:55): once it has
\* created the publication, it ends early only by a fault.
AddConfigures ==
  [][\A p \in Procs : At(p, "check") /\ proc'[p].pc = "idle" => faults' # faults]_vars

=============================================================================
