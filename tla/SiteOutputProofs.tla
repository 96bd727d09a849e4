---------------------------- MODULE SiteOutputProofs ----------------------------
(***************************************************************************)
(* Theorems about SiteOutput, for any files, identities, configurations    *)
(* and sites, and any number of builds, changes and faults: what a page    *)
(* links to, what an inject settles, and what a live verification proves.  *)
(***************************************************************************)
EXTENDS SiteOutput, ProjectStateProofs, SequenceTheorems, FiniteSetTheorems,
        WellFoundedInduction

\* What links to own records a directory has.
Own(pages) ==
  \A f \in Files : \A uri \in pages[f].links \ {0} :
    uri \in 1..Len(created) /\ created[uri].doc = WebsitePath(f)

\* A URI of the state is that of a record of the same document.
UrisOwn ==
  \A d \in Docs : project[d].uri # 0 =>
    project[d].uri \in 1..Len(created) /\ created[project[d].uri].doc = d

\* The source of a document is a file at its path, and is known when the document
\* can be published or has been.
SourcesOwn ==
  \A d \in Docs :
    /\ source[d] # NoSource => WebsitePath(source[d]) = d
    /\ project[d].selected \/ project[d].uri # 0 => source[d] # NoSource

\* What an inject has still to look at can be injected.
InjectsKnown ==
  /\ run.cmd = "inject" => \A d \in run.left : Injectable(d)
  /\ run.pc = "replace" => /\ run.cmd = "inject" /\ run.doc \in run.left
                           /\ run.page \in Built

Consistent == TypeOK /\ UrisOwn /\ SourcesOwn /\ InjectsKnown /\ LinksAreOwn

\* Inject is done with a document.
Done(d) == Injects(d) /\ (output[source[d]] = NoFile \/ Injected(d))
Settling ==
  /\ settled =>
       wellKnown = cfg.did /\ \A d \in Docs : Injectable(d) => Done(d)
  /\ run.cmd = "inject" /\ ~run.failed /\ ~run.disturbed =>
       /\ run.pc # "wellKnown" => wellKnown = cfg.did
       /\ \A d \in Docs \ run.left : Injectable(d) => Done(d)
  /\ run.pc = "replace" => Injects(run.doc)

\* What a verification has looked at without finding fault.
Linking(d) ==
  project[d].uri # 0 =>
    /\ ~Foreign(d)
    /\ \E site \in run.served : \E f \in FilesAt(site.pages, CanonicalOf(d)) :
         site.pages[f].links = {project[d].uri}
Verifying ==
  run.cmd = "verify" =>
    /\ deployed \in run.served
    /\ \A d \in run.left : project[d].uri # 0
    /\ run.pc = "wellKnown" => \A d \in Docs \ run.left : project[d].uri = 0
    /\ ~run.failed =>
         /\ run.pc # "wellKnown" => \E site \in run.served : site.wellKnown = cfg.did
         /\ \A d \in Docs \ run.left : Linking(d)

-----------------------------------------------------------------------------
(* Data.                                                                   *)

\* NoFile is no page.
LEMMA NoFileIsNoPage == NoFile \notin Built
BY VersionsAssumption DEF NoFile, Built

LEMMA IdleIsNotActive == Idle \notin Active /\ Idle.cmd = "none" /\ Idle.pc = "idle"
BY DEF Idle, Active

\* A command that is somewhere is not idle.
LEMMA RunningIsActive ==
  ASSUME TypeOK, NEW cmd, NEW pc, At(cmd, pc), pc # "idle"
  PROVE  run \in Active
BY IdleIsNotActive DEF TypeOK, At

\* What a file of a directory can be.
LEMMA FileType ==
  ASSUME NEW pages \in Directory, NEW f \in Files
  PROVE  pages[f] \in Built \cup {NoFile} /\ pages[f].links \subseteq Nat
BY DEF Directory, Built, NoFile

\* What the walk of a directory finds is a site for the scan.
LEMMA FoundType ==
  ASSUME NEW pages \in Directory
  PROVE  Found(pages) \in Site
<1>1. ASSUME NEW d \in Docs
      PROVE  Found(pages)[d] \in Page
  <2>1. CASE FilesAt(pages, d) = {}
    BY <2>1 DEF Found, Page
  <2>2. CASE FilesAt(pages, d) # {}
    <3> DEFINE f == CHOOSE f \in FilesAt(pages, d) : TRUE
    <3>1. f \in FilesAt(pages, d)
      BY <2>2
    <3>2. pages[f] \in Built
      BY <3>1, FileType DEF FilesAt
    <3>3. Found(pages)[d] = [ver |-> pages[f].ver,
            decl |-> IF FilesAt(pages, d) = {f} THEN pages[f].decl ELSE "clash"]
      BY <2>2 DEF Found
    <3> HIDE DEF f
    <3>4. pages[f].ver \in Versions /\ pages[f].decl \in Declaration
      BY <3>2 DEF Built
    <3> QED
      BY <3>3, <3>4 DEF Page, Declaration
  <2> QED
    BY <2>1, <2>2
<1>2. Found(pages) = [d \in Docs |-> Found(pages)[d]]
  BY DEF Found
<1> QED
  BY <1>1, <1>2 DEF Site

\* Where a scan finds a page, there is a file.
LEMMA FoundHasFile ==
  ASSUME NEW pages \in Directory, NEW d \in Docs, Found(pages)[d] # NoPage
  PROVE  FilesAt(pages, d) # {}
BY DEF Found

\* The sources a scan notes.
LEMMA SourcesType ==
  ASSUME TypeOK, NEW pages
  PROVE  /\ Sources(pages) \in [Docs -> Files \cup {NoSource}]
         /\ \A d \in Docs :
              \/ Sources(pages)[d] \in Files /\ WebsitePath(Sources(pages)[d]) = d
              \/ /\ Sources(pages)[d] = source[d]
                 /\ ~(FilesAt(pages, d) # {} /\ Routes[d] # "off")
<1>1. \A e \in Docs : FilesAt(pages, e) # {} =>
        (CHOOSE f \in FilesAt(pages, e) : TRUE) \in FilesAt(pages, e)
  OBVIOUS
<1>2. \A e \in Docs : FilesAt(pages, e) \subseteq Files
  BY DEF FilesAt
<1>3. \A e \in Docs : source[e] \in Files \cup {NoSource}
  BY DEF TypeOK
<1>4. \A e \in Docs : Sources(pages)[e] \in Files \cup {NoSource}
  BY <1>1, <1>2, <1>3 DEF Sources
<1>5. Sources(pages) = [e \in Docs |-> Sources(pages)[e]]
  BY DEF Sources
<1>6. Sources(pages) \in [Docs -> Files \cup {NoSource}]
  BY <1>4, <1>5
<1>7. \A d \in Docs : FilesAt(pages, d) # {} /\ Routes[d] # "off" =>
        Sources(pages)[d] \in FilesAt(pages, d)
  BY <1>1 DEF Sources
<1>8. \A d \in Docs :
        ~(FilesAt(pages, d) # {} /\ Routes[d] # "off") => Sources(pages)[d] = source[d]
  BY DEF Sources
<1> QED
  BY <1>6, <1>7, <1>8 DEF FilesAt

-----------------------------------------------------------------------------
(* The initial states.                                                     *)

LEMMA InitConsistent == Init => Consistent
<1> SUFFICES ASSUME Init PROVE Consistent
  OBVIOUS
<1>1. Empty \in Directory /\ Sites \subseteq Directory
  BY SiteOutputAssumption DEF Empty, Directory
<1>2. \A d \in Docs : project[d] = NoDocument
  BY DEF Init, New
<1>3. TypeOK
  <2>1. output \in Directory /\ cfg \in Config
    BY <1>1, SiteOutputAssumption DEF Init, Config
  <2>2. deployed \in Deployment
    BY <1>1 DEF Init, Deployment
  <2>3. created \in Seq(Record)
    BY EmptySeq DEF Init
  <2> QED
    BY <2>1, <2>2, <2>3, NewType DEF Init, TypeOK
<1>4. UrisOwn /\ SourcesOwn
  BY <1>2 DEF UrisOwn, SourcesOwn, NoDocument, Init
<1>5. InjectsKnown
  BY IdleIsNotActive DEF InjectsKnown, Init
<1>6. LinksAreOwn
  BY SiteOutputAssumption DEF Init, LinksAreOwn, Empty, NoFile
<1> QED
  BY <1>3, <1>4, <1>5, <1>6 DEF Consistent

-----------------------------------------------------------------------------
(* The steps, and what they leave alone.                                   *)

\* Scan, publish and the changes of pdg.yaml happen while no command runs.
Between ==
  \/ \E pages \in {output, Elsewhere} : Scan(pages)
  \/ \E d \in Docs : PublishDocument(d)
  \/ BeginInject \/ BeginVerify \/ Reroute \/ Readopt

\* The steps of a command that is running.
Running == Inject \/ Verify \/ Crash

LEMMA NextCases ==
  ASSUME [Next]_vars
  PROVE  Between \/ Running \/ Build \/ Deploy \/ UNCHANGED vars
BY DEF Next, Between, Running, ScanOutput, ScanElsewhere

\* Neither a running command nor a build nor a deployment touches the state.
LEMMA StateIsKept ==
  ASSUME Running \/ Build \/ Deploy
  PROVE  UNCHANGED <<project, source, cfg, created>>
BY DEF Running, Inject, Verify, Crash, Materialize, ReplacePage, EndInject, RefuseDocument,
       SkipDocument, ReadPage, FetchWellKnown, FetchPage, EndVerify, Build, Deploy

\* Where the state is kept, so is what follows from it.
LEMMA KeptState ==
  ASSUME UNCHANGED <<project, source, cfg, created>>
  PROVE  /\ \A d \in Docs : /\ (Injectable(d))' <=> Injectable(d)
                            /\ (Injects(d))' <=> Injects(d)
                            /\ (CanonicalOf(d))' = CanonicalOf(d)
         /\ UrisOwn' <=> UrisOwn
         /\ SourcesOwn' <=> SourcesOwn
         /\ \A pages \in {output', deployed'.pages} : Own(pages)' <=> Own(pages)
BY DEF Injectable, Injects, Foreign, CanonicalOf, UrisOwn, SourcesOwn, Own

-----------------------------------------------------------------------------
(* Types.                                                                  *)

\* What a build or a deployment does to a command that runs.
LEMMA RunBeside ==
  ASSUME TypeOK, Build \/ Deploy
  PROVE  \/ run' = run
         \/ /\ Build /\ run.cmd = "inject" /\ run \in Active
            /\ run' = [run EXCEPT !.disturbed = TRUE]
         \/ /\ Deploy /\ run.cmd = "verify" /\ run \in Active /\ deployed' \in Deployment
            /\ run' = [run EXCEPT !.served = run.served \cup {deployed'}]
<1>1. CASE Build
  BY <1>1, IdleIsNotActive DEF Build, TypeOK
<1>2. CASE Deploy
  <2>1. deployed' \in Deployment
    BY <1>2 DEF Deploy, Deployment, TypeOK
  <2> QED
    BY <1>2, <2>1, IdleIsNotActive DEF Deploy, TypeOK
<1> QED
  BY <1>1, <1>2

\* The command between its steps.
LEMMA RunType ==
  ASSUME TypeOK, [Next]_vars, InjectsKnown
  PROVE  run' \in Active \cup {Idle}
<1>1. CASE Between
  <2>1. ASSUME NEW cmd \in {"inject", "verify"}, NEW left \in SUBSET Docs,
               run' = [Idle EXCEPT !.cmd = cmd, !.pc = "wellKnown", !.left = left]
        PROVE  run' \in Active
    BY <2>1 DEF Idle, Active
  <2>2. BeginInject => run' \in Active
    BY <2>1 DEF BeginInject
  <2>3. CASE BeginVerify
    <3> DEFINE next == [Idle EXCEPT !.cmd = "verify", !.pc = "wellKnown",
                                    !.left = {d \in Docs : project[d].uri # 0}]
    <3>1. next \in Active
      BY DEF Idle, Active
    <3>2. run' = [next EXCEPT !.served = {deployed}] /\ {deployed} \in SUBSET Deployment
      BY <2>3 DEF BeginVerify, TypeOK, Idle
    <3> HIDE DEF next
    <3> QED
      BY <3>1, <3>2 DEF Active
  <2>4. Between /\ ~BeginInject /\ ~BeginVerify => run' = run
    BY DEF Between, Scan, PublishDocument, Reroute, Readopt
  <2> QED
    BY <1>1, <2>2, <2>3, <2>4 DEF TypeOK
<1>3. CASE Build \/ Deploy
  <2>1. run \in Active /\ run' = [run EXCEPT !.disturbed = TRUE] => run' \in Active
    BY DEF Active
  <2>2. /\ run \in Active /\ deployed' \in Deployment
        /\ run' = [run EXCEPT !.served = run.served \cup {deployed'}]
        => run' \in Active
    BY DEF Active
  <2> QED
    BY <1>3, <2>1, <2>2, RunBeside DEF TypeOK
<1>4. ASSUME NEW d \in Docs, NEW error \in BOOLEAN, Visited(d, error), run \in Active
      PROVE  run' \in Active
  BY <1>4 DEF Visited, Active
<1>5. CASE Inject
  <2>1. run \in Active
    BY <1>5, RunningIsActive
       DEF Inject, Materialize, ReplacePage, EndInject, RefuseDocument, SkipDocument,
           ReadPage, Injecting
  <2>2. CASE Materialize
    BY <2>1, <2>2 DEF Materialize, Active
  <2>3. CASE ReplacePage
    <3> DEFINE next == [run EXCEPT !.pc = "pages", !.left = @ \ {run.doc},
                                   !.doc = << >>, !.page = NoFile]
    <3>1. next \in Active
      BY <2>1 DEF Active
    <3>2. run' = next \/ run' = [next EXCEPT !.failed = TRUE]
      BY <2>1, <2>3 DEF ReplacePage, Active
    <3> HIDE DEF next
    <3> QED
      BY <3>1, <3>2 DEF Active
  <2>4. ASSUME NEW d \in Docs, RefuseDocument(d) \/ SkipDocument(d)
        PROVE  run' \in Active
    BY <2>1, <2>4, <1>4 DEF RefuseDocument, SkipDocument
  <2>5. ASSUME NEW d \in Docs, ReadPage(d)
        PROVE  run' \in Active
    <3>1. CASE Visited(d, TRUE)
      BY <2>1, <3>1, <1>4
    <3>2. CASE output[source[d]] # NoFile /\ ~Injected(d)
               /\ run' = [run EXCEPT !.pc = "replace", !.doc = d, !.page = output[source[d]]]
      <4>1. source[d] \in Files
        BY <2>5, RunningIsActive DEF ReadPage, Injecting, InjectsKnown, Injectable, At, TypeOK
      <4>2. output[source[d]] \in Built \cup {NoFile}
        BY <4>1, FileType DEF TypeOK
      <4> QED
        BY <2>1, <3>2, <4>2 DEF Active
    <3> QED
      BY <2>5, <3>1, <3>2 DEF ReadPage
  <2>6. EndInject => run' = Idle
    BY DEF EndInject
  <2> QED
    BY <1>5, <2>2, <2>3, <2>4, <2>5, <2>6 DEF Inject
<1>6. CASE Verify
  <2>1. run \in Active
    BY <1>6, RunningIsActive DEF Verify, FetchWellKnown, FetchPage, EndVerify
  <2>2. ASSUME NEW failed \in BOOLEAN, NEW disturbed \in BOOLEAN,
               run' = [run EXCEPT !.pc = "pages", !.failed = failed, !.disturbed = disturbed]
        PROVE  run' \in Active
    BY <2>1, <2>2 DEF Active
  <2>3. CASE FetchWellKnown
    <3> DEFINE next == [run EXCEPT !.pc = "pages"]
    <3>1. next \in Active /\ (deployed.wellKnown # cfg.did) \in BOOLEAN
      BY <2>1 DEF Active
    <3>2. \/ run' = [next EXCEPT !.failed = deployed.wellKnown # cfg.did]
          \/ run' = [next EXCEPT !.failed = TRUE, !.disturbed = TRUE]
      BY <2>3 DEF FetchWellKnown, RequestFails
    <3> HIDE DEF next
    <3>3. ASSUME NEW wrong \in BOOLEAN, run' = [next EXCEPT !.failed = wrong]
          PROVE  run' \in Active
      BY <3>1, <3>3 DEF Active
    <3>4. CASE run' = [next EXCEPT !.failed = TRUE, !.disturbed = TRUE]
      BY <3>1, <3>4 DEF Active
    <3> QED
      BY <3>1, <3>2, <3>3, <3>4
  <2>4. ASSUME NEW d \in Docs, FetchPage(d)
        PROVE  run' \in Active
    <3> DEFINE next == [run EXCEPT !.left = @ \ {d}]
    <3>1. next \in Active
      BY <2>1 DEF Active
    <3>2. \/ run' = next
          \/ run' = [next EXCEPT !.failed = TRUE, !.blamed = next.blamed \cup {d}]
          \/ run' = [next EXCEPT !.failed = TRUE, !.disturbed = TRUE]
      BY <2>4 DEF FetchPage, RequestFails, Blaming
    <3> HIDE DEF next
    <3>3. CASE run' = [next EXCEPT !.failed = TRUE, !.blamed = next.blamed \cup {d}]
      <4>1. next.blamed \cup {d} \in SUBSET Docs
        BY <3>1 DEF Active
      <4> QED
        BY <3>1, <3>3, <4>1 DEF Active
    <3>4. CASE run' = [next EXCEPT !.failed = TRUE, !.disturbed = TRUE]
      BY <3>1, <3>4 DEF Active
    <3> QED
      BY <3>1, <3>2, <3>3, <3>4
  <2>5. EndVerify => run' = Idle
    BY DEF EndVerify
  <2> QED
    BY <1>6, <2>3, <2>4, <2>5 DEF Verify
<1>7. Crash => run' = Idle
  BY DEF Crash
<1>8. UNCHANGED vars => run' = run
  BY DEF vars
<1> QED
  BY <1>1, <1>3, <1>5, <1>6, <1>7, <1>8, NextCases DEF Running, TypeOK

\* What inject writes is a page.
LEMMA OutputType ==
  ASSUME TypeOK, [Next]_vars, InjectsKnown
  PROVE  output' \in Directory
<1>1. CASE ReplacePage
  <2>1. run.page \in Built /\ run.doc \in Docs /\ source[run.doc] \in Files
    BY <1>1, RunningIsActive DEF ReplacePage, InjectsKnown, Injectable, At, TypeOK, Active
  <2>2. project[run.doc].uri \in Nat
    BY <2>1 DEF TypeOK, Project, DocumentState
  <2>3. Linked(run.page, run.doc) \in Built
    BY <2>1, <2>2 DEF Linked, Built
  <2> QED
    BY <1>1, <2>1, <2>3 DEF ReplacePage, Directory, TypeOK
<1>2. CASE Build
  <2>1. PICK pages \in Sites :
          output' = pages \/ output' = [f \in Files |-> IF output[f].ver = pages[f].ver
                                                         THEN output[f] ELSE pages[f]]
    BY <1>2 DEF Build
  <2>2. pages \in Directory
    BY SiteOutputAssumption
  <2> QED
    BY <2>1, <2>2 DEF TypeOK, Directory
<1>3. [Next]_vars /\ ~ReplacePage /\ ~Build => output' = output
  BY DEF Next, vars, ScanOutput, ScanElsewhere, Scan, PublishDocument, BeginInject, Inject,
         Materialize, RefuseDocument, SkipDocument, ReadPage, EndInject, BeginVerify, Verify,
         FetchWellKnown, FetchPage, EndVerify, Deploy, Reroute, Readopt, Crash
<1> QED
  BY <1>1, <1>2, <1>3 DEF TypeOK

LEMMA ScanType ==
  ASSUME TypeOK, NEW pages \in Directory, Scan(pages)
  PROVE  project' \in Project /\ source' \in [Docs -> Files \cup {NoSource}]
<1>1. project' \in Project
  BY FoundType, ScanKeeps DEF Scan, TypeOK
<1>2. source' \in [Docs -> Files \cup {NoSource}]
  BY SourcesType DEF Scan
<1> QED
  BY <1>1, <1>2

LEMMA PublishType ==
  ASSUME TypeOK, NEW d \in Docs, PublishDocument(d)
  PROVE  /\ project' \in Project /\ created' \in Seq(Record)
         /\ project'[d].uri # 0
         /\ \A e \in Docs : project'[e].selected = project[e].selected
         /\ \A e \in Docs \ {d} : project'[e] = project[e]
<1> DEFINE new == [doc |-> d, did |-> cfg.did]
<1>1. new \in Record /\ Len(created) \in Nat
  BY DEF TypeOK, Config, Record
<1>2. Append(created, new) \in Seq(Record)
  BY <1>1, AppendProperties DEF TypeOK
<1>3. PICK u \in Nat \ {0} : project' = [project EXCEPT ![d] = Published(@, u)]
  BY <1>1 DEF PublishDocument, TypeOK, Project, DocumentState
<1>4. project' \in Project
  BY <1>3, SetDocumentType DEF TypeOK
<1>5. project'[d] = Published(project[d], u) /\ \A e \in Docs \ {d} : project'[e] = project[e]
  BY <1>3 DEF TypeOK, Project
<1>6. project[d] \in DocumentState
  BY DEF TypeOK, Project
<1>7. project'[d].uri = u /\ project'[d].selected = project[d].selected
  BY <1>5, <1>6 DEF Published, DocumentState
<1>8. created' \in Seq(Record)
  BY <1>2 DEF PublishDocument, TypeOK
<1> QED
  BY <1>3, <1>4, <1>5, <1>7, <1>8

\* The state, whatever happens.
LEMMA StateType ==
  ASSUME TypeOK, [Next]_vars
  PROVE  /\ project' \in Project /\ source' \in [Docs -> Files \cup {NoSource}]
         /\ cfg' \in Config /\ created' \in Seq(Record)
<1>1. CASE Running \/ Build \/ Deploy \/ UNCHANGED vars
  BY <1>1, StateIsKept DEF TypeOK, vars
<1>2. ASSUME NEW pages \in {output, Elsewhere}, Scan(pages)
      PROVE  project' \in Project /\ source' \in [Docs -> Files \cup {NoSource}]
             /\ UNCHANGED <<cfg, created>>
  <2>1. pages \in Directory
    BY SiteOutputAssumption DEF TypeOK
  <2> QED
    BY <1>2, <2>1, ScanType DEF Scan
<1>3. ASSUME NEW d \in Docs, PublishDocument(d)
      PROVE  project' \in Project /\ created' \in Seq(Record) /\ UNCHANGED <<source, cfg>>
  BY <1>3, PublishType DEF PublishDocument
<1>4. CASE BeginInject \/ BeginVerify
  BY <1>4 DEF BeginInject, BeginVerify, TypeOK
<1>5. CASE Reroute \/ Readopt
  BY <1>5 DEF Reroute, Readopt, TypeOK, Config
<1> QED
  BY <1>1, <1>2, <1>3, <1>4, <1>5, NextCases DEF Between, TypeOK

LEMMA TypeStep == TypeOK /\ InjectsKnown /\ [Next]_vars => TypeOK'
<1> SUFFICES ASSUME TypeOK, InjectsKnown, [Next]_vars PROVE TypeOK'
  OBVIOUS
<1>1. wellKnown' \in Dids \cup {None} /\ settled' \in BOOLEAN
  <2>1. cfg.did \in Dids
    BY DEF TypeOK, Config
  <2>2. wellKnown' \in Dids \cup {None}
    BY <2>1 DEF Next, vars, ScanOutput, ScanElsewhere, Scan, PublishDocument, BeginInject, Inject,
       Materialize, ReplacePage, RefuseDocument, SkipDocument, ReadPage, EndInject, BeginVerify,
       Verify, FetchWellKnown, FetchPage, EndVerify, Build, Deploy, Reroute, Readopt, Crash,
       TypeOK
  <2>3. settled' \in BOOLEAN
    BY DEF Next, vars, ScanOutput, ScanElsewhere, Scan, PublishDocument, BeginInject, Inject,
       Materialize, ReplacePage, RefuseDocument, SkipDocument, ReadPage, EndInject, BeginVerify,
       Verify, FetchWellKnown, FetchPage, EndVerify, Build, Deploy, Reroute, Readopt, Crash,
       TypeOK
  <2> QED
    BY <2>2, <2>3
<1>2. deployed' \in Deployment
  <2>1. CASE Deploy
    BY <2>1 DEF Deploy, Deployment, TypeOK
  <2>2. CASE ~Deploy
    BY <2>2 DEF Next, vars, ScanOutput, ScanElsewhere, Scan, PublishDocument, BeginInject, Inject,
       Materialize, ReplacePage, RefuseDocument, SkipDocument, ReadPage, EndInject, BeginVerify,
       Verify, FetchWellKnown, FetchPage, EndVerify, Build, Reroute, Readopt, Crash, TypeOK
  <2> QED
    BY <2>1, <2>2
<1>3. faults' \in Nat
  <2>1. \A kind \in FaultKind : Fault(kind) => faults' \in Nat
    BY DEF Fault, TypeOK
  <2>2. Materialize \/ ReplacePage \/ Crash \/ (\E d \in Docs : ReadPage(d)) => faults' \in Nat
    BY <2>1 DEF Materialize, ReplacePage, Crash, ReadPage, FaultKind, TypeOK
  <2>3. ~(Materialize \/ ReplacePage \/ Crash \/ (\E d \in Docs : ReadPage(d)))
          => faults' = faults
    BY DEF Next, vars, ScanOutput, ScanElsewhere, Scan, PublishDocument, BeginInject, Inject,
       RefuseDocument, SkipDocument, EndInject, BeginVerify, Verify, FetchWellKnown, FetchPage,
       EndVerify, Build, Deploy, Reroute, Readopt
  <2> QED
    BY <2>2, <2>3 DEF TypeOK
<1>4. changes' \in Nat
  <2>1. Change => changes' \in Nat
    BY DEF Change, TypeOK
  <2>2. ScanElsewhere \/ Build \/ Reroute \/ Readopt => changes' \in Nat
    BY <2>1 DEF ScanElsewhere, Build, Reroute, Readopt
  <2>3. ~(ScanElsewhere \/ Build \/ Reroute \/ Readopt) => changes' = changes
    BY DEF Next, vars, ScanOutput, PublishDocument, BeginInject, Inject, Materialize,
       ReplacePage, RefuseDocument, SkipDocument, ReadPage, EndInject, BeginVerify, Verify,
       FetchWellKnown, FetchPage, EndVerify, Deploy, Crash
  <2> QED
    BY <2>2, <2>3 DEF TypeOK
<1> QED
  BY <1>1, <1>2, <1>3, <1>4, RunType, OutputType, StateType DEF TypeOK

-----------------------------------------------------------------------------
(* Consistency.                                                            *)

\* A record keeps its URI.
LEMMA RecordsAreKept ==
  ASSUME TypeOK, [Next]_vars, NEW u \in 1..Len(created)
  PROVE  u \in 1..Len(created') /\ created'[u] = created[u]
<1>1. CASE created' = created
  BY <1>1
<1>2. ASSUME NEW d \in Docs, created' = Append(created, [doc |-> d, did |-> cfg.did])
      PROVE  u \in 1..Len(created') /\ created'[u] = created[u]
  BY <1>2, AppendProperties, LenProperties DEF TypeOK
<1>3. \/ created' = created
      \/ \E d \in Docs : created' = Append(created, [doc |-> d, did |-> cfg.did])
  <2>1. Running \/ Build \/ Deploy \/ UNCHANGED vars => created' = created
    BY StateIsKept DEF vars
  <2>2. Between => \/ created' = created
                  \/ \E d \in Docs : created' = Append(created, [doc |-> d, did |-> cfg.did])
    BY DEF Between, Scan, PublishDocument, BeginInject, BeginVerify, Reroute, Readopt
  <2> QED
    BY <2>1, <2>2, NextCases
<1> QED
  BY <1>1, <1>2, <1>3

\* So links to own records stay such.
LEMMA OwnIsKept ==
  ASSUME TypeOK, [Next]_vars, NEW pages, Own(pages)
  PROVE  Own(pages)'
BY RecordsAreKept DEF Own

LEMMA UrisOwnStep ==
  ASSUME TypeOK, UrisOwn, [Next]_vars
  PROVE  UrisOwn'
<1>1. CASE UNCHANGED <<project, created>>
  BY <1>1 DEF UrisOwn
<1>2. ASSUME NEW pages \in {output, Elsewhere}, Scan(pages)
      PROVE  UrisOwn'
  <2>1. pages \in Directory
    BY SiteOutputAssumption DEF TypeOK
  <2>2. \A d \in Docs : project'[d].uri = project[d].uri
    BY <1>2, <2>1, FoundType, ScanKeeps DEF Scan, TypeOK
  <2>3. created' = created
    BY <1>2 DEF Scan
  <2> QED
    BY <2>2, <2>3 DEF UrisOwn
<1>3. ASSUME NEW d \in Docs, PublishDocument(d)
      PROVE  UrisOwn'
  <2> SUFFICES ASSUME NEW e \in Docs, project'[e].uri # 0
               PROVE  /\ project'[e].uri \in 1..Len(created')
                      /\ created'[project'[e].uri].doc = e
    BY DEF UrisOwn
  <2>1. CASE e # d \/ project[d].uri # 0
    <3>1. project'[e].uri = project[e].uri
      <4>1. CASE e # d
        BY <1>3, <4>1, PublishType
      <4>2. CASE e = d /\ project[d].uri # 0
        <5>1. project' = [project EXCEPT ![d] = Published(@, project[d].uri)]
          BY <1>3, <4>2 DEF PublishDocument
        <5>2. project[d] \in DocumentState /\ project'[d] = Published(project[d], project[d].uri)
          BY <5>1 DEF TypeOK, Project
        <5> QED
          BY <4>2, <5>2 DEF Published, DocumentState
      <4> QED
        BY <2>1, <4>1, <4>2
    <3> QED
      BY <2>1, <3>1, RecordsAreKept DEF UrisOwn
  <2>2. CASE e = d /\ project[d].uri = 0
    <3> DEFINE new == [doc |-> d, did |-> cfg.did]
    <3>1. created' = Append(created, new) /\ project' = [project EXCEPT ![d] = Published(@, Len(created) + 1)]
      BY <1>3, <2>2 DEF PublishDocument
    <3>2. new \in Record /\ Len(created) \in Nat
      BY DEF TypeOK, Config, Record
    <3>3. Len(created') = Len(created) + 1 /\ created'[Len(created) + 1] = new
      BY <3>1, <3>2, AppendProperties DEF TypeOK
    <3>4. project[d] \in DocumentState /\ project'[d] = Published(project[d], Len(created) + 1)
      BY <3>1 DEF TypeOK, Project
    <3>5. project'[d].uri = Len(created) + 1
      BY <3>4 DEF Published, DocumentState
    <3> QED
      BY <2>2, <3>2, <3>3, <3>5
  <2> QED
    BY <2>1, <2>2
<1>4. CASE BeginInject \/ BeginVerify \/ Reroute \/ Readopt
  BY <1>1, <1>4 DEF BeginInject, BeginVerify, Reroute, Readopt
<1>5. CASE Running \/ Build \/ Deploy \/ UNCHANGED vars
  BY <1>1, <1>5, StateIsKept DEF vars
<1> QED
  BY <1>2, <1>3, <1>4, <1>5, NextCases DEF Between

LEMMA SourcesOwnStep ==
  ASSUME TypeOK, SourcesOwn, [Next]_vars
  PROVE  SourcesOwn'
<1>1. CASE UNCHANGED <<project, source>>
  BY <1>1 DEF SourcesOwn
<1>2. ASSUME NEW pages \in {output, Elsewhere}, Scan(pages)
      PROVE  SourcesOwn'
  <2> SUFFICES ASSUME NEW d \in Docs
               PROVE  /\ source'[d] # NoSource => WebsitePath(source'[d]) = d
                      /\ project'[d].selected \/ project'[d].uri # 0 => source'[d] # NoSource
    BY DEF SourcesOwn
  <2>1. pages \in Directory
    BY SiteOutputAssumption DEF TypeOK
  <2>2. source' = Sources(pages) /\ project' = ScanStateful(project, Found(pages), Routes)
    BY <1>2 DEF Scan
  <2>3. project'[d].uri = project[d].uri
    BY <2>1, <2>2, FoundType, ScanKeeps DEF TypeOK
  <2>4. project'[d].selected => project[d].selected \/ (FilesAt(pages, d) # {} /\ Routes[d] # "off")
    BY <2>1, <2>2, FoundType, FoundHasFile, ScanSelects DEF TypeOK
  <2>5. CASE source'[d] \in Files /\ WebsitePath(source'[d]) = d
    BY <2>5, SiteOutputAssumption
  <2>6. CASE source'[d] = source[d] /\ ~(FilesAt(pages, d) # {} /\ Routes[d] # "off")
    BY <2>3, <2>4, <2>6 DEF SourcesOwn
  <2> QED
    BY <2>2, <2>5, <2>6, SourcesType
<1>3. ASSUME NEW d \in Docs, PublishDocument(d)
      PROVE  SourcesOwn'
  <2>1. project[d].selected
    BY <1>3 DEF PublishDocument, Publishable
  <2>2. \A e \in Docs : project'[e].selected = project[e].selected
    BY <1>3, PublishType
  <2>3. \A e \in Docs \ {d} : project'[e] = project[e]
    BY <1>3, PublishType
  <2>4. source' = source
    BY <1>3 DEF PublishDocument
  <2> QED
    BY <2>1, <2>2, <2>3, <2>4 DEF SourcesOwn
<1>4. CASE BeginInject \/ BeginVerify \/ Reroute \/ Readopt
  BY <1>1, <1>4 DEF BeginInject, BeginVerify, Reroute, Readopt
<1>5. CASE Running \/ Build \/ Deploy \/ UNCHANGED vars
  BY <1>1, <1>5, StateIsKept DEF vars
<1> QED
  BY <1>2, <1>3, <1>4, <1>5, NextCases DEF Between

LEMMA InjectsKnownStep ==
  ASSUME TypeOK, InjectsKnown, [Next]_vars
  PROVE  InjectsKnown'
<1>1. ASSUME UNCHANGED <<project, source, run>>
      PROVE  InjectsKnown'
  BY <1>1 DEF InjectsKnown, Injectable
<1>2. ASSUME UNCHANGED <<project, source>>, run.cmd = "inject" => run'.cmd = "inject",
             run'.cmd = "inject" => run.cmd = "inject" /\ run'.left \subseteq run.left,
             run'.pc = "replace" => /\ run'.cmd = "inject" /\ run'.doc \in run'.left
                                    /\ run'.page \in Built
      PROVE  InjectsKnown'
  BY <1>2 DEF InjectsKnown, Injectable
<1>3. CASE Between
  <2>1. CASE BeginInject
    BY <2>1 DEF BeginInject, InjectsKnown, Injectable, Idle
  <2>2. CASE BeginVerify
    BY <2>2 DEF BeginVerify, InjectsKnown, Idle
  <2>3. CASE ~BeginInject /\ ~BeginVerify
    <3>1. run = Idle /\ run' = Idle
      BY <1>3, <2>3 DEF Between, Scan, PublishDocument, Reroute, Readopt, Ready
    <3> QED
      BY <3>1, IdleIsNotActive DEF InjectsKnown
  <2> QED
    BY <2>1, <2>2, <2>3
<1>4. CASE Build \/ Deploy
  <2>1. \/ run' = run
        \/ run \in Active /\ run' = [run EXCEPT !.disturbed = TRUE]
        \/ run \in Active /\ run' = [run EXCEPT !.served = run.served \cup {deployed'}]
    BY <1>4, RunBeside
  <2>2. UNCHANGED <<project, source>>
    BY <1>4, StateIsKept
  <2>3. CASE /\ run \in Active
             /\ \/ run' = [run EXCEPT !.disturbed = TRUE]
                \/ run' = [run EXCEPT !.served = run.served \cup {deployed'}]
    <3>1. /\ run'.cmd = run.cmd /\ run'.pc = run.pc /\ run'.left = run.left
          /\ run'.doc = run.doc /\ run'.page = run.page
      BY <2>3 DEF TypeOK, Active
    <3> QED
      BY <2>2, <3>1 DEF InjectsKnown, Injectable
  <2> QED
    BY <1>1, <2>1, <2>2, <2>3
<1>5. CASE Inject
  <2>1. run \in Active
    BY <1>5, RunningIsActive
       DEF Inject, Materialize, ReplacePage, EndInject, RefuseDocument, SkipDocument,
           ReadPage, Injecting
  <2>2. run.cmd = "inject"
    BY <1>5 DEF Inject, Materialize, ReplacePage, EndInject, RefuseDocument, SkipDocument,
                ReadPage, Injecting, At
  <2>3. UNCHANGED <<project, source>>
    BY <1>5, StateIsKept DEF Running
  <2>4. CASE Materialize
    <3>1. run'.cmd = run.cmd /\ run'.pc = "pages" /\ run'.left = run.left
      BY <2>1, <2>4 DEF Materialize, Active
    <3> QED
      BY <1>2, <2>2, <2>3, <3>1
  <2>5. CASE ReplacePage
    <3>1. run'.cmd = run.cmd /\ run'.pc = "pages" /\ run'.left = run.left \ {run.doc}
      BY <2>1, <2>5 DEF ReplacePage, Active
    <3> QED
      BY <1>2, <2>2, <2>3, <3>1
  <2>6. ASSUME NEW d \in Docs, NEW error, Visited(d, error), run.pc = "pages"
        PROVE  InjectsKnown'
    <3>1. run'.cmd = run.cmd /\ run'.pc = "pages" /\ run'.left = run.left \ {d}
      BY <2>1, <2>6 DEF Visited, Active
    <3> QED
      BY <1>2, <2>2, <2>3, <3>1
  <2>7. ASSUME NEW d \in Docs, RefuseDocument(d) \/ SkipDocument(d)
        PROVE  InjectsKnown'
    BY <2>6, <2>7 DEF RefuseDocument, SkipDocument, Injecting, At
  <2>8. ASSUME NEW d \in Docs, ReadPage(d)
        PROVE  InjectsKnown'
    <3>1. CASE Visited(d, TRUE)
      BY <2>6, <2>8, <3>1 DEF ReadPage, Injecting, At
    <3>2. CASE output[source[d]] # NoFile /\ ~Injected(d)
               /\ run' = [run EXCEPT !.pc = "replace", !.doc = d, !.page = output[source[d]]]
      <4>1. source[d] \in Files /\ d \in run.left
        BY <2>8, <2>2 DEF ReadPage, Injecting, InjectsKnown, Injectable, TypeOK
      <4>2. output[source[d]] \in Built
        BY <3>2, <4>1, FileType DEF TypeOK
      <4>3. /\ run'.cmd = run.cmd /\ run'.left = run.left /\ run'.doc = d
            /\ run'.page = output[source[d]]
        BY <2>1, <3>2 DEF Active
      <4> QED
        BY <1>2, <2>2, <2>3, <4>1, <4>2, <4>3
    <3> QED
      BY <2>8, <3>1, <3>2 DEF ReadPage
  <2>9. EndInject => InjectsKnown'
    BY IdleIsNotActive DEF EndInject, InjectsKnown
  <2> QED
    BY <1>5, <2>4, <2>5, <2>7, <2>8, <2>9 DEF Inject
<1>6. CASE Verify
  <2>1. run \in Active /\ run.cmd = "verify"
    BY <1>6, RunningIsActive DEF Verify, FetchWellKnown, FetchPage, EndVerify, At
  <2>2. run'.cmd # "inject" /\ run'.pc # "replace"
    BY <1>6, <2>1, IdleIsNotActive
       DEF Verify, FetchWellKnown, FetchPage, EndVerify, RequestFails, Blaming, At, Active
  <2> QED
    BY <2>2 DEF InjectsKnown
<1>7. Crash => InjectsKnown'
  BY IdleIsNotActive DEF Crash, InjectsKnown
<1>8. UNCHANGED vars => InjectsKnown'
  BY <1>1 DEF vars
<1> QED
  BY <1>3, <1>4, <1>5, <1>6, <1>7, <1>8, NextCases DEF Running

LEMMA LinksAreOwnStep ==
  ASSUME Consistent, [Next]_vars
  PROVE  LinksAreOwn'
<1>1. TypeOK /\ Own(output) /\ Own(deployed.pages)
  BY DEF Consistent, LinksAreOwn, Own
<1>2. Own(output)' /\ Own(deployed.pages)'
  <2>1. Own(output') /\ Own(deployed'.pages)
    <3>1. CASE ReplacePage
      <4>1. /\ run.doc \in Docs /\ source[run.doc] \in Files /\ run.page \in Built
            /\ project[run.doc].uri # 0
        BY <3>1, <1>1, RunningIsActive
           DEF ReplacePage, Consistent, InjectsKnown, Injectable, At, TypeOK, Active
      <4>2. /\ WebsitePath(source[run.doc]) = run.doc
            /\ project[run.doc].uri \in 1..Len(created)
            /\ created[project[run.doc].uri].doc = run.doc
        BY <4>1, SiteOutputAssumption DEF Consistent, SourcesOwn, UrisOwn
      <4>3. Linked(run.page, run.doc).links = {project[run.doc].uri}
        BY <4>1 DEF Linked, Built
      <4>4. output' = output
              \/ output' = [output EXCEPT ![source[run.doc]] = Linked(run.page, run.doc)]
        BY <3>1 DEF ReplacePage
      <4>5. Own(output')
        BY <1>1, <4>1, <4>2, <4>3, <4>4 DEF Own, TypeOK, Directory
      <4> QED
        BY <3>1, <1>1, <4>5 DEF ReplacePage
    <3>2. CASE Build
      <4>1. PICK pages \in Sites :
              output' = pages \/ output' = [f \in Files |-> IF output[f].ver = pages[f].ver
                                                             THEN output[f] ELSE pages[f]]
        BY <3>2 DEF Build
      <4>2. \A f \in Files : pages[f].links \subseteq {0}
        BY SiteOutputAssumption
      <4>3. Own(output')
        BY <1>1, <4>1, <4>2 DEF Own
      <4> QED
        BY <3>2, <1>1, <4>3 DEF Build
    <3>3. CASE Deploy
      BY <3>3, <1>1 DEF Deploy
    <3>4. ~ReplacePage /\ ~Build /\ ~Deploy => UNCHANGED <<output, deployed>>
      BY DEF Next, vars, ScanOutput, ScanElsewhere, Scan, PublishDocument, BeginInject, Inject,
             Materialize, RefuseDocument, SkipDocument, ReadPage, EndInject, BeginVerify, Verify,
             FetchWellKnown, FetchPage, EndVerify, Reroute, Readopt, Crash
    <3> QED
      BY <1>1, <3>1, <3>2, <3>3, <3>4
  <2> QED
    BY <1>1, <2>1, RecordsAreKept DEF Own
<1> QED
  BY <1>2 DEF LinksAreOwn, Own

LEMMA ConsistentStep == Consistent /\ [Next]_vars => Consistent'
BY TypeStep, UrisOwnStep, SourcesOwnStep, InjectsKnownStep, LinksAreOwnStep DEF Consistent

LEMMA AlwaysConsistent == Spec => []Consistent
BY InitConsistent, ConsistentStep, PTL DEF Spec

\* Types: every behaviour stays within them; above all, a command reads and replaces
\* only pages that are there (internal/inject/inject.go:127-170).
THEOREM TypeCorrect == Spec => []TypeOK
BY AlwaysConsistent, PTL DEF Consistent

\* Own links: whatever is built, moved, deployed or readopted between two steps, a
\* link that a page carries is that of the record made for the page's own path
\* (internal/inject/inject.go:48-73).
THEOREM LinksAlwaysOwn == Spec => []LinksAreOwn
BY AlwaysConsistent, PTL DEF Consistent

-----------------------------------------------------------------------------
(* Settling.                                                               *)

\* What has been done stays done where nothing it depends on changes.
LEMMA DoneIsKept ==
  ASSUME UNCHANGED <<project, source, cfg, created, output>>, NEW d \in Docs
  PROVE  (Injectable(d)' <=> Injectable(d)) /\ (Done(d)' <=> Done(d))
BY DEF Injectable, Done, Injects, Foreign, Injected

\* The replacement of a page does its document and no harm to the others: no two
\* documents have one source.
LEMMA ReplacementDoes ==
  ASSUME Consistent, Settling, At("inject", "replace"),
         UNCHANGED <<project, source, cfg, created>>,
         output' = [output EXCEPT ![source[run.doc]] = Linked(run.page, run.doc)],
         NEW d \in Docs, Injectable(d), Done(d) \/ d = run.doc
  PROVE  Done(d)'
<1>1. run.doc \in Docs /\ Injectable(run.doc) /\ Injects(run.doc) /\ run.page \in Built
  BY RunningIsActive DEF At, Consistent, InjectsKnown, Settling, Active
<1>2. /\ source[run.doc] \in Files /\ source[run.doc] # NoSource
      /\ source[d] \in Files /\ source[d] # NoSource
  BY <1>1 DEF Injectable, Consistent, TypeOK
<1>3. Injects(d)' <=> Injects(d)
  BY DEF Injects, Foreign
<1>4. CASE d = run.doc
  <2>1. output'[source[d]] = Linked(run.page, d)
    BY <1>2, <1>4 DEF Consistent, TypeOK, Directory
  <2>2. Linked(run.page, d).links = {project[d].uri}
    BY <1>1 DEF Linked, Built
  <2> QED
    BY <1>1, <1>3, <1>4, <2>1, <2>2 DEF Done, Injected
<1>5. CASE d # run.doc
  <2>1. source[d] # source[run.doc]
    BY <1>1, <1>2, <1>5 DEF Consistent, SourcesOwn
  <2>2. output'[source[d]] = output[source[d]]
    BY <1>2, <2>1 DEF Consistent, TypeOK, Directory
  <2> QED
    BY <1>3, <1>5, <2>2 DEF Done, Injected
<1> QED
  BY <1>4, <1>5

LEMMA SettlingInit == Init => Settling
BY IdleIsNotActive DEF Init, Settling

\* The one that replaces a page, or fails to.
LEMMA SettlingReplace ==
  ASSUME Consistent, Settling, ReplacePage
  PROVE  Settling'
<1>1. UNCHANGED <<project, source, cfg, created>> /\ At("inject", "replace")
  BY StateIsKept DEF Running, Inject, ReplacePage
<1>2. run \in Active
  BY <1>1, RunningIsActive DEF Consistent
<1>3. /\ run'.cmd = "inject" /\ run'.left = run.left \ {run.doc} /\ run'.pc = "pages"
      /\ run'.disturbed = run.disturbed /\ settled' = settled /\ wellKnown' = wellKnown
  BY <1>1, <1>2 DEF ReplacePage, Active, At
<1>4. CASE output' = output /\ run'.failed
  <2>1. \A d \in Docs : (Injectable(d)' <=> Injectable(d)) /\ (Done(d)' <=> Done(d))
    BY <1>1, <1>4, DoneIsKept
  <2> QED
    BY <1>1, <1>3, <1>4, <2>1 DEF Settling
<1>5. CASE /\ output' = [output EXCEPT ![source[run.doc]] = Linked(run.page, run.doc)]
           /\ run'.failed = run.failed
  <2>1. \A d \in Docs : Injectable(d)' <=> Injectable(d)
    BY <1>1 DEF Injectable
  <2>2. \A d \in Docs : Injectable(d) /\ (Done(d) \/ d = run.doc) => Done(d)'
    BY <1>1, <1>5, ReplacementDoes
  <2> QED
    BY <1>1, <1>3, <1>5, <2>1, <2>2 DEF Settling, At
<1> QED
  BY <1>2, <1>4, <1>5 DEF ReplacePage, Active

\* A step of inject that replaces no page.
LEMMA SettlingInject ==
  ASSUME Consistent, Settling, Inject, ~ReplacePage
  PROVE  Settling'
<1>1. UNCHANGED <<project, source, cfg, created, output>>
  BY StateIsKept DEF Running, Inject, Materialize, EndInject, RefuseDocument, SkipDocument,
                     ReadPage
<1>2. /\ \A d \in Docs : Injectable(d)' <=> Injectable(d)
      /\ \A d \in Docs : Done(d)' <=> Done(d)
      /\ \A d \in Docs : Injects(d)' <=> Injects(d)
  BY <1>1, DoneIsKept DEF Injects, Foreign
<1>3. run \in Active /\ run.cmd = "inject"
  BY RunningIsActive
     DEF Inject, Materialize, ReplacePage, EndInject, RefuseDocument, SkipDocument,
         ReadPage, Injecting, At, Consistent
<1>4. ASSUME run'.cmd = "inject", run'.left = run.left, settled' = settled,
             run'.pc # "replace", run'.failed \/ run'.failed = run.failed,
             run'.disturbed = run.disturbed,
             \/ wellKnown' = cfg.did
             \/ wellKnown' = wellKnown /\ (run'.failed \/ run.pc # "wellKnown")
      PROVE  Settling'
  BY <1>1, <1>2, <1>3, <1>4 DEF Settling
<1>5. CASE Materialize
  <2>1. /\ run'.cmd = "inject" /\ run'.left = run.left /\ run'.pc = "pages"
        /\ run'.disturbed = run.disturbed /\ settled' = settled
    BY <1>3, <1>5 DEF Materialize, Active
  <2>2. \/ wellKnown' = cfg.did /\ run'.failed = run.failed
        \/ wellKnown' = wellKnown /\ run'.failed
    BY <1>3, <1>5 DEF Materialize, Active
  <2> QED
    BY <1>4, <2>1, <2>2
<1>6. ASSUME NEW d \in Docs, Visited(d, TRUE), Injecting(d), UNCHANGED <<settled, wellKnown>>
      PROVE  Settling'
  <2>1. run'.failed /\ run'.pc = "pages"
    BY <1>3, <1>6 DEF Visited, Active, Injecting, At
  <2> QED
    BY <1>1, <1>2, <1>6, <2>1 DEF Settling
<1>7. ASSUME NEW d \in Docs, RefuseDocument(d)
      PROVE  Settling'
  BY <1>6, <1>7 DEF RefuseDocument
<1>8. ASSUME NEW d \in Docs, SkipDocument(d)
      PROVE  Settling'
  <2>1. /\ run'.cmd = "inject" /\ run'.left = run.left \ {d} /\ run'.pc = "pages"
        /\ run'.disturbed = run.disturbed /\ settled' = settled /\ wellKnown' = wellKnown
        /\ run.pc = "pages"
    BY <1>3, <1>8 DEF SkipDocument, Visited, Injecting, At, Active
  <2>2. run'.failed <=> run.failed
    BY <1>3, <1>8 DEF SkipDocument, Visited, Active
  <2>3. Done(d)
    BY <1>8 DEF SkipDocument, Done
  <2> QED
    BY <1>1, <1>2, <1>3, <2>1, <2>2, <2>3 DEF Settling
<1>9. ASSUME NEW d \in Docs, ReadPage(d)
       PROVE  Settling'
  <2>1. CASE Visited(d, TRUE)
    BY <1>6, <1>9, <2>1 DEF ReadPage
  <2>2. CASE run' = [run EXCEPT !.pc = "replace", !.doc = d, !.page = output[source[d]]]
    <3>1. /\ run'.cmd = "inject" /\ run'.left = run.left /\ run'.doc = d
          /\ run'.disturbed = run.disturbed /\ run'.failed = run.failed
          /\ settled' = settled /\ wellKnown' = wellKnown /\ run.pc = "pages"
      BY <1>3, <1>9, <2>2 DEF ReadPage, Injecting, At, Active
    <3>2. Injects(d)
      BY <1>9 DEF ReadPage
    <3> QED
      BY <1>1, <1>2, <1>3, <3>1, <3>2 DEF Settling
  <2> QED
    BY <1>9, <2>1, <2>2 DEF ReadPage
<1>10. CASE EndInject
  <2>1. run'.cmd = "none" /\ run'.pc = "idle" /\ wellKnown' = wellKnown
    BY <1>10, IdleIsNotActive DEF EndInject
  <2>2. /\ run.pc = "pages" /\ run.left = {}
        /\ settled' => ~run.failed /\ ~run.disturbed
    BY <1>10 DEF EndInject, At
  <2> QED
    BY <1>1, <1>2, <1>3, <2>1, <2>2 DEF Settling
<1> QED
  BY <1>5, <1>7, <1>8, <1>9, <1>10 DEF Inject

\* A build or a deployment.
LEMMA SettlingOthers ==
  ASSUME Consistent, Settling, Build \/ Deploy
  PROVE  Settling'
<1>1. UNCHANGED <<project, source, cfg, created>>
  BY StateIsKept
<1>2. /\ \A d \in Docs : Injects(d)' <=> Injects(d)
      /\ run.pc = "replace" => run.doc \in Docs
  <2>1. \A d \in Docs : Injects(d)' <=> Injects(d)
    BY <1>1 DEF Injects, Foreign
  <2>2. run.left \subseteq Docs
    BY DEF Consistent, TypeOK, Active, Idle
  <2> QED
    BY <2>1, <2>2 DEF Consistent, InjectsKnown
<1>3. CASE Build
  <2>1. ~settled'
    BY <1>3 DEF Build
  <2>2. CASE run.cmd = "inject"
    <3>1. run'.disturbed /\ run'.pc = run.pc /\ run'.doc = run.doc
      BY <1>3, <2>2, IdleIsNotActive DEF Build, Consistent, TypeOK, Active
    <3> QED
      BY <1>2, <2>1, <3>1 DEF Settling
  <2>3. CASE run.cmd # "inject"
    <3>1. run' = run
      BY <1>3, <2>3 DEF Build
    <3> QED
      BY <1>2, <2>1, <2>3, <3>1 DEF Settling
  <2> QED
    BY <2>2, <2>3
<1>4. CASE Deploy
  <2>1. UNCHANGED <<output, wellKnown, settled>> /\ run.cmd # "inject"
    BY <1>4 DEF Deploy
  <2>2. \A d \in Docs : (Injectable(d)' <=> Injectable(d)) /\ (Done(d)' <=> Done(d))
    BY <1>1, <2>1, DoneIsKept
  <2>3. run'.cmd = run.cmd /\ run'.pc = run.pc /\ run'.doc = run.doc
    BY <1>4 DEF Deploy, Consistent, TypeOK, Active, Idle
  <2> QED
    BY <1>1, <1>2, <2>1, <2>2, <2>3 DEF Settling
<1> QED
  BY <1>3, <1>4

\* What happens while no command runs.
LEMMA SettlingBetween ==
  ASSUME Consistent, Settling, Between
  PROVE  Settling'
<1>1. CASE BeginInject \/ BeginVerify
  <2>1. UNCHANGED <<project, source, cfg, created, output, wellKnown, settled>>
    BY <1>1 DEF BeginInject, BeginVerify
  <2>2. \A d \in Docs : (Injectable(d)' <=> Injectable(d)) /\ (Done(d)' <=> Done(d))
    BY <2>1, DoneIsKept
  <2>3. run'.pc = "wellKnown"
    BY <1>1 DEF BeginInject, BeginVerify, Idle
  <2>4. run'.cmd = "inject" => run'.left = {d \in Docs : Injectable(d)}
    BY <1>1 DEF BeginInject, BeginVerify, Idle
  <2> QED
    BY <2>1, <2>2, <2>3, <2>4 DEF Settling
<1>2. CASE ~BeginInject /\ ~BeginVerify
  <2>1. ~settled' /\ run' = Idle
    BY <1>2 DEF Between, Scan, PublishDocument, Reroute, Readopt, Ready
  <2> QED
    BY <2>1, IdleIsNotActive DEF Settling
<1> QED
  BY <1>1, <1>2

LEMMA SettlingStep ==
  ASSUME Consistent, Settling, [Next]_vars
  PROVE  Settling'
<1>1. ASSUME UNCHANGED <<project, source, cfg, created, output, wellKnown, settled>>,
             run'.cmd # "inject", run'.pc # "replace"
      PROVE  Settling'
  BY <1>1, DoneIsKept DEF Settling
<1>2. CASE Verify
  <2>1. run \in Active /\ run.cmd = "verify"
    BY <1>2, RunningIsActive
       DEF Verify, FetchWellKnown, FetchPage, EndVerify, At, Consistent
  <2>2. run'.cmd # "inject" /\ run'.pc # "replace"
    BY <1>2, <2>1, IdleIsNotActive
       DEF Verify, FetchWellKnown, FetchPage, EndVerify, RequestFails, Blaming, At, Active
  <2> QED
    BY <1>1, <1>2, <2>2 DEF Verify, FetchWellKnown, FetchPage, EndVerify
<1>3. CASE Crash
  BY <1>1, <1>3, IdleIsNotActive DEF Crash
<1>4. CASE UNCHANGED vars
  <2>1. \A d \in Docs : (Injectable(d)' <=> Injectable(d)) /\ (Done(d)' <=> Done(d))
    BY <1>4, DoneIsKept DEF vars
  <2>2. \A d \in Docs : Injects(d)' <=> Injects(d)
    BY <1>4 DEF Injects, Foreign, vars
  <2>3. run.pc = "replace" => (Injects(run.doc)' <=> Injects(run.doc))
    BY <1>4 DEF Injects, Foreign, vars
  <2> QED
    BY <1>4, <2>1, <2>3 DEF Settling, vars
<1> QED
  BY <1>2, <1>3, <1>4, SettlingInject, SettlingReplace, SettlingOthers, SettlingBetween,
     NextCases DEF Running

LEMMA AlwaysSettling == Spec => [](Consistent /\ Settling)
BY InitConsistent, SettlingInit, ConsistentStep, SettlingStep, PTL DEF Spec

\* Settling: after an inject that ended without an error, with no build under its
\* hands, everything it had to do is done and stays done until something changes
\* ("is safe to repeat after a clean site build", docs/publishing.md:126).
THEOREM InjectAlwaysSettles == Spec => []InjectSettles
<1>1. Settling => InjectSettles
  BY DEF Settling, InjectSettles, Done
<1> QED
  BY <1>1, AlwaysSettling, PTL

-----------------------------------------------------------------------------
(* Verifying.                                                              *)

\* Where the state does not change and no deployment is forgotten, links stay.
LEMMA LinkingIsKept ==
  ASSUME UNCHANGED <<project, cfg, created>>, run.served \subseteq run'.served,
         NEW d \in Docs, Linking(d)
  PROVE  Linking(d)'
BY DEF Linking, FilesAt, CanonicalOf, Foreign

LEMMA VerifyingInit == Init => Verifying
BY IdleIsNotActive DEF Init, Verifying

\* A step of a verification leaves the project, the site and the directory alone.
LEMMA VerifyIsReadOnly ==
  ASSUME Verify
  PROVE  UNCHANGED <<output, wellKnown, deployed, project, source, cfg, created, settled>>
BY DEF Verify, FetchWellKnown, FetchPage, EndVerify

\* Fault can be found with a document in the deployed directory.
Faulty(d) ==
  \/ Foreign(d)
  \/ FilesAt(deployed.pages, CanonicalOf(d)) = {}
  \/ \E f \in FilesAt(deployed.pages, CanonicalOf(d)) :
       deployed.pages[f].links # {project[d].uri}

\* What a request of a verification for a document does.
LEMMA FetchPageEffect ==
  ASSUME TypeOK, NEW d \in Docs, FetchPage(d)
  PROVE  /\ run.cmd = "verify" /\ run.pc = "pages" /\ d \in run.left
         /\ run'.cmd = "verify" /\ run'.pc = "pages" /\ run'.left = run.left \ {d}
         /\ run'.served = run.served
         /\ ~run'.failed =>
              /\ ~run.failed /\ ~Foreign(d)
              /\ \E f \in FilesAt(deployed.pages, CanonicalOf(d)) :
                   deployed.pages[f].links = {project[d].uri}
         /\ \/ run'.blamed = run.blamed
            \/ run'.blamed = run.blamed \cup {d} /\ Faulty(d)
         /\ run'.failed /\ ~run'.disturbed =>
              run'.blamed # {} \/ (run.failed /\ ~run.disturbed)
<1> DEFINE next == [run EXCEPT !.left = @ \ {d}]
           found == FilesAt(deployed.pages, CanonicalOf(d))
<1>1. run \in Active /\ run.cmd = "verify" /\ run.pc = "pages" /\ d \in run.left
  BY RunningIsActive DEF FetchPage, At
<1>2. /\ next \in Active /\ next.cmd = "verify" /\ next.pc = "pages"
      /\ next.left = run.left \ {d} /\ next.served = run.served
      /\ next.blamed = run.blamed /\ next.failed = run.failed
      /\ next.disturbed = run.disturbed
  BY <1>1 DEF Active
<1>3. \/ Faulty(d) /\ run' = Blaming(next, d)
      \/ /\ ~Foreign(d) /\ run' = next
         /\ \E f \in found : deployed.pages[f].links = {project[d].uri}
      \/ run' = [next EXCEPT !.failed = TRUE, !.disturbed = TRUE]
  BY DEF FetchPage, RequestFails, Faulty, Correct
<1> HIDE DEF next
<1>4. CASE Faulty(d) /\ run' = Blaming(next, d)
  <2>1. /\ run'.failed = TRUE /\ run'.blamed = next.blamed \cup {d}
        /\ run'.served = next.served /\ run'.left = next.left
        /\ run'.cmd = next.cmd /\ run'.pc = next.pc
    BY <1>2, <1>4 DEF Blaming, Active
  <2> QED
    BY <1>1, <1>2, <1>4, <2>1
<1>5. CASE /\ ~Foreign(d) /\ run' = next
           /\ \E f \in found : deployed.pages[f].links = {project[d].uri}
  BY <1>1, <1>2, <1>5, Zenon
<1>6. CASE run' = [next EXCEPT !.failed = TRUE, !.disturbed = TRUE]
  <2>1. /\ run'.failed = TRUE /\ run'.disturbed = TRUE /\ run'.blamed = next.blamed
        /\ run'.served = next.served /\ run'.left = next.left
        /\ run'.cmd = next.cmd /\ run'.pc = next.pc
    BY <1>2, <1>6 DEF Active
  <2> QED
    BY <1>1, <1>2, <2>1
<1> QED
  BY <1>3, <1>4, <1>5, <1>6, Zenon

\* What the first request does.
LEMMA FetchWellKnownEffect ==
  ASSUME TypeOK, FetchWellKnown
  PROVE  /\ run.cmd = "verify" /\ run.pc = "wellKnown"
         /\ run'.cmd = "verify" /\ run'.pc = "pages" /\ run'.left = run.left
         /\ run'.served = run.served /\ run'.blamed = run.blamed
         /\ ~run'.failed => deployed.wellKnown = cfg.did
         /\ run'.failed /\ ~run'.disturbed => deployed.wellKnown # cfg.did
<1> DEFINE next == [run EXCEPT !.pc = "pages"]
<1>1. run \in Active /\ run.cmd = "verify" /\ run.pc = "wellKnown"
  BY RunningIsActive DEF FetchWellKnown, At
<1>2. /\ next \in Active /\ next.cmd = "verify" /\ next.pc = "pages"
      /\ next.left = run.left /\ next.served = run.served /\ next.blamed = run.blamed
  BY <1>1 DEF Active
<1>3. \/ run' = [next EXCEPT !.failed = (deployed.wellKnown # cfg.did)]
      \/ run' = [next EXCEPT !.failed = TRUE, !.disturbed = TRUE]
  BY DEF FetchWellKnown, RequestFails
<1> HIDE DEF next
<1>4. ASSUME NEW wrong, wrong = (deployed.wellKnown # cfg.did),
             run' = [next EXCEPT !.failed = wrong]
      PROVE  /\ run'.cmd = "verify" /\ run'.pc = "pages" /\ run'.left = run.left
             /\ run'.served = run.served /\ run'.blamed = run.blamed
             /\ run'.failed = wrong
  BY <1>2, <1>4 DEF Active
<1>5. CASE run' = [next EXCEPT !.failed = TRUE, !.disturbed = TRUE]
  BY <1>1, <1>2, <1>5 DEF Active
<1> QED
  BY <1>1, <1>3, <1>4, <1>5, Zenon

\* A build or a deployment beside a verification.
LEMMA VerifyingBeside ==
  ASSUME Consistent, Verifying, Build \/ Deploy, run'.cmd = "verify"
  PROVE  Verifying'
<1>1. UNCHANGED <<project, source, cfg, created>>
  BY StateIsKept
<1>2. /\ run.cmd = "verify" /\ run'.left = run.left /\ run'.pc = run.pc
      /\ run'.failed = run.failed
      /\ run.served \subseteq run'.served /\ deployed' \in run'.served
  <2>1. CASE run' = run
    <3>1. run.cmd = "verify"
      BY <2>1
    <3>2. Build \/ deployed' \in run.served
      BY <2>1, <3>1, IdleIsNotActive DEF Deploy, Consistent, TypeOK, Active
    <3>3. Build => deployed' = deployed
      BY DEF Build
    <3> QED
      BY <2>1, <3>1, <3>2, <3>3 DEF Verifying
  <2>2. CASE /\ Deploy /\ run.cmd = "verify" /\ run \in Active
             /\ run' = [run EXCEPT !.served = run.served \cup {deployed'}]
    <3>1. run'.served = run.served \cup {deployed'}
      BY <2>2 DEF Active
    <3>2. run'.left = run.left /\ run'.pc = run.pc /\ run'.failed = run.failed
      BY <2>2 DEF Active
    <3> QED
      BY <2>2, <3>1, <3>2
  <2>3. ~(run.cmd = "inject" /\ run \in Active /\ run' = [run EXCEPT !.disturbed = TRUE])
    BY DEF Active
  <2> QED
    BY <2>1, <2>2, <2>3, RunBeside DEF Consistent
<1>3. ASSUME NEW d \in Docs, Linking(d)
      PROVE  Linking(d)'
  BY <1>1, <1>2, <1>3, LinkingIsKept
<1>4. ASSUME ~run.failed
      PROVE  /\ run.pc # "wellKnown" => \E site \in run'.served : site.wellKnown = cfg.did
             /\ \A d \in Docs \ run.left : Linking(d)'
  BY <1>2, <1>3, <1>4 DEF Verifying
<1> QED
  BY <1>1, <1>2, <1>4 DEF Verifying

LEMMA VerifyingStep ==
  ASSUME Consistent, Verifying, [Next]_vars
  PROVE  Verifying'
<1>1. ASSUME run'.cmd # "verify"
      PROVE  Verifying'
  BY <1>1 DEF Verifying
<1>2. CASE Between
  <2>1. CASE BeginVerify
    <3>1. /\ run'.left = {d \in Docs : project[d].uri # 0} /\ run'.pc = "wellKnown"
          /\ run'.served = {deployed}
          /\ UNCHANGED <<project, deployed>>
      BY <2>1 DEF BeginVerify, Idle
    <3> QED
      BY <3>1 DEF Verifying, Linking
  <2>2. CASE ~BeginVerify
    <3>1. run'.cmd # "verify"
      BY <1>2, <2>2, IdleIsNotActive
         DEF Between, Scan, PublishDocument, Reroute, Readopt, Ready, BeginInject, Idle
    <3> QED
      BY <1>1, <3>1
  <2> QED
    BY <2>1, <2>2
<1>3. CASE Verify
  <2>1. UNCHANGED <<project, source, cfg, created, deployed>>
    BY <1>3, VerifyIsReadOnly
  <2>2. ASSUME NEW d \in Docs, FetchPage(d)
        PROVE  Verifying'
    <3>1. /\ run.cmd = "verify" /\ run.pc = "pages" /\ run'.left = run.left \ {d}
          /\ run'.pc = "pages" /\ run'.served = run.served
          /\ ~run'.failed => ~run.failed
      BY <2>2, FetchPageEffect DEF Consistent
    <3>2. deployed \in run.served /\ \A e \in run.left : project[e].uri # 0
      BY <3>1 DEF Verifying
    <3>3. ASSUME ~run'.failed
          PROVE  \A e \in Docs \ run'.left : Linking(e)
      <4>1. Linking(d)
        BY <2>2, <3>2, <3>3, FetchPageEffect DEF Linking, Consistent
      <4>2. \A e \in Docs \ run.left : Linking(e)
        BY <3>1, <3>3 DEF Verifying
      <4> QED
        BY <3>1, <4>1, <4>2
    <3>4. ASSUME NEW e \in Docs, Linking(e)
          PROVE  Linking(e)'
      BY <2>1, <3>1, <3>4, LinkingIsKept
    <3>5. ~run.failed => \E site \in run.served : site.wellKnown = cfg.did
      BY <3>1 DEF Verifying
    <3> QED
      BY <2>1, <3>1, <3>2, <3>3, <3>4, <3>5 DEF Verifying
  <2>3. CASE FetchWellKnown
    <3>1. /\ run.cmd = "verify" /\ run.pc = "wellKnown" /\ run'.left = run.left
          /\ run'.pc = "pages" /\ run'.served = run.served
          /\ ~run'.failed => deployed.wellKnown = cfg.did
      BY <2>3, FetchWellKnownEffect DEF Consistent
    <3>2. /\ deployed \in run.served /\ \A e \in run.left : project[e].uri # 0
          /\ \A d \in Docs \ run.left : project[d].uri = 0
      BY <3>1 DEF Verifying
    <3>3. \A d \in Docs \ run.left : Linking(d)'
      BY <2>1, <3>2 DEF Linking
    <3> QED
      BY <2>1, <3>1, <3>2, <3>3 DEF Verifying
  <2>4. CASE EndVerify
    BY <1>1, <2>4, IdleIsNotActive DEF EndVerify
  <2> QED
    BY <1>3, <2>2, <2>3, <2>4 DEF Verify
<1>4. CASE Build \/ Deploy
  BY <1>1, <1>4, VerifyingBeside
<1>5. CASE Inject \/ Crash
  <2>1. run.cmd = "inject"
    BY <1>5 DEF Inject, Materialize, ReplacePage, EndInject, RefuseDocument, SkipDocument,
                ReadPage, Injecting, At, Crash
  <2>2. run \in Active
    BY <2>1, IdleIsNotActive DEF Consistent, TypeOK
  <2>3. run'.cmd # "verify"
    BY <1>5, <2>1, <2>2, IdleIsNotActive
       DEF Inject, Materialize, ReplacePage, EndInject, RefuseDocument, SkipDocument,
           ReadPage, Visited, Crash, Active
  <2> QED
    BY <1>1, <2>3
<1>6. CASE UNCHANGED vars
  <2>1. \A d \in Docs : Linking(d) => Linking(d)'
    BY <1>6, LinkingIsKept DEF vars
  <2> QED
    BY <1>6, <2>1 DEF Verifying, vars
<1> QED
  BY <1>2, <1>3, <1>4, <1>5, <1>6, NextCases DEF Running

\* Live verification: one that passes, with whatever builds and deployments meanwhile,
\* proves that the attached publication and the link of every record were each
\* deployed at some moment of it, and with no deployment meanwhile that they are in
\* the one that is there (internal/reconcile/live.go:24-103).
THEOREM VerifiedAlwaysLinked == Spec => []VerifiedIsLinked
<1>1. Verifying => VerifiedIsLinked
  BY DEF Verifying, VerifiedIsLinked, Linking, At
<1> QED
  BY <1>1, InitConsistent, ConsistentStep, VerifyingInit, VerifyingStep, PTL DEF Spec

-----------------------------------------------------------------------------
(* The workflow.                                                           *)

\* A document that can be reached is found with its link, in a directory that was
\* injected and deployed as it is.
LEMMA ReachableIsFound ==
  ASSUME Consistent, Settling, settled,
         deployed = [pages |-> output, wellKnown |-> wellKnown],
         NEW d \in Docs, project[d].uri # 0, ~Unreachable(d)
  PROVE  /\ ~Foreign(d)
         /\ FilesAt(deployed.pages, CanonicalOf(d)) # {}
         /\ \A f \in FilesAt(deployed.pages, CanonicalOf(d)) :
              deployed.pages[f].links = {project[d].uri}
<1>1. /\ project[d].status # "missing" /\ output[source[d]] # NoFile
      /\ Cardinality(FilesAt(output, d)) = 1 /\ CanonicalOf(d) = d
  BY DEF Unreachable
<1>2. source[d] \in Files /\ source[d] # NoSource /\ WebsitePath(source[d]) = d
  BY DEF Consistent, SourcesOwn, TypeOK
<1>3. Injects(d) /\ Injected(d)
  BY <1>1, <1>2 DEF Settling, Injectable, Done
<1>4. source[d] \in FilesAt(output, d)
  BY <1>1, <1>2 DEF FilesAt
<1>5. IsFiniteSet(FilesAt(output, d))
  BY FS_Subset, SiteOutputAssumption DEF FilesAt
<1>6. FilesAt(output, d) = {source[d]}
  BY <1>1, <1>4, <1>5, FS_Singleton
<1>7. deployed.pages = output
  OBVIOUS
<1> QED
  BY <1>1, <1>3, <1>6, <1>7 DEF Injects, Injected

LEMMA WorkflowStep ==
  ASSUME Consistent, Settling, Verifying, WorkflowVerifies, [Next]_vars
  PROVE  WorkflowVerifies'
<1> DEFINE Excused == /\ \A d \in run.blamed : Unreachable(d)
                      /\ run.failed /\ ~run.disturbed => run.blamed # {}
<1>1. SUFFICES ASSUME run'.cmd = "verify", run'.served = {deployed'}, settled',
                      deployed' = [pages |-> output', wellKnown |-> wellKnown']
               PROVE  Excused'
  BY DEF WorkflowVerifies
<1>2. ASSUME UNCHANGED <<output, wellKnown, deployed, project, source, settled>>,
             run.cmd = "verify", run.served = run'.served
      PROVE  /\ settled /\ deployed = [pages |-> output, wellKnown |-> wellKnown]
             /\ Excused /\ \A d \in Docs : Unreachable(d)' <=> Unreachable(d)
  BY <1>1, <1>2 DEF WorkflowVerifies, Unreachable, FilesAt, CanonicalOf
<1>3. CASE Between
  <2>1. CASE BeginVerify
    BY <2>1 DEF BeginVerify, Idle
  <2>2. CASE ~BeginVerify
    BY <1>1, <1>3, <2>2, IdleIsNotActive
       DEF Between, Scan, PublishDocument, Reroute, Readopt, Ready, BeginInject, Idle
  <2> QED
    BY <2>1, <2>2
<1>4. CASE Verify
  <2>1. UNCHANGED <<output, wellKnown, deployed, project, source, cfg, created, settled>>
    BY <1>4, VerifyIsReadOnly
  <2>2. ASSUME NEW d \in Docs, FetchPage(d)
        PROVE  Excused'
    <3>1. /\ run.cmd = "verify" /\ d \in run.left /\ run'.served = run.served
          /\ \/ run'.blamed = run.blamed
             \/ run'.blamed = run.blamed \cup {d} /\ Faulty(d)
          /\ run'.failed /\ ~run'.disturbed =>
               run'.blamed # {} \/ (run.failed /\ ~run.disturbed)
      BY <2>2, FetchPageEffect DEF Consistent
    <3>2. /\ settled /\ deployed = [pages |-> output, wellKnown |-> wellKnown]
          /\ Excused /\ \A e \in Docs : Unreachable(e)' <=> Unreachable(e)
      BY <1>2, <2>1, <3>1
    <3>3. Faulty(d) => Unreachable(d)
      <4>1. project[d].uri # 0
        BY <3>1 DEF Verifying
      <4> QED
        BY <3>2, <4>1, ReachableIsFound DEF Faulty
    <3>4. run.blamed \subseteq Docs
      BY DEF Consistent, TypeOK, Active, Idle
    <3> QED
      BY <3>1, <3>2, <3>3, <3>4
  <2>3. CASE FetchWellKnown
    <3>1. /\ run.cmd = "verify" /\ run'.served = run.served /\ run'.blamed = run.blamed
          /\ run'.failed /\ ~run'.disturbed => deployed.wellKnown # cfg.did
      BY <2>3, FetchWellKnownEffect DEF Consistent
    <3>2. /\ settled /\ deployed = [pages |-> output, wellKnown |-> wellKnown]
          /\ Excused /\ \A e \in Docs : Unreachable(e)' <=> Unreachable(e)
      BY <1>2, <2>1, <3>1
    <3>3. deployed.wellKnown = cfg.did
      BY <3>2 DEF Settling
    <3>4. run.blamed \subseteq Docs
      BY DEF Consistent, TypeOK, Active, Idle
    <3> QED
      BY <3>1, <3>2, <3>3, <3>4
  <2>4. ~EndVerify
    BY <1>1, IdleIsNotActive DEF EndVerify
  <2> QED
    BY <1>4, <2>2, <2>3, <2>4 DEF Verify
<1>5. ~Build
  BY <1>1 DEF Build
<1>6. CASE Deploy
  <2>1. /\ run.cmd = "verify" /\ run \in Active
        /\ run' = [run EXCEPT !.served = run.served \cup {deployed'}]
    <3>1. run' = run => run.cmd = "verify" /\ run \in Active
      BY <1>1, IdleIsNotActive DEF Consistent, TypeOK
    <3>2. run.cmd = "verify" =>
            run' = [run EXCEPT !.served = run.served \cup {deployed'}]
      BY <1>6 DEF Deploy
    <3> QED
      BY <1>5, <1>6, <3>1, <3>2, RunBeside DEF Consistent
  <2>2. /\ run'.served = run.served \cup {deployed'} /\ run'.blamed = run.blamed
        /\ run'.failed = run.failed /\ run'.disturbed = run.disturbed
    BY <2>1 DEF Active
  <2>3. deployed' = deployed /\ run'.served = run.served
    BY <1>1, <2>1, <2>2 DEF Verifying
  <2>4. UNCHANGED <<output, wellKnown, project, source, settled>>
    BY <1>6 DEF Deploy
  <2>5. Excused /\ \A d \in Docs : Unreachable(d)' <=> Unreachable(d)
    BY <1>2, <2>1, <2>3, <2>4
  <2>6. run.blamed \subseteq Docs
    BY DEF Consistent, TypeOK, Active, Idle
  <2> QED
    BY <2>2, <2>5, <2>6
<1>7. CASE Inject \/ Crash
  <2>1. run.cmd = "inject"
    BY <1>7 DEF Inject, Materialize, ReplacePage, EndInject, RefuseDocument, SkipDocument,
                ReadPage, Injecting, At, Crash
  <2>2. run \in Active
    BY <2>1, IdleIsNotActive DEF Consistent, TypeOK
  <2>3. run'.cmd # "verify"
    BY <1>7, <2>1, <2>2, IdleIsNotActive
       DEF Inject, Materialize, ReplacePage, EndInject, RefuseDocument, SkipDocument,
           ReadPage, Visited, Crash, Active
  <2> QED
    BY <1>1, <2>3
<1>8. CASE UNCHANGED vars
  <2>1. /\ UNCHANGED <<output, wellKnown, deployed, project, source, settled, run>>
        /\ run.cmd = "verify"
    BY <1>1, <1>8 DEF vars
  <2>2. Excused /\ \A d \in Docs : Unreachable(d)' <=> Unreachable(d)
    BY <1>2, <2>1
  <2>3. run.blamed \subseteq Docs
    BY DEF Consistent, TypeOK, Active, Idle
  <2> QED
    BY <2>1, <2>2, <2>3
<1> QED
  BY <1>3, <1>4, <1>5, <1>6, <1>7, <1>8, NextCases DEF Running

\* The workflow verifies: of a cleanly injected directory that is deployed as it is,
\* live verification finds fault only with documents that no inject and no
\* deployment could bring to their canonical URL, each for a reason of its own
\* (docs/publishing.md:104-140).
THEOREM WorkflowAlwaysVerifies == Spec => []WorkflowVerifies
<1>1. Init => WorkflowVerifies
  BY IdleIsNotActive DEF Init, WorkflowVerifies
<1> QED
  BY <1>1, WorkflowStep, InitConsistent, ConsistentStep, SettlingInit, SettlingStep,
     VerifyingInit, VerifyingStep, PTL DEF Spec

-----------------------------------------------------------------------------
(* Routing.                                                                *)

\* A set of numbers that is not empty has a least one.
LEMMA LeastNumber ==
  ASSUME NEW T, T \subseteq Nat, T # {}
  PROVE  \E x \in T : \A y \in T : x <= y
<1>1. PICK x \in T : \A y \in T : ~(<<y, x>> \in OpToRel(<, Nat))
  BY NatLessThanWellFounded, WFMin, Zenon
<1>2. ASSUME NEW y \in T PROVE x <= y
  <2>1. ~(y < x)
    BY <1>1 DEF OpToRel
  <2> QED
    BY <2>1
<1> QED
  BY <1>2

\* Induction: a set that has 0, and n + 1 with n, has every number.
LEMMA SetInduction ==
  ASSUME NEW T, 0 \in T, \A n \in T \cap Nat : n + 1 \in T
  PROVE  Nat \subseteq T
<1> SUFFICES ASSUME Nat \ T # {} PROVE FALSE
  OBVIOUS
<1>1. PICK x \in Nat \ T : \A y \in Nat \ T : x <= y
  BY LeastNumber
<1>2. x \in Nat /\ x # 0
  BY <1>1
<1>3. x - 1 \in Nat /\ ~(x <= x - 1) /\ (x - 1) + 1 = x
  BY <1>2
<1>4. x - 1 \in T
  BY <1>1, <1>3
<1>5. (x - 1) + 1 \in T
  BY <1>3, <1>4
<1> QED
  BY <1>3, <1>5

\* The function f of a segment is computed from base by the steps.
Computes(f, n, S, base, Step) ==
  /\ f \in [0..n -> S] /\ f[0] = base
  /\ \A i \in 1..n : f[i] = Step[i][f[i - 1]]

\* Recursion along a segment: there is such a function.
LEMMA Recursion ==
  ASSUME NEW n \in Nat, NEW S, NEW base \in S, NEW Step \in [1..n -> [S -> S]]
  PROVE  \E f : Computes(f, n, S, base, Step)
<1> DEFINE Good(m, f) == /\ f \in [0..m -> S] /\ f[0] = base
                         /\ \A i \in 1..m : f[i] = Step[i][f[i - 1]]
           T == {m \in Nat : m <= n => \E f : Good(m, f)}
<1>1. 0 \in T
  <2>1. Good(0, [i \in 0..0 |-> base])
    OBVIOUS
  <2> QED
    BY <2>1
<1>2. ASSUME NEW m \in Nat, m + 1 <= n, NEW f, Good(m, f)
      PROVE  \E g : Good(m + 1, g)
  <2>1. Good(m, f) /\ m + 1 <= n
    BY <1>2
  <2> DEFINE last == Step[m + 1][f[m]]
             g == [i \in 0..(m + 1) |-> IF i = m + 1 THEN last ELSE f[i]]
  <2>2. m \in 0..m /\ f[m] \in S /\ m + 1 \in 1..n
    BY <2>1
  <2>3. last \in S
    BY <2>2
  <2> HIDE DEF last
  <2>4. g \in [0..(m + 1) -> S] /\ g[0] = base
    BY <2>1, <2>3
  <2>5. ASSUME NEW i \in 1..(m + 1) PROVE g[i] = Step[i][g[i - 1]]
    <3>1. CASE i = m + 1
      <4>1. g[i] = last /\ g[i - 1] = f[m]
        BY <3>1
      <4> QED
        BY <3>1, <4>1 DEF last
    <3>2. CASE i # m + 1
      <4>1. i \in 1..m /\ g[i] = f[i] /\ g[i - 1] = f[i - 1]
        BY <3>2
      <4> QED
        BY <2>1, <4>1
    <3> QED
      BY <3>1, <3>2
  <2> QED
    BY <2>4, <2>5
<1>3. ASSUME NEW m \in T PROVE m + 1 \in T
  <2> HIDE DEF Good
  <2>1. m + 1 <= n => m <= n
    OBVIOUS
  <2> QED
    BY <1>2, <2>1
<1>4. n \in T
  BY <1>1, <1>3, SetInduction
<1> QED
  BY <1>4 DEF Computes

\* Induction along a segment.
LEMMA SegmentInduction ==
  ASSUME NEW n \in Nat, NEW T, 0 \in T, \A i \in 1..n : i - 1 \in T => i \in T
  PROVE  n \in T
<1> DEFINE U == {m \in Nat : m <= n => m \in T}
<1>1. 0 \in U
  OBVIOUS
<1>2. ASSUME NEW m \in U PROVE m + 1 \in U
  <2>1. m + 1 <= n => m + 1 \in 1..n /\ m <= n /\ (m + 1) - 1 = m
    OBVIOUS
  <2> QED
    BY <2>1
<1> HIDE DEF U
<1>3. n \in U
  BY <1>1, <1>2, SetInduction
<1> QED
  BY <1>3 DEF U

\* The items of a list.
LEMMA Elements ==
  ASSUME NEW paths, paths \in Seq(ToSet(paths))
  PROVE  /\ Len(paths) \in Nat /\ DOMAIN paths = 1..Len(paths)
         /\ \A i \in 1..Len(paths) : paths[i] \in ToSet(paths)
         /\ \A item \in ToSet(paths) : \E i \in 1..Len(paths) : paths[i] = item
BY DEF ToSet

\* Those of a longer one.
LEMMA AppendSet ==
  ASSUME NEW S, NEW s \in Seq(S), NEW e \in S
  PROVE  Append(s, e) \in Seq(S) /\ ToSet(Append(s, e)) = ToSet(s) \cup {e}
<1> DEFINE t == Append(s, e)
<1>1. /\ t \in Seq(S) /\ Len(s) \in Nat /\ Len(t) = Len(s) + 1
      /\ \A i \in 1..Len(s) : t[i] = s[i]
      /\ t[Len(s) + 1] = e
  BY AppendProperties
<1>2. DOMAIN s = 1..Len(s) /\ DOMAIN t = 1..Len(t)
  BY <1>1
<1> HIDE DEF t
<1>3. 1..Len(t) = (1..Len(s)) \cup {Len(s) + 1}
  BY <1>1
<1>4. {t[i] : i \in 1..Len(t)} = {s[i] : i \in 1..Len(s)} \cup {e}
  BY <1>1, <1>3
<1> QED
  BY <1>1, <1>2, <1>4 DEF ToSet, t

\* The list without its repetitions has the same items.
LEMMA NormalizedKeeps ==
  ASSUME NEW paths, paths \in Seq(ToSet(paths))
  PROVE  /\ Normalized(paths) \in Seq(ToSet(paths))
         /\ ToSet(Normalized(paths)) = ToSet(paths)
<1> DEFINE n == Len(paths)
           S == Seq(ToSet(paths))
           kept[i \in 0..n] ==
             IF i = 0 THEN << >>
             ELSE IF Contains(kept[i - 1], paths[i]) THEN kept[i - 1]
             ELSE Append(kept[i - 1], paths[i])
           Step == [i \in 1..n |-> [s \in S |->
                      IF Contains(s, paths[i]) THEN s ELSE Append(s, paths[i])]]
<1>1. n \in Nat /\ DOMAIN paths = 1..n /\ \A i \in 1..n : paths[i] \in ToSet(paths)
  BY Elements
<1>2. Step \in [1..n -> [S -> S]] /\ << >> \in S
  BY <1>1, EmptySeq, AppendProperties
<1>3. PICK f \in [0..n -> S] :
        f[0] = << >> /\ \A i \in 1..n : f[i] = Step[i][f[i - 1]]
  <2> DEFINE base == << >>
  <2> HIDE DEF Step, S, n, kept, base
  <2>1. n \in Nat
    BY <1>1
  <2>2. base \in S
    BY <1>2 DEF base
  <2>3. Step \in [1..n -> [S -> S]]
    BY <1>2
  <2>4. \E f : Computes(f, n, S, base, Step)
    BY <2>1, <2>2, <2>3, Recursion
  <2> QED
    BY <2>4 DEF base, Computes
<1>4. ASSUME NEW i \in 1..n
      PROVE  f[i] = IF Contains(f[i - 1], paths[i]) THEN f[i - 1] ELSE Append(f[i - 1], paths[i])
  <2>1. i - 1 \in 0..n /\ f[i - 1] \in S
    BY <1>1
  <2> QED
    BY <1>3, <2>1
<1>5. f = [i \in 0..n |-> IF i = 0 THEN << >>
                         ELSE IF Contains(f[i - 1], paths[i]) THEN f[i - 1]
                         ELSE Append(f[i - 1], paths[i])]
  <2>1. \A i \in 0..n : i # 0 => i \in 1..n
    BY <1>1
  <2> QED
    BY <1>3, <1>4, <2>1
<1>6. kept = [i \in 0..n |-> IF i = 0 THEN << >>
                            ELSE IF Contains(kept[i - 1], paths[i]) THEN kept[i - 1]
                            ELSE Append(kept[i - 1], paths[i])]
  BY <1>5
<1>7. Normalized(paths) = kept[n]
  BY DEF Normalized
<1> DEFINE Heard(i) == {paths[j] : j \in 1..i}
           Right(i) == kept[i] \in S /\ ToSet(kept[i]) = Heard(i)
           T == {i \in 0..n : Right(i)}
<1> HIDE DEF kept, n, S
<1>8. 0 \in 0..n /\ 0 \in T
  <2>1. kept[0] = << >>
    BY <1>1, <1>6
  <2> QED
    BY <1>1, <1>2, <2>1 DEF ToSet
<1>9. ASSUME NEW i \in 1..n, i - 1 \in T PROVE i \in T
  <2>1. i \in 0..n /\ i # 0 /\ i - 1 \in 0..n
    BY <1>1
  <2>2. kept[i] = IF Contains(kept[i - 1], paths[i]) THEN kept[i - 1]
                  ELSE Append(kept[i - 1], paths[i])
    BY <1>6, <2>1
  <2>3. kept[i - 1] \in S /\ ToSet(kept[i - 1]) = Heard(i - 1)
    BY <1>9
  <2>4. Heard(i) = Heard(i - 1) \cup {paths[i]}
    BY <1>1
  <2>5. CASE Contains(kept[i - 1], paths[i])
    <3>1. paths[i] \in ToSet(kept[i - 1])
      BY <2>3, <2>5 DEF Contains, ToSet, S
    <3> QED
      BY <2>1, <2>2, <2>3, <2>4, <2>5, <3>1
  <2>6. CASE ~Contains(kept[i - 1], paths[i])
    <3> DEFINE s == kept[i - 1]
    <3>1. kept[i] = Append(s, paths[i])
      BY <2>2, <2>6
    <3>2. paths[i] \in ToSet(paths) /\ s \in Seq(ToSet(paths))
      BY <1>1, <2>3 DEF S
    <3> HIDE DEF s
    <3>3. Append(s, paths[i]) \in Seq(ToSet(paths))
          /\ ToSet(Append(s, paths[i])) = ToSet(s) \cup {paths[i]}
      BY <3>2, AppendSet
    <3> QED
      BY <2>1, <2>3, <2>4, <3>1, <3>3 DEF s, S
  <2> QED
    BY <2>5, <2>6
<1> HIDE DEF T
<1>10. n \in T
  BY <1>1, <1>8, <1>9, SegmentInduction
<1>11. kept[n] \in S /\ ToSet(kept[n]) = Heard(n)
  BY <1>10 DEF T
<1>12. Heard(n) = ToSet(paths)
  BY <1>1 DEF ToSet
<1> QED
  BY <1>7, <1>11, <1>12 DEF S

\* What rules a document: the deepest of the items below "/" that cover it, or
\* nothing.
LEMMA RulingIsDeepest ==
  ASSUME NEW d, NEW paths, paths \in Seq(ToSet(paths)),
         \A item \in ToSet(paths) : Depth(item) \in Nat
  PROVE  LET below == {item \in ToSet(paths) : Covers(item, d) /\ Depth(item) > 0}
             rule  == Ruling(d, paths)
         IN  below # {} => rule \in below /\ \A item \in below : Depth(item) <= Depth(rule)
<1> DEFINE n == Len(paths)
           S == ToSet(paths) \cup {Nowhere}
           Picked(i, r) == IF Covers(paths[i], d) /\ Depth(paths[i]) > Depth(r)
                             THEN paths[i] ELSE r
           best[i \in 0..n] ==
             IF i = 0 THEN Nowhere
             ELSE IF Covers(paths[i], d) /\ Depth(paths[i]) > Depth(best[i - 1])
               THEN paths[i] ELSE best[i - 1]
           Step == [i \in 1..n |-> [r \in S |-> Picked(i, r)]]
<1>1. n \in Nat /\ DOMAIN paths = 1..n /\ \A i \in 1..n : paths[i] \in ToSet(paths)
  BY Elements
<1>2. Step \in [1..n -> [S -> S]] /\ Nowhere \in S
  BY <1>1
<1>3. PICK f \in [0..n -> S] :
        f[0] = Nowhere /\ \A i \in 1..n : f[i] = Step[i][f[i - 1]]
  <2> HIDE DEF Step, S, n, best
  <2>1. n \in Nat /\ Nowhere \in S /\ Step \in [1..n -> [S -> S]]
    BY <1>1, <1>2
  <2>2. \E f : Computes(f, n, S, Nowhere, Step)
    BY <2>1, Recursion
  <2> QED
    BY <2>2 DEF Computes
<1>4. ASSUME NEW i \in 1..n PROVE f[i] = Picked(i, f[i - 1])
  <2>1. i - 1 \in 0..n /\ f[i - 1] \in S
    BY <1>1
  <2> QED
    BY <1>3, <2>1
<1>5. f = [i \in 0..n |-> IF i = 0 THEN Nowhere
                         ELSE IF Covers(paths[i], d) /\ Depth(paths[i]) > Depth(f[i - 1])
                           THEN paths[i] ELSE f[i - 1]]
  <2>1. \A i \in 0..n : i # 0 => i \in 1..n
    BY <1>1
  <2> QED
    BY <1>3, <1>4, <2>1
<1>6. best = [i \in 0..n |-> IF i = 0 THEN Nowhere
                            ELSE IF Covers(paths[i], d) /\ Depth(paths[i]) > Depth(best[i - 1])
                              THEN paths[i] ELSE best[i - 1]]
  BY <1>5
<1>7. Ruling(d, paths) = best[n]
  BY DEF Ruling
<1> DEFINE Below(i) == {paths[j] : j \in {k \in 1..i : Covers(paths[k], d) /\ Depth(paths[k]) > 0}}
           Right(i) == /\ best[i] \in Below(i) \cup {Nowhere}
                       /\ \A item \in Below(i) : Depth(item) <= Depth(best[i])
           T == {i \in 0..n : Right(i)}
<1> HIDE DEF best, n, S
<1>8. 0 \in T
  <2>1. best[0] = Nowhere
    BY <1>1, <1>6
  <2> QED
    BY <1>1, <2>1
<1>9. ASSUME NEW i \in 1..n, i - 1 \in T PROVE i \in T
  <2>1. i \in 0..n /\ i # 0 /\ i - 1 \in 0..n
    BY <1>1
  <2>2. best[i] = Picked(i, best[i - 1])
    BY <1>6, <2>1
  <2>3. Right(i - 1)
    BY <1>9
  <2>4. Depth(paths[i]) \in Nat /\ Depth(best[i - 1]) \in Nat
    <3>1. Depth(paths[i]) \in Nat
      BY <1>1
    <3>2. Depth(Nowhere) \in Nat
      BY DEF Depth, Nowhere
    <3>3. \A item \in Below(i - 1) : Depth(item) \in Nat
      BY <1>1
    <3> QED
      BY <2>3, <3>1, <3>2, <3>3
  <2>5. Below(i) = IF Covers(paths[i], d) /\ Depth(paths[i]) > 0
                     THEN Below(i - 1) \cup {paths[i]} ELSE Below(i - 1)
    <3>1. 1..i = 1..(i - 1) \cup {i}
      BY <1>1
    <3> QED
      BY <3>1
  <2>6. \A item \in Below(i - 1) : Depth(item) \in Nat
    BY <1>1
  <2> HIDE DEF Below
  <2>7. CASE Covers(paths[i], d) /\ Depth(paths[i]) > Depth(best[i - 1])
    <3>1. best[i] = paths[i] /\ Depth(paths[i]) > 0
      BY <2>2, <2>4, <2>7
    <3>2. Below(i) = Below(i - 1) \cup {paths[i]}
      BY <2>5, <2>7, <3>1
    <3> QED
      BY <2>1, <2>3, <2>4, <2>6, <2>7, <3>1, <3>2
  <2>8. CASE ~(Covers(paths[i], d) /\ Depth(paths[i]) > Depth(best[i - 1]))
    <3>1. best[i] = best[i - 1]
      BY <2>2, <2>8
    <3> QED
      BY <2>1, <2>3, <2>4, <2>5, <2>8, <3>1
  <2> QED
    BY <2>7, <2>8
<1> HIDE DEF T
<1>10. n \in T
  BY <1>1, <1>8, <1>9, SegmentInduction
<1>11. Right(n)
  BY <1>10 DEF T
<1>12. Below(n) = {item \in ToSet(paths) : Covers(item, d) /\ Depth(item) > 0}
  BY <1>1 DEF ToSet
<1>13. Below(n) # {} => best[n] # Nowhere
  <2>1. Depth(Nowhere) = 0
    BY DEF Depth, Nowhere
  <2>2. ASSUME NEW item \in Below(n), best[n] = Nowhere PROVE FALSE
    <3>1. Depth(item) > 0
      BY <2>2
    <3>2. Depth(item) \in Nat
      BY <1>1, <2>2
    <3>3. Depth(item) <= Depth(best[n])
      BY <1>11, <2>2
    <3> QED
      BY <2>1, <2>2, <3>1, <3>2, <3>3
  <2> QED
    BY <2>2
<1> HIDE DEF Below
<1> QED
  BY <1>7, <1>11, <1>12, <1>13

\* The depth of an item, and of two that cover one document.
LEMMA PathFacts ==
  ASSUME NEW paths, IsPathList(paths)
  PROVE  /\ paths \in Seq(ToSet(paths))
         /\ \A item \in ToSet(paths) : Depth(item) \in Nat
         /\ \A d : \A a, b \in ToSet(paths) :
              Covers(a, d) /\ Covers(b, d) /\ Depth(a) = Depth(b) => a.path = b.path
<1>1. paths \in Seq(ToSet(paths))
      /\ \A item \in ToSet(paths) : item.path \in Seq(ToSet(item.path))
  BY DEF IsPathList
<1>2. ASSUME NEW S, NEW s \in Seq(S)
      PROVE  Len(s) \in Nat /\ SubSeq(s, 1, Len(s)) = s
  BY <1>2
<1>3. \A item \in ToSet(paths) :
        Len(item.path) \in Nat /\ SubSeq(item.path, 1, Len(item.path)) = item.path
  BY <1>1, <1>2
<1>4. ASSUME NEW d, NEW a \in ToSet(paths), NEW b \in ToSet(paths),
             Covers(a, d), Covers(b, d), Depth(a) = Depth(b)
      PROVE  a.path = b.path
  BY <1>3, <1>4 DEF Covers, Depth, IsPrefix
<1> QED
  BY <1>1, <1>3, <1>4 DEF Depth

LEMMA RoutesFollowTheDeepest ==
  ASSUME TypeOK
  PROVE  DeepestPathRules
<1> DEFINE paths == cfg.paths
           kept  == Normalized(paths)
<1>1. IsPathList(paths)
  BY SiteOutputAssumption DEF TypeOK, Config
<1>2. /\ paths \in Seq(ToSet(paths))
      /\ \A item \in ToSet(paths) : Depth(item) \in Nat
      /\ \A d : \A a, b \in ToSet(paths) :
           Covers(a, d) /\ Covers(b, d) /\ Depth(a) = Depth(b) => a.path = b.path
  BY <1>1, PathFacts
<1>3. kept \in Seq(ToSet(kept)) /\ ToSet(kept) = ToSet(paths)
  BY <1>2, NormalizedKeeps
<1> SUFFICES ASSUME ~Refused(paths), NEW d \in Docs,
                    {item \in Covering(d) : Depth(item) > 0} # {}
             PROVE  Routes[d] = Deepest({item \in Covering(d) : Depth(item) > 0}).publish
  BY DEF DeepestPathRules
<1> DEFINE below == {item \in Covering(d) : Depth(item) > 0}
           rule  == Ruling(d, kept)
           other == Deepest(below)
<1>4. below = {item \in ToSet(kept) : Covers(item, d) /\ Depth(item) > 0}
  BY <1>3 DEF Covering
<1>5. rule \in below /\ \A item \in below : Depth(item) <= Depth(rule)
  <2> HIDE DEF kept
  <2> QED
    BY <1>2, <1>3, <1>4, RulingIsDeepest
<1> HIDE DEF rule
<1>6. other \in below /\ \A item \in below : Depth(item) <= Depth(other)
  <2>1. \E a \in below : \A b \in below : Depth(b) <= Depth(a)
    BY <1>5
  <2> QED
    BY <2>1, Zenon DEF Deepest
<1>7. /\ rule \in ToSet(paths) /\ other \in ToSet(paths)
      /\ Covers(rule, d) /\ Covers(other, d)
  BY <1>3, <1>4, <1>5, <1>6
<1> HIDE DEF other
<1>8. Depth(rule) = Depth(other)
  BY <1>2, <1>5, <1>6, <1>7
<1>9. rule.path = other.path
  BY <1>2, <1>7, <1>8
<1>10. rule.publish = other.publish
  <2>1. PICK i \in DOMAIN paths, j \in DOMAIN paths : paths[i] = rule /\ paths[j] = other
    BY <1>7 DEF ToSet
  <2> QED
    BY <1>9, <2>1 DEF Refused, Contradicts, Repeats
<1>11. Routes[d] = rule.publish
  BY DEF Routes, PublicationMode, rule
<1> QED
  BY <1>10, <1>11 DEF other

\* Routing: for every list of publication paths that is not refused, in any order
\* and with any repetitions, a document below one of them other than "/" is
\* published as the deepest one says (internal/scan/stateful.go:249-291,
\* internal/config/publication_path.go:37-69).
THEOREM DeepestAlwaysRules == Spec => []DeepestPathRules
BY TypeCorrect, RoutesFollowTheDeepest, PTL
=============================================================================
