--------------------------- MODULE PublishingProofs ---------------------------
(* Theorems about Publishing, for every value of its constants.             *)
EXTENDS Publishing, ProjectStateProofs, FiniteSetTheorems, SequenceTheorems

-----------------------------------------------------------------------------
(* Types.                                                                  *)

LEMMA IdleType == /\ Idle \in Process /\ Idle.pc = "idle" /\ Idle.left = {}
                  /\ Idle.mem = New /\ New \in Project
BY NewType DEF Idle, Process

\* A process with a step to take is not an idle slot.
LEMMA RunningIsActive ==
  ASSUME TypeOK, NEW p \in Procs, proc[p].pc # "idle" \/ proc[p].left # {}
  PROVE  proc[p] \in Active
BY IdleType DEF TypeOK, Process

\* The copy a slot holds.
LEMMA MemType ==
  ASSUME TypeOK, NEW p \in Procs
  PROVE  proc[p].mem \in Project
BY IdleType DEF TypeOK, Process, Active

LEMMA TypeInit == Init => TypeOK
BY IdleType, PublishingAssumption DEF Init, TypeOK, Site, Config

LEMMA ModesType == TypeOK => Modes \in [Docs -> Mode]
BY DEF TypeOK, Modes, Config, AllOff, Mode

LEMMA BecomeType ==
  ASSUME proc \in [Procs -> Process], NEW p \in Procs, NEW q \in Process,
         Become(p, q)
  PROVE  proc' \in [Procs -> Process]
BY DEF Become

LEMMA VisitedType ==
  ASSUME TypeOK, NEW p \in Procs, NEW d \in Docs, NEW error \in BOOLEAN,
         proc[p].pc # "idle", Visited(p, d, error)
  PROVE  proc' \in [Procs -> Process]
<1>1. [proc[p] EXCEPT !.left = @ \ {d}, !.failed = @ \/ error] \in Process
  BY RunningIsActive DEF Process, Active
<1> QED
  BY <1>1, BecomeType DEF TypeOK, Visited

LEMMA RecordedType ==
  ASSUME TypeOK, NEW p \in Procs, NEW d \in Docs, NEW uri \in Nat,
         proc[p].pc # "idle", Recorded(p, d, uri)
  PROVE  proc' \in [Procs -> Process]
<1> DEFINE mem == [proc[p].mem EXCEPT ![d] = Published(@, uri)]
<1>1. mem \in Project
  BY MemType, SetDocumentType
<1>2. [proc[p] EXCEPT !.left = @ \ {d}, !.mem[d] = Published(@, uri), !.pc = "persist"]
        = [proc[p] EXCEPT !.left = @ \ {d}, !.mem = mem, !.pc = "persist"]
  OBVIOUS
<1> HIDE DEF mem
<1>3. [proc[p] EXCEPT !.left = @ \ {d}, !.mem = mem, !.pc = "persist"] \in Process
  BY <1>1, RunningIsActive DEF Process, Active
<1> QED
  BY <1>2, <1>3, BecomeType DEF TypeOK, Recorded

LEMMA StopType ==
  ASSUME TypeOK, NEW p \in Procs, Stop(p)
  PROVE  proc' \in [Procs -> Process]
BY IdleType, BecomeType DEF TypeOK, Stop

LEMMA FaultsType ==
  ASSUME TypeOK, UNCHANGED faults \/ Fault("reply")
  PROVE  faults' \in Nat
BY DEF TypeOK, Fault

LEMMA TypeStep == TypeOK /\ [Next]_vars => TypeOK'
<1> SUFFICES ASSUME TypeOK, [Next]_vars PROVE TypeOK'
  OBVIOUS
<1>1. ASSUME NEW p \in Procs, NEW cmd \in Command, NEW docs \in SUBSET Docs,
             Begin(p, cmd, docs)
      PROVE  TypeOK'
  <2>1. [Idle EXCEPT !.cmd = cmd, !.pc = "load", !.modes = Modes, !.left = docs]
          \in Process
    BY IdleType, ModesType DEF Process, Active, Idle
  <2>2. faults' \in Nat
    BY <1>1 DEF Begin, TypeOK, Fault
  <2> QED
    BY <1>1, <2>1, <2>2, BecomeType DEF Begin, TypeOK
<1>2. ASSUME NEW p \in Procs, LoadState(p)
      PROVE  TypeOK'
  <2> DEFINE docs == IF proc[p].cmd = "publish"
                       THEN {d \in Docs : file[d].status # "unknown"}
                       ELSE proc[p].left
  <2>1. proc[p] \in Active /\ file \in Project
    BY <1>2, RunningIsActive DEF LoadState, TypeOK
  <2>2. docs \in SUBSET Docs
    BY <2>1 DEF Active
  <2> HIDE DEF docs
  <2>3. [proc[p] EXCEPT !.mem = file, !.pc = proc[p].cmd, !.left = docs] \in Process
    BY <2>1, <2>2 DEF Process, Active
  <2> QED
    BY <1>2, <2>3, BecomeType DEF LoadState, TypeOK, docs
<1>3. ASSUME NEW p \in Procs, Persist(p)
      PROVE  TypeOK'
  <2>1. proc[p] \in Active
    BY <1>3, RunningIsActive DEF Persist
  <2>2. [proc[p] EXCEPT !.pc = "publish"] \in Process /\ proc[p].mem \in Project
    BY <2>1 DEF Process, Active, Command
  <2>3. proc' \in [Procs -> Process]
    BY <1>3, <2>2, StopType, BecomeType DEF Persist, TypeOK
  <2> QED
    BY <1>3, <2>2, <2>3 DEF Persist, Fault, TypeOK
<1>4. ASSUME NEW p \in Procs, Crash(p)
      PROVE  TypeOK'
  BY <1>4, StopType DEF Crash, Fault, TypeOK
<1>5. ASSUME NEW p \in Procs, Walk(p)
      PROVE  TypeOK'
  <2> DEFINE mem == ScanStateful(proc[p].mem, site, proc[p].modes)
  <2>1. proc[p] \in Active
    BY <1>5, RunningIsActive DEF Walk
  <2>2. mem \in Project
    BY <2>1, ScanKeeps DEF TypeOK, Active
  <2> HIDE DEF mem
  <2>3. [proc[p] EXCEPT !.mem = mem, !.pc = "persist"] \in Process
    BY <2>1, <2>2 DEF Process, Active
  <2> QED
    BY <1>5, <2>3, StopType, BecomeType DEF Walk, TypeOK, mem
<1>6. ASSUME NEW p \in Procs, NEW d \in Docs, CreateDocument(p, d)
      PROVE  TypeOK'
  <2>1. [doc |-> d, fp |-> proc[p].mem[d].fp] \in Record
    BY <1>6, VersionsAssumption DEF CreateDocument, Rejected, Record
  <2>2. remote \in Seq(Record)
    BY DEF TypeOK
  <2>3. Append(remote, [doc |-> d, fp |-> proc[p].mem[d].fp]) \in Seq(Record)
    BY <2>1, <2>2
  <2>4. Len(remote) + 1 \in Nat
    BY <2>2
  <2>5. proc[p].pc # "idle"
    BY <1>6 DEF CreateDocument, Due, Visiting
  <2>6. proc' \in [Procs -> Process]
    BY <1>6, <2>4, <2>5, VisitedType, RecordedType DEF CreateDocument
  <2>7. faults' \in Nat
    BY <1>6, FaultsType DEF CreateDocument
  <2> QED
    BY <1>6, <2>3, <2>6, <2>7 DEF CreateDocument, TypeOK
<1>7. ASSUME NEW p \in Procs, NEW d \in Docs, UpdateDocument(p, d)
      PROVE  TypeOK'
  <2> DEFINE doc == proc[p].mem[d]
  <2>1. doc.fp \in Versions /\ doc.uri \in Nat
    BY <1>7, MemType, VersionsAssumption DEF UpdateDocument, Rejected, Project, DocumentState
  <2>2. proc[p].pc # "idle"
    BY <1>7 DEF UpdateDocument, Due, Visiting
  <2>3. proc' \in [Procs -> Process]
    BY <1>7, <2>1, <2>2, VisitedType, RecordedType DEF UpdateDocument
  <2>4. remote' = [remote EXCEPT ![doc.uri] = [remote[doc.uri] EXCEPT !.fp = doc.fp]]
    BY <1>7 DEF UpdateDocument
  <2> HIDE DEF doc
  <2>5. remote' \in Seq(Record)
    <3>1. remote \in Seq(Record)
      BY DEF TypeOK
    <3>2. CASE doc.uri \in 1..Len(remote)
      <4> DEFINE old == remote[doc.uri]
                 fp == doc.fp
      <4>a. old \in Record /\ fp \in Versions
        BY <2>1, <3>1, <3>2, ElementOfSeq
      <4> HIDE DEF old, fp
      <4>b. [old EXCEPT !.fp = fp] \in Record
        BY <4>a DEF Record
      <4>1. [remote[doc.uri] EXCEPT !.fp = doc.fp] \in Record
        BY <4>b DEF old, fp
      <4>2. [remote EXCEPT ![doc.uri] = [remote[doc.uri] EXCEPT !.fp = doc.fp]]
              \in Seq(Record)
        BY <3>1, <3>2, <4>1, ExceptSeq
      <4> QED
        BY <2>4, <4>2
    <3>3. CASE doc.uri \notin 1..Len(remote)
      <4>1. remote' = remote
        BY <2>4, <3>1, <3>3
      <4> QED
        BY <3>1, <4>1
    <3> QED
      BY <3>2, <3>3
  <2>6. faults' \in Nat
    BY <1>7, FaultsType DEF UpdateDocument
  <2> QED
    BY <1>7, <2>3, <2>5, <2>6 DEF UpdateDocument, TypeOK
<1>8. ASSUME NEW p \in Procs, NEW d \in Docs, CreatePost(p, d)
      PROVE  TypeOK'
  <2> DEFINE mem == [proc[p].mem EXCEPT ![d] = Posted(@, Len(posts) + 1)]
  <2>1. posts \in Seq(Docs)
    BY DEF TypeOK
  <2>2. Append(posts, d) \in Seq(Docs) /\ Len(posts) + 1 \in Nat
    BY <2>1
  <2>3. mem \in Project
    BY <2>2, MemType, SetDocumentType
  <2>4. [proc[p] EXCEPT !.mem[d] = Posted(@, Len(posts) + 1), !.pc = "persist"]
          = [proc[p] EXCEPT !.mem = mem, !.pc = "persist"]
    OBVIOUS
  <2> HIDE DEF mem
  <2>5. [proc[p] EXCEPT !.mem = mem, !.pc = "persist"] \in Process
    BY <1>8, <2>3, RunningIsActive DEF Process, Active, CreatePost
  <2>6. proc' \in [Procs -> Process] /\ faults' \in Nat
    BY <1>8, <2>4, <2>5, StopType, BecomeType DEF CreatePost, Fault, TypeOK
  <2> QED
    BY <1>8, <2>2, <2>6 DEF CreatePost, TypeOK
<1>9. ASSUME NEW p \in Procs, NEW d \in Docs,
             \/ SkipDocument(p, d) \/ RejectDocument(p, d) \/ RequestFails(p, d)
      PROVE  TypeOK'
  BY <1>9, VisitedType
     DEF SkipDocument, RejectDocument, RequestFails, Due, Visiting, TypeOK
<1>10. ASSUME NEW p \in Procs,
              \/ FinishPublish(p)
              \/ \E d \in Docs : RefusePost(p, d) \/ AbandonPost(p, d)
       PROVE  TypeOK'
  BY <1>10, StopType DEF FinishPublish, RefusePost, AbandonPost, TypeOK
<1>11. CASE EditSite \/ EditConfig
  BY <1>11, PublishingAssumption DEF EditSite, EditConfig, TypeOK
<1>12. CASE UNCHANGED vars
  BY <1>12 DEF vars, TypeOK
<1>13. ASSUME NEW p \in Procs,
              BeginScan(p) \/ BeginPublish(p) \/ \E d \in Docs : BeginPost(p, d)
       PROVE  TypeOK'
  <2>1. CASE BeginScan(p)
    BY <1>1, <2>1 DEF BeginScan, Command
  <2>2. CASE BeginPublish(p)
    BY <1>1, <2>2 DEF BeginPublish, Command
  <2>3. ASSUME NEW d \in Docs, BeginPost(p, d)
        PROVE  TypeOK'
    <3>1. {d} \in SUBSET Docs /\ "post" \in Command
      BY DEF Command
    <3> QED
      BY <1>1, <2>3, <3>1 DEF BeginPost
  <2> QED
    BY <1>13, <2>1, <2>2, <2>3
<1>14. ASSUME NEW p \in Procs, Step(p)
       PROVE  TypeOK'
  BY <1>2, <1>3, <1>5, <1>6, <1>7, <1>8, <1>9, <1>10, <1>14 DEF Step
<1> QED
  BY <1>4, <1>11, <1>12, <1>13, <1>14 DEF Next

\* Type correctness.
THEOREM TypeCorrect == Spec => []TypeOK
BY TypeInit, TypeStep, PTL DEF Spec

-----------------------------------------------------------------------------
(* URIs belong to their documents.                                         *)

\* The remote only ever grows, and a record keeps its document.
Grown(records, records2, announced, announced2) ==
  /\ Len(records) <= Len(records2)
  /\ \A u \in 1..Len(records) : records2[u].doc = records[u].doc
  /\ Len(announced) <= Len(announced2)
  /\ \A u \in 1..Len(announced) : announced2[u] = announced[u]

LEMMA OwnUrisGrow ==
  ASSUME NEW project, NEW r1 \in Seq(Record), NEW r2 \in Seq(Record),
         NEW a1 \in Seq(Docs), NEW a2 \in Seq(Docs),
         Grown(r1, r2, a1, a2), OwnUris(project, r1, a1)
  PROVE  OwnUris(project, r2, a2)
<1>1. /\ Len(r1) \in Nat /\ Len(r2) \in Nat /\ Len(a1) \in Nat /\ Len(a2) \in Nat
      /\ Len(r1) <= Len(r2) /\ Len(a1) <= Len(a2)
  BY DEF Grown
<1>2. ASSUME NEW n \in Nat, NEW m \in Nat, n <= m, NEW u \in 1..n
      PROVE  u \in 1..m
  BY <1>2
<1> QED
  BY <1>1, <1>2 DEF OwnUris, Grown

\* Noting a record or a post of its own leaves every URI where it belongs.
LEMMA OwnUrisSet ==
  ASSUME NEW project \in Project, NEW d \in Docs, NEW u \in Nat,
         NEW r \in Seq(Record), NEW a \in Seq(Docs), OwnUris(project, r, a)
  PROVE  /\ u \in 1..Len(r) /\ r[u].doc = d =>
              OwnUris([project EXCEPT ![d] = Published(@, u)], r, a)
         /\ u \in 1..Len(a) /\ a[u] = d =>
              OwnUris([project EXCEPT ![d] = Posted(@, u)], r, a)
<1>1. ASSUME NEW e \in Docs
      PROVE  LET p1 == [project EXCEPT ![d] = Published(@, u)]
                 p2 == [project EXCEPT ![d] = Posted(@, u)]
             IN /\ p1[e].uri = IF e = d THEN u ELSE project[e].uri
                /\ p1[e].post = project[e].post
                /\ p2[e].uri = project[e].uri
                /\ p2[e].post = IF e = d THEN u ELSE project[e].post
  BY DEF Project, DocumentState, Published, Posted
<1> QED
  BY <1>1 DEF OwnUris

LEMMA OwnUrisScan ==
  ASSUME NEW project \in Project, NEW s \in Site, NEW modes \in [Docs -> Mode],
         NEW r \in Seq(Record), NEW a \in Seq(Docs), OwnUris(project, r, a)
  PROVE  OwnUris(ScanStateful(project, s, modes), r, a)
<1> DEFINE after == ScanStateful(project, s, modes)
<1>1. \A d \in Docs : after[d].uri = project[d].uri /\ after[d].post = project[d].post
  BY ScanKeeps
<1> HIDE DEF after
<1>2. OwnUris(after, r, a)
  BY <1>1 DEF OwnUris
<1> QED
  BY <1>2 DEF after

LEMMA OwnUrisNew ==
  ASSUME NEW r, NEW a PROVE OwnUris(New, r, a)
BY DEF OwnUris, New, NoDocument

LEMMA OwnInit == Init => OwnRecords
<1> SUFFICES ASSUME Init PROVE OwnRecords
  OBVIOUS
<1>1. file = New /\ \A p \in Procs : proc[p].mem = New
  BY IdleType DEF Init
<1>2. OwnUris(New, remote, posts)
  BY OwnUrisNew
<1> QED
  BY <1>1, <1>2 DEF OwnRecords

\* What a step does to the remote.
LEMMA RemoteGrows ==
  ASSUME TypeOK, TypeOK', OwnRecords, [Next]_vars
  PROVE  Grown(remote, remote', posts, posts')
<1>1. remote \in Seq(Record) /\ posts \in Seq(Docs)
  BY DEF TypeOK
<1>2. CASE UNCHANGED <<remote, posts>>
  BY <1>1, <1>2 DEF Grown
<1>3. ASSUME NEW rec, remote' = Append(remote, rec), UNCHANGED posts
      PROVE  Grown(remote, remote', posts, posts')
  BY <1>1, <1>3, AppendProperties DEF Grown
<1>4. ASSUME NEW d \in Docs, posts' = Append(posts, d), UNCHANGED remote
      PROVE  Grown(remote, remote', posts, posts')
  BY <1>1, <1>4, AppendProperties DEF Grown
<1>5. ASSUME NEW u \in 1..Len(remote), NEW fp,
             remote' = [remote EXCEPT ![u].fp = fp], UNCHANGED posts
      PROVE  Grown(remote, remote', posts, posts')
  BY <1>1, <1>5 DEF Grown, Record
<1>6. ASSUME NEW p \in Procs, NEW d \in Docs, UpdateDocument(p, d)
      PROVE  Grown(remote, remote', posts, posts')
  <2>1. proc[p].mem[d].uri \in 1..Len(remote)
    BY <1>6 DEF UpdateDocument, OwnRecords, OwnUris
  <2> QED
    BY <1>5, <1>6, <2>1 DEF UpdateDocument
<1>7. ASSUME NEW p \in Procs, NEW d \in Docs, CreateDocument(p, d)
      PROVE  Grown(remote, remote', posts, posts')
  BY <1>3, <1>7 DEF CreateDocument
<1>8. ASSUME NEW p \in Procs, NEW d \in Docs, CreatePost(p, d)
      PROVE  Grown(remote, remote', posts, posts')
  BY <1>4, <1>8 DEF CreatePost
<1>9. ASSUME NEW p \in Procs, NEW d \in Docs,
             \/ SkipDocument(p, d) \/ RejectDocument(p, d) \/ RequestFails(p, d)
             \/ RefusePost(p, d) \/ AbandonPost(p, d)
      PROVE  UNCHANGED <<remote, posts>>
  BY <1>9 DEF SkipDocument, RejectDocument, RequestFails, RefusePost, AbandonPost
<1>10. ASSUME NEW p \in Procs,
              \/ BeginScan(p) \/ BeginPublish(p) \/ \E d \in Docs : BeginPost(p, d)
              \/ LoadState(p) \/ Persist(p) \/ Walk(p) \/ FinishPublish(p) \/ Crash(p)
       PROVE  UNCHANGED <<remote, posts>>
  BY <1>10 DEF BeginScan, BeginPublish, BeginPost, Begin, LoadState, Persist, Walk,
               FinishPublish, Crash
<1>11. CASE EditSite \/ EditConfig \/ UNCHANGED vars
  BY <1>2, <1>11 DEF EditSite, EditConfig, vars
<1>12. ASSUME NEW p \in Procs, Step(p)
       PROVE  Grown(remote, remote', posts, posts')
  BY <1>2, <1>6, <1>7, <1>8, <1>9, <1>10, <1>12 DEF Step
<1> QED
  BY <1>2, <1>10, <1>11, <1>12 DEF Next

\* The copies every process holds after process p has become q.
LEMMA OwnBecome ==
  ASSUME TypeOK, NEW p \in Procs, NEW q, Become(p, q),
         OwnUris(q.mem, remote', posts'),
         \A o \in Procs : OwnUris(proc[o].mem, remote', posts')
  PROVE  \A o \in Procs : OwnUris(proc'[o].mem, remote', posts')
BY DEF TypeOK, Become

\* Persist is the only action that touches the state file.
LEMMA OnlyPersistWrites ==
  [Next]_vars => UNCHANGED file \/ \E p \in Procs : Persist(p)
<1> SUFFICES ASSUME [Next]_vars, \A p \in Procs : ~Persist(p)
             PROVE  UNCHANGED file
  OBVIOUS
<1>1. ASSUME NEW p \in Procs, NEW d \in Docs,
             \/ SkipDocument(p, d) \/ RejectDocument(p, d)
             \/ CreateDocument(p, d) \/ UpdateDocument(p, d)
             \/ RequestFails(p, d)
             \/ RefusePost(p, d) \/ CreatePost(p, d) \/ AbandonPost(p, d)
      PROVE  UNCHANGED file
  BY <1>1 DEF SkipDocument, RejectDocument, CreateDocument, UpdateDocument,
              RequestFails, RefusePost, CreatePost, AbandonPost
<1>2. ASSUME NEW p \in Procs, NEW cmd, NEW docs, Begin(p, cmd, docs)
      PROVE  UNCHANGED file
  BY <1>2 DEF Begin
<1>3. ASSUME NEW p \in Procs,
             \/ BeginScan(p) \/ BeginPublish(p) \/ \E d \in Docs : BeginPost(p, d)
             \/ LoadState(p) \/ Walk(p) \/ FinishPublish(p) \/ Crash(p)
      PROVE  UNCHANGED file
  BY <1>2, <1>3
     DEF BeginScan, BeginPublish, BeginPost, LoadState, Walk, FinishPublish, Crash
<1>4. ASSUME EditSite \/ EditConfig \/ UNCHANGED vars
      PROVE  UNCHANGED file
  BY <1>4 DEF EditSite, EditConfig, vars
<1>5. ASSUME NEW p \in Procs, Step(p)
      PROVE  UNCHANGED file
  BY <1>1, <1>3, <1>5 DEF Step
<1> QED
  BY <1>3, <1>4, <1>5 DEF Next

LEMMA OwnStep == TypeOK /\ TypeOK' /\ OwnRecords /\ [Next]_vars => OwnRecords'
<1> SUFFICES ASSUME TypeOK, TypeOK', OwnRecords, [Next]_vars PROVE OwnRecords'
  OBVIOUS
<1> DEFINE Own(project) == OwnUris(project, remote', posts')
           Copies == \A o \in Procs : Own(proc'[o].mem)
<1>1. /\ remote \in Seq(Record) /\ remote' \in Seq(Record)
      /\ posts \in Seq(Docs) /\ posts' \in Seq(Docs)
  BY DEF TypeOK
<1>2. Own(file) /\ \A o \in Procs : Own(proc[o].mem)
  BY <1>1, RemoteGrows, OwnUrisGrow DEF OwnRecords
<1>3. Own(New) /\ Own(Idle.mem)
  BY OwnUrisNew, IdleType
<1>4. ASSUME NEW p \in Procs, NEW q, Become(p, q), q.mem = proc[p].mem
      PROVE  Copies
  BY <1>2, <1>4, OwnBecome
<1>5. ASSUME NEW p \in Procs, Stop(p)
      PROVE  Copies
  BY <1>2, <1>3, <1>5, OwnBecome DEF Stop
<1>6. ASSUME NEW p \in Procs,
             BeginScan(p) \/ BeginPublish(p) \/ \E d \in Docs : BeginPost(p, d)
      PROVE  Copies
  <2>1. ASSUME NEW cmd, NEW docs, Begin(p, cmd, docs)
        PROVE  Copies
    <3> DEFINE q == [Idle EXCEPT !.cmd = cmd, !.pc = "load", !.modes = Modes,
                                 !.left = docs]
    <3>1. q.mem = New /\ Become(p, q)
      BY <2>1 DEF Begin, Idle
    <3> QED
      BY <1>2, <1>3, <3>1, OwnBecome
  <2> QED
    BY <1>6, <2>1 DEF BeginScan, BeginPublish, BeginPost
<1>7. ASSUME NEW p \in Procs, LoadState(p)
      PROVE  Copies
  <2> DEFINE docs == IF proc[p].cmd = "publish"
                       THEN {d \in Docs : file[d].status # "unknown"}
                       ELSE proc[p].left
             q == [proc[p] EXCEPT !.mem = file, !.pc = proc[p].cmd, !.left = docs]
  <2>1. proc[p] \in Active
    BY <1>7, RunningIsActive DEF LoadState
  <2>2. q.mem = file /\ Become(p, q)
    BY <1>7, <2>1 DEF LoadState, Active
  <2> QED
    BY <1>2, <2>2, OwnBecome
<1>8. ASSUME NEW p \in Procs, Persist(p)
      PROVE  Copies
  <2> DEFINE q == [proc[p] EXCEPT !.pc = "publish"]
  <2>1. proc[p] \in Active
    BY <1>8, RunningIsActive DEF Persist
  <2>2. q.mem = proc[p].mem
    BY <2>1 DEF Active
  <2>3. Become(p, q) \/ Stop(p)
    BY <1>8 DEF Persist
  <2> QED
    BY <1>4, <1>5, <2>2, <2>3
<1>9. ASSUME NEW p \in Procs, Walk(p)
      PROVE  Copies
  <2> DEFINE mem == ScanStateful(proc[p].mem, site, proc[p].modes)
             q == [proc[p] EXCEPT !.mem = mem, !.pc = "persist"]
  <2>1. proc[p] \in Active
    BY <1>9, RunningIsActive DEF Walk
  <2>2. q.mem = mem
    BY <2>1 DEF Active
  <2>3. Own(mem)
    BY <1>1, <1>2, <2>1, OwnUrisScan DEF Active, TypeOK
  <2>4. Become(p, q) \/ Stop(p)
    BY <1>9 DEF Walk
  <2> HIDE DEF q, mem
  <2> QED
    BY <1>2, <1>5, <2>2, <2>3, <2>4, OwnBecome
<1>10. ASSUME NEW p \in Procs, NEW d \in Docs, NEW error, proc[p].pc # "idle",
              Visited(p, d, error)
       PROVE  Copies
  <2> DEFINE q == [proc[p] EXCEPT !.left = @ \ {d}, !.failed = @ \/ error]
  <2>1. q.mem = proc[p].mem
    BY <1>10, RunningIsActive DEF Active
  <2> QED
    BY <1>4, <1>10, <2>1 DEF Visited
<1>11. ASSUME NEW p \in Procs, NEW d \in Docs, NEW u \in Nat, Recorded(p, d, u),
              proc[p].pc # "idle", u \in 1..Len(remote'), remote'[u].doc = d
       PROVE  Copies
  <2> DEFINE mem == [proc[p].mem EXCEPT ![d] = Published(@, u)]
             q == [proc[p] EXCEPT !.left = @ \ {d}, !.mem[d] = Published(@, u),
                                  !.pc = "persist"]
  <2>1. q.mem = mem
    BY <1>11, RunningIsActive DEF Active
  <2>2. Own(mem)
    BY <1>1, <1>2, <1>11, MemType, OwnUrisSet
  <2>3. Become(p, q)
    BY <1>11 DEF Recorded
  <2> HIDE DEF q, mem
  <2> QED
    BY <1>2, <2>1, <2>2, <2>3, OwnBecome
<1>12. ASSUME NEW p \in Procs, NEW d \in Docs, CreateDocument(p, d)
       PROVE  Copies
  <2> DEFINE rec == [doc |-> d, fp |-> proc[p].mem[d].fp]
             u == Len(remote) + 1
  <2>1. remote' = Append(remote, rec) /\ proc[p].pc # "idle" /\ rec.doc = d
    BY <1>12 DEF CreateDocument, Due, Visiting
  <2>2. u \in Nat /\ u \in 1..Len(remote') /\ remote'[u] = rec
    BY <1>1, <2>1
  <2>3. Recorded(p, d, u) \/ Visited(p, d, TRUE)
    BY <1>12 DEF CreateDocument
  <2> HIDE DEF rec, u
  <2> QED
    BY <1>10, <1>11, <2>1, <2>2, <2>3
<1>13. ASSUME NEW p \in Procs, NEW d \in Docs, UpdateDocument(p, d)
       PROVE  Copies
  <2> DEFINE u == proc[p].mem[d].uri
  <2>1. u \in Nat
    BY MemType DEF Project, DocumentState
  <2>2. u # 0 /\ proc[p].pc # "idle"
    BY <1>13 DEF UpdateDocument, Due, Visiting
  <2>3. u \in 1..Len(remote') /\ remote'[u].doc = d
    BY <1>2, <2>2 DEF OwnUris
  <2>4. Recorded(p, d, u) \/ Visited(p, d, TRUE)
    BY <1>13 DEF UpdateDocument
  <2> HIDE DEF u
  <2> QED
    BY <1>10, <1>11, <2>1, <2>2, <2>3, <2>4
<1>14. ASSUME NEW p \in Procs, NEW d \in Docs, CreatePost(p, d)
       PROVE  Copies
  <2> DEFINE u == Len(posts) + 1
             mem == [proc[p].mem EXCEPT ![d] = Posted(@, u)]
             q == [proc[p] EXCEPT !.mem[d] = Posted(@, u), !.pc = "persist"]
  <2>1. posts' = Append(posts, d) /\ proc[p].pc # "idle"
    BY <1>14 DEF CreatePost
  <2>2. u \in Nat /\ u \in 1..Len(posts') /\ posts'[u] = d
    BY <1>1, <2>1
  <2>3. Become(p, q) \/ Stop(p)
    BY <1>14 DEF CreatePost
  <2>4. q.mem = mem
    BY <2>1, RunningIsActive DEF Active
  <2> HIDE DEF u
  <2>5. Own(mem)
    BY <1>1, <1>2, <2>2, MemType, OwnUrisSet
  <2> HIDE DEF q, mem
  <2> QED
    BY <1>2, <1>5, <2>3, <2>4, <2>5, OwnBecome
<1>15. ASSUME NEW p \in Procs, NEW d \in Docs,
              \/ SkipDocument(p, d) \/ RejectDocument(p, d) \/ RequestFails(p, d)
              \/ RefusePost(p, d) \/ AbandonPost(p, d)
       PROVE  Copies
  <2>1. (proc[p].pc # "idle" /\ \E error : Visited(p, d, error)) \/ Stop(p)
    BY <1>15 DEF SkipDocument, RejectDocument, RequestFails, RefusePost, AbandonPost,
                 Due, Visiting
  <2> QED
    BY <1>5, <1>10, <2>1
<1>16. ASSUME NEW p \in Procs, Crash(p) \/ FinishPublish(p)
       PROVE  Copies
  BY <1>5, <1>16 DEF Crash, FinishPublish
<1>17. ASSUME EditSite \/ EditConfig \/ UNCHANGED vars
       PROVE  Copies
  <2>1. proc' = proc
    BY <1>17 DEF EditSite, EditConfig, vars
  <2> QED
    BY <1>2, <2>1
<1> HIDE DEF Copies
<1>18. Copies
  <2>1. ASSUME NEW p \in Procs, NEW d \in Docs,
               \/ SkipDocument(p, d) \/ RejectDocument(p, d)
               \/ CreateDocument(p, d) \/ UpdateDocument(p, d)
               \/ RequestFails(p, d)
               \/ RefusePost(p, d) \/ CreatePost(p, d) \/ AbandonPost(p, d)
        PROVE  Copies
    BY <1>12, <1>13, <1>14, <1>15, <2>1
  <2>2. ASSUME NEW p \in Procs, Step(p)
        PROVE  Copies
    BY <1>7, <1>8, <1>9, <1>16, <2>1, <2>2 DEF Step
  <2> QED
    BY <1>6, <1>16, <1>17, <2>2 DEF Next
<1>19. Own(file')
  <2>1. ASSUME NEW p \in Procs, Persist(p)
        PROVE  file' = file \/ file' = proc[p].mem
    BY <2>1 DEF Persist
  <2> QED
    BY <1>2, <2>1, OnlyPersistWrites
<1> QED
  BY <1>18, <1>19 DEF OwnRecords, Copies

\* Every URI in the state file and in every process's copy is that of a record
\* or a post made for that document.
THEOREM RecordsAreOwn == Spec => []OwnRecords
BY TypeInit, TypeStep, OwnInit, OwnStep, PTL DEF Spec

-----------------------------------------------------------------------------
(* Commands that run one at a time.                                        *)

OneAtATime == \A p, q \in Running : p = q

SequentialInv == TypeOK /\ OwnRecords /\ OneAtATime /\ CopyIsFresh

\* A command begins only when none runs.
LEMMA BeginsAlone ==
  ASSUME MaxRunning = 1, Cardinality(Running) < MaxRunning
  PROVE  Running = {}
<1>1. IsFiniteSet(Running)
  BY PublishingAssumption, FS_Subset DEF Running
<1>2. Cardinality(Running) \in Nat
  BY <1>1, FS_CardinalityType
<1>3. Cardinality(Running) = 0
  BY <1>2
<1> QED
  BY <1>1, <1>3, FS_EmptySet

\* While p runs alone, the other slots are idle, and stay so.
LEMMA OneStays ==
  ASSUME TypeOK, OneAtATime, NEW p \in Procs, NEW q, Become(p, q),
         proc[p].pc # "idle" \/ Running = {}
  PROVE  /\ OneAtATime'
         /\ \A o \in Procs \ {p} : proc'[o].pc = "idle"
         /\ proc'[p] = q
<1>1. \A o \in Procs \ {p} : proc[o].pc = "idle"
  BY DEF OneAtATime, Running
<1>2. proc'[p] = q /\ \A o \in Procs \ {p} : proc'[o] = proc[o]
  BY DEF TypeOK, Become
<1> QED
  BY <1>1, <1>2 DEF OneAtATime, Running

\* The copy of the one process that moves decides whether copies are fresh.
LEMMA FreshAlone ==
  ASSUME NEW p \in Procs, \A o \in Procs \ {p} : proc'[o].pc = "idle",
         proc'[p].pc \in {"scan", "publish", "post"} => proc'[p].mem = file',
         proc'[p].pc = "persist" => LedgerStep(file', proc'[p].mem)
  PROVE  CopyIsFresh'
<1> SUFFICES ASSUME NEW o \in Procs
             PROVE  /\ proc'[o].pc \in {"scan", "publish", "post"} => proc'[o].mem = file'
                    /\ proc'[o].pc = "persist" => LedgerStep(file', proc'[o].mem)
  BY DEF CopyIsFresh
<1>1. CASE o = p
  BY <1>1
<1>2. CASE o # p
  BY <1>2
<1> QED
  BY <1>1, <1>2

\* A fresh copy in which d has just been recorded at a URI of its own, either
\* the one it had or one that no document has, is one ledger step ahead.
LEMMA RecordIsLedgerStep ==
  ASSUME NEW project \in Project, NEW d \in Docs, NEW u \in Nat \ {0},
         \/ u = project[d].uri
         \/ project[d].uri = 0 /\ \A e \in Docs : project[e].uri # u
  PROVE  LedgerStep(project, [project EXCEPT ![d] = Published(@, u)])
<1> DEFINE new == [project EXCEPT ![d] = Published(@, u)]
<1>1. new[d].uri = u /\ new[d].post = project[d].post
  BY DEF Project, DocumentState, Published
<1>2. \A e \in Docs \ {d} : new[e] = project[e]
  BY DEF Project
<1> HIDE DEF new
<1>3. LedgerStep(project, new)
  BY <1>1, <1>2 DEF LedgerStep, Same
<1> QED
  BY <1>3 DEF new

LEMMA PostIsLedgerStep ==
  ASSUME NEW project \in Project, NEW d \in Docs, NEW u \in Nat \ {0},
         project[d].uri # 0, project[d].post = 0,
         \A e \in Docs : project[e].post # u
  PROVE  LedgerStep(project, [project EXCEPT ![d] = Posted(@, u)])
<1> DEFINE new == [project EXCEPT ![d] = Posted(@, u)]
<1>1. new[d].post = u /\ new[d].uri = project[d].uri
  BY DEF Project, DocumentState, Posted
<1>2. \A e \in Docs \ {d} : new[e] = project[e]
  BY DEF Project
<1> HIDE DEF new
<1>3. LedgerStep(project, new)
  BY <1>1, <1>2 DEF LedgerStep, Same
<1> QED
  BY <1>3 DEF new

LEMMA ScanIsLedgerStep ==
  ASSUME NEW project \in Project, NEW s \in Site, NEW modes \in [Docs -> Mode]
  PROVE  LedgerStep(project, ScanStateful(project, s, modes))
BY ScanKeeps DEF LedgerStep, Same

\* The server's next URI is one no document of the state has.
LEMMA NextUriIsNew ==
  ASSUME NEW project \in Project, NEW r \in Seq(Record), NEW a \in Seq(Docs),
         OwnUris(project, r, a)
  PROVE  \A e \in Docs : /\ project[e].uri # Len(r) + 1
                         /\ project[e].post # Len(a) + 1
BY DEF OwnUris

LEMMA SequentialInit == Init => SequentialInv
<1>1. Init => OneAtATime /\ CopyIsFresh
  BY IdleType DEF Init, OneAtATime, Running, CopyIsFresh
<1> QED
  BY <1>1, TypeInit, OwnInit DEF SequentialInv

LEMMA AloneStep ==
  ASSUME TypeOK, OneAtATime, NEW p \in Procs, NEW q, Become(p, q),
         proc[p].pc # "idle" \/ Running = {},
         q.pc \in {"scan", "publish", "post"} => q.mem = file',
         q.pc = "persist" => LedgerStep(file', q.mem)
  PROVE  (OneAtATime /\ CopyIsFresh)'
<1>1. /\ OneAtATime'
      /\ \A o \in Procs \ {p} : proc'[o].pc = "idle"
      /\ proc'[p] = q
  BY OneStays
<1>2. CopyIsFresh'
  BY <1>1, FreshAlone
<1> QED
  BY <1>1, <1>2

LEMMA SequentialStep ==
  ASSUME MaxRunning = 1, SequentialInv, [Next]_vars
  PROVE  SequentialInv'
<1>1. TypeOK /\ OwnRecords /\ OneAtATime /\ CopyIsFresh
  BY DEF SequentialInv
<1>2. TypeOK' /\ OwnRecords'
  BY <1>1, TypeStep, OwnStep
<1> DEFINE Fresh == (OneAtATime /\ CopyIsFresh)'
<1>3. ASSUME NEW p \in Procs, proc[p].pc # "idle", Stop(p)
      PROVE  Fresh
  BY <1>1, <1>3, IdleType, AloneStep DEF Stop
<1>4. ASSUME NEW p \in Procs, NEW cmd, NEW docs, Begin(p, cmd, docs)
      PROVE  Fresh
  <2> DEFINE q == [Idle EXCEPT !.cmd = cmd, !.pc = "load", !.modes = Modes,
                               !.left = docs]
  <2>1. q.pc = "load" /\ Become(p, q) /\ Running = {}
    BY <1>4, BeginsAlone DEF Begin, Idle
  <2> HIDE DEF q
  <2> QED
    BY <1>1, <2>1, AloneStep
<1>5. ASSUME NEW p \in Procs, LoadState(p)
      PROVE  Fresh
  <2> DEFINE docs == IF proc[p].cmd = "publish"
                       THEN {d \in Docs : file[d].status # "unknown"}
                       ELSE proc[p].left
             q == [proc[p] EXCEPT !.mem = file, !.pc = proc[p].cmd, !.left = docs]
  <2>1. proc[p] \in Active /\ proc[p].pc # "idle"
    BY <1>1, <1>5, RunningIsActive DEF LoadState
  <2>2. /\ q.mem = file /\ q.pc \in Command /\ Become(p, q)
        /\ file' = file
    BY <1>5, <2>1 DEF LoadState, Active
  <2> HIDE DEF q
  <2>3. q.pc # "persist"
    BY <2>2 DEF Command
  <2> QED
    BY <1>1, <2>1, <2>2, <2>3, AloneStep
<1>6. ASSUME NEW p \in Procs, Persist(p)
      PROVE  Fresh
  <2> DEFINE q == [proc[p] EXCEPT !.pc = "publish"]
  <2>1. proc[p] \in Active /\ proc[p].pc # "idle"
    BY <1>1, <1>6, RunningIsActive DEF Persist
  <2>2. q.mem = proc[p].mem /\ q.pc = "publish"
    BY <2>1 DEF Active
  <2>3. (Become(p, q) /\ file' = proc[p].mem) \/ Stop(p)
    BY <1>6 DEF Persist
  <2> HIDE DEF q
  <2> QED
    BY <1>1, <1>3, <2>1, <2>2, <2>3, AloneStep
<1>7. ASSUME NEW p \in Procs, Walk(p)
      PROVE  Fresh
  <2> DEFINE mem == ScanStateful(proc[p].mem, site, proc[p].modes)
             q == [proc[p] EXCEPT !.mem = mem, !.pc = "persist"]
  <2>1. proc[p] \in Active /\ proc[p].pc # "idle"
    BY <1>1, <1>7, RunningIsActive DEF Walk
  <2>2. proc[p].mem = file /\ file' = file
    BY <1>1, <1>7 DEF Walk, CopyIsFresh
  <2>3. LedgerStep(file', mem)
    BY <1>1, <2>1, <2>2, ScanIsLedgerStep DEF TypeOK, Active
  <2>4. q.mem = mem /\ q.pc = "persist"
    BY <2>1 DEF Active
  <2>5. Become(p, q) \/ Stop(p)
    BY <1>7 DEF Walk
  <2> HIDE DEF q, mem
  <2> QED
    BY <1>1, <1>3, <2>1, <2>3, <2>4, <2>5, AloneStep
<1>8. ASSUME NEW p \in Procs, NEW d \in Docs, NEW error, proc[p].pc = "publish",
             Visited(p, d, error), UNCHANGED file
      PROVE  Fresh
  <2> DEFINE q == [proc[p] EXCEPT !.left = @ \ {d}, !.failed = @ \/ error]
  <2>1. proc[p] \in Active
    BY <1>1, <1>8, RunningIsActive
  <2>2. q.mem = proc[p].mem /\ q.pc = "publish"
    BY <1>8, <2>1 DEF Active
  <2>3. proc[p].mem = file
    BY <1>1, <1>8 DEF CopyIsFresh
  <2>4. Become(p, q)
    BY <1>8 DEF Visited
  <2> HIDE DEF q
  <2> QED
    BY <1>1, <1>8, <2>2, <2>3, <2>4, AloneStep
<1>9. ASSUME NEW p \in Procs, NEW d \in Docs, NEW u \in Nat \ {0},
             proc[p].pc = "publish", Recorded(p, d, u), UNCHANGED file,
             \/ u = proc[p].mem[d].uri
             \/ proc[p].mem[d].uri = 0 /\ \A e \in Docs : proc[p].mem[e].uri # u
      PROVE  Fresh
  <2> DEFINE mem == [proc[p].mem EXCEPT ![d] = Published(@, u)]
             q == [proc[p] EXCEPT !.left = @ \ {d}, !.mem[d] = Published(@, u),
                                  !.pc = "persist"]
  <2>1. proc[p] \in Active
    BY <1>1, <1>9, RunningIsActive
  <2>2. q.mem = mem /\ q.pc = "persist"
    BY <2>1 DEF Active
  <2>3. proc[p].mem = file
    BY <1>1, <1>9 DEF CopyIsFresh
  <2>4. LedgerStep(proc[p].mem, mem)
    BY <1>1, <1>9, MemType, RecordIsLedgerStep
  <2>5. Become(p, q)
    BY <1>9 DEF Recorded
  <2> HIDE DEF q, mem
  <2> QED
    BY <1>1, <1>9, <2>2, <2>3, <2>4, <2>5, AloneStep
<1>10. ASSUME NEW p \in Procs, NEW d \in Docs, CreateDocument(p, d)
       PROVE  Fresh
  <2> DEFINE u == Len(remote) + 1
  <2>1. /\ proc[p].pc = "publish" /\ UNCHANGED file /\ proc[p].mem[d].uri = 0
        /\ Recorded(p, d, u) \/ Visited(p, d, TRUE)
    BY <1>10 DEF CreateDocument, Due, Visiting
  <2>2. u \in Nat \ {0} /\ \A e \in Docs : proc[p].mem[e].uri # u
    <3>1. remote \in Seq(Record) /\ posts \in Seq(Docs)
      BY <1>1 DEF TypeOK
    <3>2. OwnUris(proc[p].mem, remote, posts)
      BY <1>1 DEF OwnRecords
    <3> QED
      BY <1>1, <3>1, <3>2, MemType, NextUriIsNew
  <2> HIDE DEF u
  <2> QED
    BY <1>8, <1>9, <2>1, <2>2
<1>11. ASSUME NEW p \in Procs, NEW d \in Docs, UpdateDocument(p, d)
       PROVE  Fresh
  <2> DEFINE u == proc[p].mem[d].uri
  <2>1. /\ proc[p].pc = "publish" /\ UNCHANGED file /\ u # 0
        /\ Recorded(p, d, u) \/ Visited(p, d, TRUE)
    BY <1>11 DEF UpdateDocument, Due, Visiting
  <2>2. u \in Nat \ {0}
    BY <1>1, <2>1, MemType DEF Project, DocumentState
  <2> QED
    BY <1>8, <1>9, <2>1, <2>2
<1>12. ASSUME NEW p \in Procs, NEW d \in Docs, CreatePost(p, d)
       PROVE  Fresh
  <2> DEFINE u == Len(posts) + 1
             mem == [proc[p].mem EXCEPT ![d] = Posted(@, u)]
             q == [proc[p] EXCEPT !.mem[d] = Posted(@, u), !.pc = "persist"]
  <2>1. /\ proc[p].pc = "post" /\ UNCHANGED file
        /\ proc[p].mem[d].uri # 0 /\ proc[p].mem[d].post = 0
        /\ Become(p, q) \/ Stop(p)
    BY <1>12 DEF CreatePost, Postable
  <2>2. proc[p] \in Active
    BY <1>1, <2>1, RunningIsActive
  <2>3. q.mem = mem /\ q.pc = "persist"
    BY <2>2 DEF Active
  <2>4. proc[p].mem = file
    BY <1>1, <2>1 DEF CopyIsFresh
  <2>5. u \in Nat \ {0} /\ \A e \in Docs : proc[p].mem[e].post # u
    <3>1. remote \in Seq(Record) /\ posts \in Seq(Docs)
      BY <1>1 DEF TypeOK
    <3>2. OwnUris(proc[p].mem, remote, posts)
      BY <1>1 DEF OwnRecords
    <3> QED
      BY <1>1, <3>1, <3>2, MemType, NextUriIsNew
  <2> HIDE DEF u
  <2>6. LedgerStep(proc[p].mem, mem)
    BY <1>1, <2>1, <2>5, MemType, PostIsLedgerStep
  <2> HIDE DEF q, mem
  <2> QED
    BY <1>1, <1>3, <2>1, <2>3, <2>4, <2>6, AloneStep
<1>13. ASSUME NEW p \in Procs, NEW d \in Docs,
              \/ SkipDocument(p, d) \/ RejectDocument(p, d) \/ RequestFails(p, d)
              \/ RefusePost(p, d) \/ AbandonPost(p, d)
       PROVE  Fresh
  <2>1. \/ proc[p].pc = "publish" /\ UNCHANGED file /\ \E error : Visited(p, d, error)
        \/ proc[p].pc # "idle" /\ Stop(p)
    BY <1>13 DEF SkipDocument, RejectDocument, RequestFails, RefusePost, AbandonPost,
                 Due, Visiting
  <2> QED
    BY <1>3, <1>8, <2>1
<1>14. ASSUME NEW p \in Procs, Crash(p) \/ FinishPublish(p)
       PROVE  Fresh
  BY <1>3, <1>14 DEF Crash, FinishPublish
<1>15. ASSUME NEW p \in Procs,
              BeginScan(p) \/ BeginPublish(p) \/ \E d \in Docs : BeginPost(p, d)
       PROVE  Fresh
  BY <1>4, <1>15 DEF BeginScan, BeginPublish, BeginPost
<1>16. ASSUME EditSite \/ EditConfig \/ UNCHANGED vars
       PROVE  Fresh
  <2>1. proc' = proc /\ file' = file
    BY <1>16 DEF EditSite, EditConfig, vars
  <2> QED
    BY <1>1, <2>1 DEF OneAtATime, Running, CopyIsFresh
<1>17. ASSUME NEW p \in Procs, Step(p)
       PROVE  Fresh
  <2>1. ASSUME NEW d \in Docs,
               \/ SkipDocument(p, d) \/ RejectDocument(p, d)
               \/ CreateDocument(p, d) \/ UpdateDocument(p, d)
               \/ RequestFails(p, d)
               \/ RefusePost(p, d) \/ CreatePost(p, d) \/ AbandonPost(p, d)
        PROVE  Fresh
    BY <1>10, <1>11, <1>12, <1>13, <2>1
  <2> HIDE DEF Fresh
  <2> QED
    BY <1>5, <1>6, <1>7, <1>14, <1>17, <2>1 DEF Step
<1>18. Fresh
  <2> HIDE DEF Fresh
  <2> QED
    BY <1>14, <1>15, <1>16, <1>17 DEF Next
<1> QED
  BY <1>2, <1>18 DEF SequentialInv

\* What any step of a sequential system does to the state file.
LEMMA FileStep ==
  ASSUME SequentialInv, [Next]_vars
  PROVE  UNCHANGED file \/ LedgerStep(file, file')
<1>1. ASSUME NEW p \in Procs, Persist(p)
      PROVE  UNCHANGED file \/ LedgerStep(file, file')
  BY <1>1 DEF SequentialInv, CopyIsFresh, Persist
<1> QED
  BY <1>1, OnlyPersistWrites

LEMMA SequentialInvariant ==
  ASSUME MaxRunning = 1 PROVE Spec => []SequentialInv
BY SequentialInit, SequentialStep, PTL DEF Spec

\* One command at a time, the copy a command holds is the file, or one ledger
\* step ahead of it.
THEOREM SequentialCopiesAreFresh ==
  ASSUME MaxRunning = 1 PROVE Spec => []CopyIsFresh
<1>1. SequentialInv => CopyIsFresh
  BY DEF SequentialInv
<1> QED
  BY <1>1, SequentialInvariant, PTL

\* One command at a time, no fault and no scan ever makes the state forget a
\* record or a post.
THEOREM SequentialUrisAreKept ==
  ASSUME MaxRunning = 1 PROVE Spec => UrisAreKept
<1> DEFINE Keeps == \A d \in Docs :
                      /\ file[d].uri # 0 => file'[d].uri = file[d].uri
                      /\ file[d].post # 0 => file'[d].post = file[d].post
<1>1. ASSUME SequentialInv, [Next]_vars
      PROVE  Keeps
  <2>1. CASE UNCHANGED file
    BY <2>1
  <2>2. CASE LedgerStep(file, file')
    BY <2>2 DEF LedgerStep, Same
  <2> QED
    BY <1>1, <2>1, <2>2, FileStep
<1>2. SequentialInv /\ [Next]_vars => [Keeps]_vars
  BY <1>1
<1> QED
  BY <1>2, SequentialInvariant, PTL DEF Spec, UrisAreKept

-----------------------------------------------------------------------------
(* The state file implements the ledger.                                   *)

RecordMap == [d \in Docs |-> file[d].uri]
PostMap == [d \in Docs |-> file[d].post]

LEMMA LedgerInit == Init => Ledger!Init
BY DEF Init, Ledger!Init, New, NoDocument

LEMMA LedgerNext ==
  ASSUME SequentialInv, [Next]_vars
  PROVE  [Ledger!Next]_(Ledger!vars)
<1>1. CASE \A d \in Docs : Same(file, file', d)
  BY <1>1 DEF Same, Ledger!vars
<1>2. ASSUME NEW d \in Docs, \A e \in Docs \ {d} : Same(file, file', e),
             file[d].uri = 0, file'[d].uri # 0, file'[d].post = file[d].post,
             \A e \in Docs : file[e].uri # file'[d].uri
      PROVE  Ledger!Next
  <2>1. /\ RecordMap[d] = 0 /\ RecordMap'[d] # 0
        /\ \A e \in Docs : RecordMap[e] # RecordMap'[d]
        /\ RecordMap' = [RecordMap EXCEPT ![d] = RecordMap'[d]]
        /\ PostMap' = PostMap
    BY <1>2 DEF RecordMap, PostMap, Same
  <2>2. Ledger!Publish(d, RecordMap'[d])
    BY <2>1 DEF Ledger!Publish, RecordMap, PostMap
  <2> QED
    BY <2>2 DEF Ledger!Next, RecordMap
<1>3. ASSUME NEW d \in Docs, \A e \in Docs \ {d} : Same(file, file', e),
             file[d].post = 0, file'[d].post # 0, file'[d].uri = file[d].uri,
             file[d].uri # 0, \A e \in Docs : file[e].post # file'[d].post
      PROVE  Ledger!Next
  <2>1. /\ RecordMap[d] # 0 /\ PostMap[d] = 0 /\ PostMap'[d] # 0
        /\ \A e \in Docs : PostMap[e] # PostMap'[d]
        /\ PostMap' = [PostMap EXCEPT ![d] = PostMap'[d]]
        /\ RecordMap' = RecordMap
    BY <1>3 DEF RecordMap, PostMap, Same
  <2>2. Ledger!Post(d, PostMap'[d])
    BY <2>1 DEF Ledger!Post, RecordMap, PostMap
  <2> QED
    BY <2>2 DEF Ledger!Next, PostMap
<1>4. CASE UNCHANGED file
  BY <1>4 DEF Ledger!vars
<1>5. CASE LedgerStep(file, file')
  BY <1>1, <1>2, <1>3, <1>5 DEF LedgerStep
<1> QED
  BY <1>4, <1>5, FileStep

\* One command at a time, .pdg/state.json is the ledger: a record once, for
\* good, under a URI no other document has, and a post once after it.
THEOREM SequentialImplementsLedger ==
  ASSUME MaxRunning = 1 PROVE Spec => ImplementsLedger
BY SequentialInvariant, LedgerInit, LedgerNext, PTL
   DEF Spec, ImplementsLedger, Ledger!Spec

-----------------------------------------------------------------------------
(* A publish without an error is complete.                                 *)

\* A publish that has met no error is complete as far as it got, and a command is
\* where its name says.
Complete(q) ==
  /\ q.pc \in Command => q.cmd = q.pc
  /\ q.cmd = "publish" /\ q.pc \in {"publish", "persist"} /\ ~q.failed =>
       \A d \in Docs \ q.left : Publishable(q.mem[d]) => Noop(q.mem[d])
Completing == \A p \in Procs : Complete(proc[p])

LEMMA CompleteBecome ==
  ASSUME TypeOK, Completing, NEW p \in Procs, NEW q, Become(p, q), Complete(q)
  PROVE  Completing'
<1>1. proc'[p] = q /\ \A o \in Procs \ {p} : proc'[o] = proc[o]
  BY DEF TypeOK, Become
<1> QED
  BY <1>1 DEF Completing, Complete

LEMMA IdleComplete == Complete(Idle)
BY DEF Complete, Idle, Command

LEMMA CompletingInit == Init => Completing
BY IdleComplete DEF Init, Completing

LEMMA CompletingStep ==
  ASSUME TypeOK, Completing, [Next]_vars
  PROVE  Completing'
<1>1. ASSUME NEW p \in Procs, Stop(p)
      PROVE  Completing'
  BY <1>1, IdleComplete, CompleteBecome DEF Stop
<1>2. ASSUME NEW p \in Procs, NEW cmd \in Command, NEW docs, Begin(p, cmd, docs)
      PROVE  Completing'
  <2> DEFINE q == [Idle EXCEPT !.cmd = cmd, !.pc = "load", !.modes = Modes,
                               !.left = docs]
  <2>1. q.pc = "load"
    BY DEF Idle
  <2>2. Become(p, q)
    BY <1>2 DEF Begin
  <2> HIDE DEF q
  <2>3. Complete(q)
    BY <2>1 DEF Complete, Command
  <2> QED
    BY <2>2, <2>3, CompleteBecome
<1>3. ASSUME NEW p \in Procs, LoadState(p)
      PROVE  Completing'
  <2> DEFINE docs == IF proc[p].cmd = "publish"
                       THEN {d \in Docs : file[d].status # "unknown"}
                       ELSE proc[p].left
             q == [proc[p] EXCEPT !.mem = file, !.pc = proc[p].cmd, !.left = docs]
  <2>1. proc[p] \in Active
    BY <1>3, RunningIsActive DEF LoadState
  <2>2. /\ q.mem = file /\ q.cmd = q.pc /\ q.left = docs /\ q.cmd = proc[p].cmd
    BY <2>1 DEF Active
  <2>3. Become(p, q)
    BY <1>3 DEF LoadState
  <2> HIDE DEF q
  <2>4. ASSUME q.cmd = "publish", NEW d \in Docs \ q.left
        PROVE  ~Publishable(q.mem[d])
    <3>1. q.left = {e \in Docs : file[e].status # "unknown"}
      BY <2>2, <2>4
    <3> QED
      BY <2>2, <2>4, <3>1 DEF Publishable
  <2>5. Complete(q)
    BY <2>2, <2>4 DEF Complete
  <2> QED
    BY <2>3, <2>5, CompleteBecome
<1>4. ASSUME NEW p \in Procs, Persist(p)
      PROVE  Completing'
  <2> DEFINE q == [proc[p] EXCEPT !.pc = "publish"]
  <2>1. proc[p] \in Active /\ proc[p].pc = "persist" /\ Complete(proc[p])
    BY <1>4, RunningIsActive DEF Persist, Completing
  <2>2. /\ q.pc = "publish" /\ q.mem = proc[p].mem /\ q.left = proc[p].left
        /\ q.cmd = proc[p].cmd /\ q.failed = proc[p].failed
    BY <2>1 DEF Active
  <2>3. (proc[p].cmd = "publish" /\ Become(p, q)) \/ Stop(p)
    BY <1>4 DEF Persist
  <2> HIDE DEF q
  <2>4. proc[p].cmd = "publish" => Complete(q)
    BY <2>1, <2>2 DEF Complete, Command
  <2> QED
    BY <1>1, <2>3, <2>4, CompleteBecome
<1>5. ASSUME NEW p \in Procs, Walk(p)
      PROVE  Completing'
  <2> DEFINE mem == ScanStateful(proc[p].mem, site, proc[p].modes)
             q == [proc[p] EXCEPT !.mem = mem, !.pc = "persist"]
  <2>1. proc[p] \in Active /\ proc[p].cmd = "scan"
    BY <1>5, RunningIsActive DEF Walk, Completing, Complete, Command
  <2>2. q.pc = "persist" /\ q.cmd = "scan"
    BY <2>1 DEF Active
  <2>3. Become(p, q) \/ Stop(p)
    BY <1>5 DEF Walk
  <2> HIDE DEF q
  <2>4. Complete(q)
    BY <2>2 DEF Complete, Command
  <2> QED
    BY <1>1, <2>3, <2>4, CompleteBecome
<1>6. ASSUME NEW p \in Procs, NEW d \in Docs, NEW error \in BOOLEAN,
             Visiting(p, d), Visited(p, d, error),
             ~error => ~Publishable(proc[p].mem[d]) \/ Noop(proc[p].mem[d])
      PROVE  Completing'
  <2> DEFINE q == [proc[p] EXCEPT !.left = @ \ {d}, !.failed = @ \/ error]
  <2>1. proc[p] \in Active /\ proc[p].pc = "publish" /\ Complete(proc[p])
    BY <1>6, RunningIsActive DEF Visiting, Completing
  <2>2. /\ q.pc = "publish" /\ q.mem = proc[p].mem /\ q.left = proc[p].left \ {d}
        /\ q.cmd = proc[p].cmd /\ q.failed = (proc[p].failed \/ error)
    BY <2>1 DEF Active
  <2>3. Become(p, q)
    BY <1>6 DEF Visited
  <2> HIDE DEF q
  <2>4. Complete(q)
    <3>1. q.cmd = q.pc
      BY <2>1, <2>2 DEF Complete, Command
    <3>2. ASSUME ~q.failed, NEW e \in Docs \ q.left, Publishable(q.mem[e])
          PROVE  Noop(q.mem[e])
      <4>1. ~proc[p].failed /\ ~error
        BY <2>2, <3>2
      <4>2. CASE e = d
        BY <1>6, <2>2, <3>2, <4>1, <4>2
      <4>3. CASE e # d
        BY <2>1, <2>2, <3>1, <3>2, <4>1, <4>3 DEF Complete
      <4> QED
        BY <4>2, <4>3
    <3> QED
      BY <3>1, <3>2 DEF Complete
  <2> QED
    BY <2>3, <2>4, CompleteBecome
<1>7. ASSUME NEW p \in Procs, NEW d \in Docs, NEW u \in Nat \ {0},
             Visiting(p, d), Recorded(p, d, u)
      PROVE  Completing'
  <2> DEFINE mem == [proc[p].mem EXCEPT ![d] = Published(@, u)]
             q == [proc[p] EXCEPT !.left = @ \ {d}, !.mem[d] = Published(@, u),
                                  !.pc = "persist"]
  <2>1. proc[p] \in Active /\ proc[p].pc = "publish" /\ Complete(proc[p])
    BY <1>7, RunningIsActive DEF Visiting, Completing
  <2>2. /\ q.pc = "persist" /\ q.mem = mem /\ q.left = proc[p].left \ {d}
        /\ q.cmd = proc[p].cmd /\ q.failed = proc[p].failed
    BY <2>1 DEF Active
  <2>3. Become(p, q)
    BY <1>7 DEF Recorded
  <2>4. Noop(mem[d]) /\ \A e \in Docs \ {d} : mem[e] = proc[p].mem[e]
    BY <2>1 DEF Noop, Published, Active, Project, DocumentState
  <2> HIDE DEF q, mem
  <2>5. Complete(q)
    BY <2>1, <2>2, <2>4 DEF Complete, Command
  <2> QED
    BY <2>3, <2>5, CompleteBecome
<1>8. ASSUME NEW p \in Procs, NEW d \in Docs,
             \/ CreateDocument(p, d) \/ UpdateDocument(p, d)
      PROVE  Completing'
  <2> DEFINE u == IF proc[p].mem[d].uri = 0 THEN Len(remote) + 1 ELSE proc[p].mem[d].uri
  <2>1. Visiting(p, d) /\ (Recorded(p, d, u) \/ Visited(p, d, TRUE))
    BY <1>8 DEF CreateDocument, UpdateDocument, Due
  <2>2. u \in Nat \ {0}
    <3>1. Len(remote) \in Nat /\ proc[p].mem[d].uri \in Nat
      BY MemType DEF TypeOK, Project, DocumentState
    <3> QED
      BY <3>1
  <2> HIDE DEF u
  <2> QED
    BY <1>6, <1>7, <2>1, <2>2
<1>9. ASSUME NEW p \in Procs, NEW d \in Docs, CreatePost(p, d)
      PROVE  Completing'
  <2> DEFINE q == [proc[p] EXCEPT !.mem[d] = Posted(@, Len(posts) + 1), !.pc = "persist"]
  <2>1. proc[p] \in Active /\ proc[p].cmd = "post"
    BY <1>9, RunningIsActive DEF CreatePost, Completing, Complete, Command
  <2>2. q.pc = "persist" /\ q.cmd = "post"
    BY <2>1 DEF Active
  <2>3. Become(p, q) \/ Stop(p)
    BY <1>9 DEF CreatePost
  <2> HIDE DEF q
  <2>4. Complete(q)
    BY <2>2 DEF Complete, Command
  <2> QED
    BY <1>1, <2>3, <2>4, CompleteBecome
<1>10. ASSUME NEW p \in Procs, NEW d \in Docs,
              SkipDocument(p, d) \/ RejectDocument(p, d) \/ RequestFails(p, d)
       PROVE  Completing'
  <2>1. \/ /\ Visiting(p, d) /\ Visited(p, d, FALSE)
           /\ ~Publishable(proc[p].mem[d]) \/ Noop(proc[p].mem[d])
        \/ Visiting(p, d) /\ Visited(p, d, TRUE)
    BY <1>10 DEF SkipDocument, RejectDocument, RequestFails, Due
  <2> QED
    BY <1>6, <2>1
<1>11. ASSUME NEW p \in Procs, NEW d \in Docs, RefusePost(p, d) \/ AbandonPost(p, d)
       PROVE  Completing'
  BY <1>1, <1>11 DEF RefusePost, AbandonPost
<1>12. ASSUME NEW p \in Procs, Crash(p) \/ FinishPublish(p)
       PROVE  Completing'
  BY <1>1, <1>12 DEF Crash, FinishPublish
<1>13. ASSUME NEW p \in Procs,
              BeginScan(p) \/ BeginPublish(p) \/ \E d \in Docs : BeginPost(p, d)
       PROVE  Completing'
  BY <1>2, <1>13 DEF BeginScan, BeginPublish, BeginPost, Command
<1>14. ASSUME EditSite \/ EditConfig \/ UNCHANGED vars
       PROVE  Completing'
  BY <1>14 DEF EditSite, EditConfig, vars, Completing, Complete
<1>15. ASSUME NEW p \in Procs, Step(p)
       PROVE  Completing'
  BY <1>3, <1>4, <1>5, <1>8, <1>9, <1>10, <1>11, <1>12, <1>15 DEF Step
<1> QED
  BY <1>12, <1>13, <1>14, <1>15 DEF Next

\* One command at a time, a publish that ends without an error leaves every selected
\* document recorded in its present content, whatever it passed over, and whatever
\* failed before (internal/publish/publish.go:52-115).
THEOREM SequentialPublishesAreComplete ==
  ASSUME MaxRunning = 1 PROVE Spec => []CleanPublishIsComplete
<1>1. SequentialInv /\ Completing => CleanPublishIsComplete
  <2> SUFFICES ASSUME SequentialInv, Completing, NEW p \in Procs,
                      proc[p].pc = "publish", proc[p].left = {}, ~proc[p].failed
               PROVE  \A d \in Docs : Publishable(file[d]) => Noop(file[d])
    BY DEF CleanPublishIsComplete
  <2>1. proc[p].mem = file /\ Complete(proc[p])
    BY DEF SequentialInv, CopyIsFresh, Completing
  <2> QED
    BY <2>1 DEF Complete, Command
<1>2. SequentialInv /\ Completing /\ [Next]_vars => Completing'
  BY CompletingStep DEF SequentialInv
<1> QED
  BY <1>1, <1>2, CompletingInit, SequentialInvariant, PTL DEF Spec

-----------------------------------------------------------------------------
(* Records that are out of step are counted by the faults.                 *)

\* The documents of a project that are out of step with the records.
Astray(project, records) ==
  {d \in Docs : project[d].uri # 0 /\ records[project[d].uri].fp # project[d].pubfp}

Few(S, n) == IsFiniteSet(S) /\ Cardinality(S) <= n
OneOff(S, T) == S \subseteq T \/ \E d \in Docs : S \subseteq T \cup {d}

\* They are no more than the faults: those of the file, or, while a command is about
\* to replace it, those of its copy, from which the file is one document off at most.
Counting ==
  /\ (\A p \in Procs : proc[p].pc # "persist") => Few(Astray(file, remote), faults)
  /\ \A p \in Procs : proc[p].pc = "persist" =>
       /\ Few(Astray(proc[p].mem, remote), faults)
       /\ OneOff(Astray(file, remote), Astray(proc[p].mem, remote))

\* One more fault pays for one more document.
LEMMA FewMore ==
  ASSUME NEW S, NEW T, NEW n \in Nat, Few(T, n), OneOff(S, T)
  PROVE  Few(S, n + 1)
<1>1. CASE S \subseteq T
  <2>1. IsFiniteSet(S) /\ Cardinality(S) <= Cardinality(T)
    BY <1>1, FS_Subset DEF Few
  <2>2. Cardinality(S) \in Nat /\ Cardinality(T) \in Nat
    BY <2>1, FS_CardinalityType DEF Few
  <2> QED
    BY <2>1, <2>2 DEF Few
<1>2. ASSUME NEW d \in Docs, S \subseteq T \cup {d}
      PROVE  Few(S, n + 1)
  <2>1. /\ IsFiniteSet(T \cup {d})
        /\ Cardinality(T \cup {d}) = Cardinality(T) \/ Cardinality(T \cup {d}) = Cardinality(T) + 1
    BY FS_AddElement DEF Few
  <2>2. IsFiniteSet(S) /\ Cardinality(S) <= Cardinality(T \cup {d})
    BY <1>2, <2>1, FS_Subset
  <2>3. Cardinality(S) \in Nat /\ Cardinality(T) \in Nat /\ Cardinality(T \cup {d}) \in Nat
    BY <2>1, <2>2, FS_CardinalityType DEF Few
  <2> QED
    BY <2>1, <2>2, <2>3 DEF Few
<1> QED
  BY <1>1, <1>2 DEF OneOff

LEMMA FewLess ==
  ASSUME NEW S, NEW T, NEW n \in Nat, Few(T, n), S \subseteq T
  PROVE  Few(S, n)
<1>1. IsFiniteSet(S) /\ Cardinality(S) <= Cardinality(T)
  BY FS_Subset DEF Few
<1>2. Cardinality(S) \in Nat /\ Cardinality(T) \in Nat
  BY <1>1, FS_CardinalityType DEF Few
<1> QED
  BY <1>1, <1>2 DEF Few

\* What of a project decides which of its documents are astray.
LEMMA AstraySame ==
  ASSUME NEW project, NEW after, NEW records,
         \A d \in Docs : after[d].uri = project[d].uri /\ after[d].pubfp = project[d].pubfp
  PROVE  Astray(after, records) = Astray(project, records)
BY DEF Astray

\* A record for d, created or updated with d's content: at most d goes astray in the
\* project that does not note it, and d does not in the one that does.
LEMMA AstrayRecord ==
  ASSUME NEW project \in Project, NEW records \in Seq(Record), NEW after \in Seq(Record),
         NEW announced, OwnUris(project, records, announced), NEW d \in Docs,
         NEW u \in 1..Len(after), after[u].fp = project[d].fp,
         Len(records) \in Nat, Len(records) <= Len(after),
         \A v \in 1..Len(records) : v # u => after[v] = records[v],
         u \in 1..Len(records) => records[u].doc = d
  PROVE  LET noted == [project EXCEPT ![d] = Published(@, u)]  IN
         /\ Astray(project, after) \subseteq Astray(project, records) \cup {d}
         /\ Astray(noted, after) \subseteq Astray(project, records)
         /\ OneOff(Astray(project, after), Astray(noted, after))
<1> DEFINE noted == [project EXCEPT ![d] = Published(@, u)]
<1>1. noted[d].uri = u /\ noted[d].pubfp = project[d].fp
  BY DEF Project, DocumentState, Published
<1>2. \A e \in Docs \ {d} : noted[e] = project[e]
  BY DEF Project
<1>3. ASSUME NEW e \in Docs \ {d}, project[e].uri # 0
      PROVE  after[project[e].uri] = records[project[e].uri]
  BY <1>3 DEF OwnUris
<1> HIDE DEF noted
<1>4. \A e \in Docs \ {d} : /\ e \in Astray(project, after) <=> e \in Astray(project, records)
                            /\ e \in Astray(noted, after) <=> e \in Astray(project, records)
  BY <1>2, <1>3 DEF Astray
<1>5. d \notin Astray(noted, after)
  BY <1>1 DEF Astray
<1>6. /\ Astray(project, after) \subseteq Docs /\ Astray(noted, after) \subseteq Docs
      /\ Astray(project, records) \subseteq Docs
  BY DEF Astray
<1>7. Astray(project, after) \subseteq Astray(noted, after) \cup {d}
  BY <1>4, <1>6
<1>8. Astray(project, after) \subseteq Astray(project, records) \cup {d}
  BY <1>4, <1>6
<1>9. Astray(noted, after) \subseteq Astray(project, records)
  BY <1>4, <1>5, <1>6
<1> QED
  BY <1>7, <1>8, <1>9 DEF noted, OneOff

\* While p runs alone, its step decides.
LEMMA CountAlone ==
  ASSUME TypeOK, OneAtATime, NEW p \in Procs, NEW q, Become(p, q),
         proc[p].pc # "idle" \/ Running = {},
         q.pc # "persist" => Few(Astray(file', remote'), faults'),
         q.pc = "persist" => /\ Few(Astray(q.mem, remote'), faults')
                             /\ OneOff(Astray(file', remote'), Astray(q.mem, remote'))
  PROVE  Counting'
<1>1. /\ \A o \in Procs \ {p} : proc'[o].pc = "idle"
      /\ proc'[p] = q
  BY OneStays
<1> DEFINE Settled == Few(Astray(file', remote'), faults')
           Ahead(r) == /\ Few(Astray(r.mem, remote'), faults')
                       /\ OneOff(Astray(file', remote'), Astray(r.mem, remote'))
<1>2. (q.pc # "persist" => Settled) /\ (q.pc = "persist" => Ahead(q))
  OBVIOUS
<1>3. Counting' <=> /\ (\A o \in Procs : proc'[o].pc # "persist") => Settled
                    /\ \A o \in Procs : proc'[o].pc = "persist" => Ahead(proc'[o])
  BY DEF Counting
<1> HIDE DEF Settled, Ahead
<1>4. \A o \in Procs : proc'[o].pc = "persist" => proc'[o] = q
  BY <1>1
<1> QED
  BY <1>1, <1>2, <1>3, <1>4

LEMMA CountingInit == Init => Counting
<1> SUFFICES ASSUME Init PROVE Counting
  OBVIOUS
<1>1. Astray(file, remote) = {}
  BY DEF Init, Astray, New, NoDocument
<1>2. Few({}, 0)
  BY FS_EmptySet DEF Few
<1>3. \A p \in Procs : proc[p].pc = "idle"
  BY IdleType DEF Init
<1> QED
  BY <1>1, <1>2, <1>3 DEF Counting, Init

LEMMA CountingStep ==
  ASSUME MaxRunning = 1, SequentialInv, SequentialInv', Counting, [Next]_vars
  PROVE  Counting'
<1>1. /\ TypeOK /\ OwnRecords /\ OneAtATime /\ CopyIsFresh
      /\ faults \in Nat /\ remote \in Seq(Record) /\ remote' \in Seq(Record)
      /\ file \in Project
  BY DEF SequentialInv, TypeOK
<1>2. ASSUME Running = {} \/ \E p \in Procs : proc[p].pc \notin {"idle", "persist"}
      PROVE  Few(Astray(file, remote), faults)
  <2>1. \A p \in Procs : proc[p].pc # "persist"
    BY <1>1, <1>2 DEF OneAtATime, Running
  <2> QED
    BY <2>1 DEF Counting
<1>3. ASSUME NEW p \in Procs, proc[p].pc # "idle", Stop(p), UNCHANGED <<file, remote>>,
             \/ UNCHANGED faults /\ proc[p].pc # "persist"
             \/ faults' = faults + 1
      PROVE  Counting'
  <2>1. Few(Astray(file, remote), faults')
    <3>1. CASE UNCHANGED faults /\ proc[p].pc # "persist"
      BY <1>2, <1>3, <3>1
    <3>2. CASE faults' = faults + 1 /\ proc[p].pc # "persist"
      BY <1>1, <1>2, <1>3, <3>2, FewMore DEF OneOff
    <3>3. CASE faults' = faults + 1 /\ proc[p].pc = "persist"
      BY <1>1, <3>3, FewMore DEF Counting
    <3> QED
      BY <1>3, <3>1, <3>2, <3>3
  <2>2. Idle.pc # "persist" /\ file' = file /\ remote' = remote
    BY <1>3, IdleType
  <2>3. Few(Astray(file', remote'), faults')
    BY <2>1, <2>2
  <2> QED
    BY <1>1, <1>3, <2>2, <2>3, CountAlone DEF Stop
<1>4. ASSUME NEW p \in Procs, NEW q, Become(p, q), q.pc # "persist",
             Running = {} \/ proc[p].pc \notin {"idle", "persist"},
             UNCHANGED <<file, remote, faults>>
      PROVE  Counting'
  <2>1. Few(Astray(file', remote'), faults')
    BY <1>2, <1>4
  <2> QED
    BY <1>1, <1>4, <2>1, CountAlone
<1>5. ASSUME NEW p \in Procs, NEW q, Become(p, q), q.pc = "persist",
             proc[p].pc \notin {"idle", "persist"}, UNCHANGED <<file, remote, faults>>,
             \A d \in Docs : q.mem[d].uri = file[d].uri /\ q.mem[d].pubfp = file[d].pubfp
      PROVE  Counting'
  <2>1. Few(Astray(file', remote'), faults') /\ Astray(q.mem, remote') = Astray(file', remote')
    BY <1>2, <1>5, AstraySame
  <2> QED
    BY <1>1, <1>5, <2>1, CountAlone DEF OneOff
<1>6. ASSUME NEW p \in Procs, NEW cmd, NEW docs, Begin(p, cmd, docs)
      PROVE  Counting'
  <2> DEFINE q == [Idle EXCEPT !.cmd = cmd, !.pc = "load", !.modes = Modes,
                               !.left = docs]
  <2>1. q.pc = "load" /\ Become(p, q) /\ Running = {}
    BY <1>6, BeginsAlone DEF Begin, Idle
  <2>2. UNCHANGED <<file, remote, faults>>
    BY <1>6, <2>1 DEF Begin
  <2> HIDE DEF q
  <2> QED
    BY <1>4, <2>1, <2>2
<1>7. ASSUME NEW p \in Procs, LoadState(p)
      PROVE  Counting'
  <2> DEFINE docs == IF proc[p].cmd = "publish"
                       THEN {d \in Docs : file[d].status # "unknown"}
                       ELSE proc[p].left
             q == [proc[p] EXCEPT !.mem = file, !.pc = proc[p].cmd, !.left = docs]
  <2>1. proc[p] \in Active /\ proc[p].pc = "load"
    BY <1>1, <1>7, RunningIsActive DEF LoadState
  <2>2. q.pc \in Command /\ Become(p, q) /\ UNCHANGED <<file, remote, faults>>
    BY <1>7, <2>1 DEF LoadState, Active
  <2> HIDE DEF q
  <2> QED
    BY <1>4, <2>1, <2>2 DEF Command
<1>8. ASSUME NEW p \in Procs, Persist(p)
      PROVE  Counting'
  <2> DEFINE q == [proc[p] EXCEPT !.pc = "publish"]
  <2>1. proc[p] \in Active /\ proc[p].pc = "persist"
    BY <1>1, <1>8, RunningIsActive DEF Persist
  <2>2. q.pc = "publish" /\ Idle.pc = "idle" /\ remote' = remote
    BY <1>8, <2>1, IdleType DEF Active, Persist
  <2>3. \/ file' = proc[p].mem /\ UNCHANGED faults /\ (Become(p, q) \/ Become(p, Idle))
        \/ UNCHANGED file /\ faults' = faults + 1 /\ Stop(p)
    BY <1>8 DEF Persist, Fault, Stop
  <2> HIDE DEF q
  <2>4. CASE UNCHANGED file /\ faults' = faults + 1 /\ Stop(p)
    BY <1>3, <2>1, <2>2, <2>4
  <2>5. CASE file' = proc[p].mem /\ UNCHANGED faults /\ (Become(p, q) \/ Become(p, Idle))
    <3>1. Few(Astray(proc[p].mem, remote), faults)
      BY <2>1 DEF Counting
    <3>2. Few(Astray(file', remote'), faults')
      BY <2>2, <2>5, <3>1
    <3> QED
      BY <1>1, <2>1, <2>2, <2>5, <3>2, CountAlone
  <2> QED
    BY <2>3, <2>4, <2>5
<1>9. ASSUME NEW p \in Procs, Walk(p)
      PROVE  Counting'
  <2> DEFINE mem == ScanStateful(proc[p].mem, site, proc[p].modes)
             q == [proc[p] EXCEPT !.mem = mem, !.pc = "persist"]
  <2>1. proc[p] \in Active /\ proc[p].pc = "scan" /\ UNCHANGED <<file, remote, faults>>
    BY <1>1, <1>9, RunningIsActive DEF Walk
  <2>2. proc[p].mem = file
    BY <1>1, <2>1 DEF CopyIsFresh
  <2>3. \A d \in Docs : mem[d].uri = file[d].uri /\ mem[d].pubfp = file[d].pubfp
    <3>1. site \in Site /\ proc[p].modes \in [Docs -> Mode]
      BY <1>1, <2>1 DEF TypeOK, Active
    <3> QED
      BY <1>1, <2>2, <3>1, ScanDocumentKeeps DEF ScanStateful, Project, Site
  <2>4. q.mem = mem /\ q.pc = "persist"
    BY <2>1 DEF Active
  <2>5. Become(p, q) \/ Stop(p)
    BY <1>9 DEF Walk
  <2> HIDE DEF q, mem
  <2> QED
    BY <1>3, <1>5, <2>1, <2>3, <2>4, <2>5
<1>10. ASSUME NEW p \in Procs, NEW d \in Docs, NEW error, proc[p].pc = "publish",
              Visited(p, d, error), UNCHANGED <<file, remote, faults>>
       PROVE  Counting'
  <2> DEFINE q == [proc[p] EXCEPT !.left = @ \ {d}, !.failed = @ \/ error]
  <2>1. proc[p] \in Active
    BY <1>1, <1>10, RunningIsActive
  <2>2. q.pc = "publish" /\ Become(p, q)
    BY <1>10, <2>1 DEF Active, Visited
  <2> HIDE DEF q
  <2> QED
    BY <1>4, <1>10, <2>2
<1>11. ASSUME NEW p \in Procs, NEW d \in Docs, NEW u \in 1..Len(remote'),
              proc[p].pc = "publish", UNCHANGED file,
              remote'[u].fp = file[d].fp, Len(remote) \in Nat, Len(remote) <= Len(remote'),
              \A v \in 1..Len(remote) : v # u => remote'[v] = remote[v],
              u \in 1..Len(remote) => remote[u].doc = d,
              \/ Recorded(p, d, u) /\ UNCHANGED faults
              \/ Visited(p, d, TRUE) /\ Fault("reply")
       PROVE  Counting'
  <2> DEFINE noted == [file EXCEPT ![d] = Published(@, u)]
             q == [proc[p] EXCEPT !.left = @ \ {d}, !.mem[d] = Published(@, u),
                                  !.pc = "persist"]
             r == [proc[p] EXCEPT !.left = @ \ {d}, !.failed = @ \/ TRUE]
  <2>1. proc[p] \in Active /\ proc[p].mem = file
    BY <1>1, <1>11, RunningIsActive DEF CopyIsFresh
  <2>2. q.pc = "persist" /\ q.mem = noted /\ r.pc = "publish"
    BY <1>11, <2>1 DEF Active
  <2>3. \/ Become(p, q) /\ UNCHANGED faults
        \/ Become(p, r) /\ faults' = faults + 1
    BY <1>11 DEF Recorded, Visited, Fault
  <2>4. /\ Astray(file, remote') \subseteq Astray(file, remote) \cup {d}
        /\ Astray(noted, remote') \subseteq Astray(file, remote)
        /\ OneOff(Astray(file, remote'), Astray(noted, remote'))
    <3>1. OwnUris(file, remote, posts)
      BY <1>1 DEF OwnRecords
    <3> QED
      BY <1>1, <1>11, <3>1, AstrayRecord
  <2>5. Few(Astray(file, remote), faults)
    BY <1>2, <1>11
  <2>6. Few(Astray(noted, remote'), faults)
    BY <1>1, <2>4, <2>5, FewLess
  <2>7. Few(Astray(file, remote'), faults + 1)
    BY <1>1, <2>4, <2>5, FewMore DEF OneOff
  <2> HIDE DEF q, r, noted
  <2>8. CASE Become(p, q) /\ UNCHANGED faults
    BY <1>1, <1>11, <2>2, <2>4, <2>6, <2>8, CountAlone
  <2>9. CASE Become(p, r) /\ faults' = faults + 1
    BY <1>1, <1>11, <2>2, <2>7, <2>9, CountAlone
  <2> QED
    BY <2>3, <2>8, <2>9
<1>12. ASSUME NEW p \in Procs, NEW d \in Docs, CreateDocument(p, d)
       PROVE  Counting'
  <2> DEFINE u == Len(remote) + 1
             rec == [doc |-> d, fp |-> proc[p].mem[d].fp]
  <2>1. /\ proc[p].pc = "publish" /\ UNCHANGED file /\ remote' = Append(remote, rec)
        /\ \/ Recorded(p, d, u) /\ UNCHANGED faults
           \/ Visited(p, d, TRUE) /\ Fault("reply")
    BY <1>12 DEF CreateDocument, Due, Visiting
  <2>2. proc[p].mem = file
    BY <1>1, <2>1 DEF CopyIsFresh
  <2>3. /\ Len(remote) \in Nat /\ Len(remote') = u /\ remote'[u] = rec
        /\ \A v \in 1..Len(remote) : remote'[v] = remote[v]
    BY <1>1, <2>1, AppendProperties
  <2>4. rec.fp = file[d].fp
    BY <2>2
  <2> HIDE DEF rec
  <2>5. /\ u \in 1..Len(remote') /\ remote'[u].fp = file[d].fp /\ Len(remote) <= Len(remote')
        /\ u \notin 1..Len(remote)
    BY <2>3, <2>4
  <2> HIDE DEF u
  <2> QED
    BY <1>11, <2>1, <2>3, <2>5
<1>13. ASSUME NEW p \in Procs, NEW d \in Docs, UpdateDocument(p, d)
       PROVE  Counting'
  <2> DEFINE u == proc[p].mem[d].uri
  <2>1. /\ proc[p].pc = "publish" /\ UNCHANGED file /\ u # 0
        /\ remote' = [remote EXCEPT ![u].fp = proc[p].mem[d].fp]
        /\ \/ Recorded(p, d, u) /\ UNCHANGED faults
           \/ Visited(p, d, TRUE) /\ Fault("reply")
    BY <1>13 DEF UpdateDocument, Due, Visiting
  <2>2. proc[p].mem = file /\ u \in 1..Len(remote) /\ remote[u].doc = d
    BY <1>1, <2>1 DEF CopyIsFresh, OwnRecords, OwnUris
  <2> HIDE DEF u
  <2>3. /\ Len(remote) \in Nat /\ Len(remote') = Len(remote)
        /\ remote'[u].fp = file[d].fp
        /\ \A v \in 1..Len(remote) : v # u => remote'[v] = remote[v]
    BY <1>1, <2>1, <2>2 DEF Record
  <2>4. u \in 1..Len(remote') /\ Len(remote) <= Len(remote')
    BY <2>2, <2>3
  <2>5. (Recorded(p, d, u) /\ UNCHANGED faults) \/ (Visited(p, d, TRUE) /\ Fault("reply"))
    BY <2>1
  <2>6. proc[p].pc = "publish" /\ UNCHANGED file /\ remote[u].doc = d
    BY <2>1, <2>2
  <2> QED
    BY <1>11, <2>3, <2>4, <2>5, <2>6
<1>14. ASSUME NEW p \in Procs, NEW d \in Docs, CreatePost(p, d)
       PROVE  Counting'
  <2> DEFINE mem == [proc[p].mem EXCEPT ![d] = Posted(@, Len(posts) + 1)]
             q == [proc[p] EXCEPT !.mem[d] = Posted(@, Len(posts) + 1), !.pc = "persist"]
  <2>1. proc[p] \in Active /\ proc[p].pc = "post" /\ UNCHANGED <<file, remote>>
    BY <1>1, <1>14, RunningIsActive DEF CreatePost
  <2>2. proc[p].mem = file
    BY <1>1, <2>1 DEF CopyIsFresh
  <2>3. \A e \in Docs : mem[e].uri = file[e].uri /\ mem[e].pubfp = file[e].pubfp
    BY <1>1, <2>2 DEF Project, DocumentState, Posted
  <2>4. q.mem = mem /\ q.pc = "persist"
    BY <2>1 DEF Active
  <2>5. (Become(p, q) /\ UNCHANGED faults) \/ (Stop(p) /\ faults' = faults + 1)
    BY <1>14 DEF CreatePost, Fault
  <2> HIDE DEF q, mem
  <2> QED
    BY <1>3, <1>5, <2>1, <2>3, <2>4, <2>5
<1>15. ASSUME NEW p \in Procs, NEW d \in Docs,
              \/ SkipDocument(p, d) \/ RejectDocument(p, d) \/ RequestFails(p, d)
              \/ RefusePost(p, d) \/ AbandonPost(p, d)
       PROVE  Counting'
  <2>1. /\ UNCHANGED <<file, remote, faults>>
        /\ \/ proc[p].pc = "publish" /\ \E error : Visited(p, d, error)
           \/ proc[p].pc = "post" /\ Stop(p)
    BY <1>15 DEF SkipDocument, RejectDocument, RequestFails, RefusePost, AbandonPost,
                 Due, Visiting
  <2> QED
    BY <1>3, <1>10, <2>1
<1>16. ASSUME NEW p \in Procs, Crash(p) \/ FinishPublish(p)
       PROVE  Counting'
  BY <1>3, <1>16 DEF Crash, FinishPublish, Fault
<1>17. ASSUME NEW p \in Procs,
              BeginScan(p) \/ BeginPublish(p) \/ \E d \in Docs : BeginPost(p, d)
       PROVE  Counting'
  BY <1>6, <1>17 DEF BeginScan, BeginPublish, BeginPost
<1>18. ASSUME EditSite \/ EditConfig \/ UNCHANGED vars
       PROVE  Counting'
  <2>1. UNCHANGED <<proc, file, remote, faults>>
    BY <1>18 DEF EditSite, EditConfig, vars
  <2> QED
    BY <2>1 DEF Counting
<1>19. ASSUME NEW p \in Procs, Step(p)
       PROVE  Counting'
  BY <1>7, <1>8, <1>9, <1>12, <1>13, <1>14, <1>15, <1>16, <1>19 DEF Step
<1> QED
  BY <1>16, <1>17, <1>18, <1>19 DEF Next

\* One command at a time: between commands the published fingerprint is what the
\* record holds, save for one document for each fault, whatever the faults and
\* however many documents there are (internal/publish/publish.go:78-108).
THEOREM SequentialPublishedIsCurrent ==
  ASSUME MaxRunning = 1 PROVE Spec => []PublishedIsCurrent
<1>1. Counting => PublishedIsCurrent
  <2> SUFFICES ASSUME Counting, Running = {}
               PROVE  Cardinality(OutOfStep(file)) <= faults
    BY DEF PublishedIsCurrent
  <2>1. Few(Astray(file, remote), faults)
    BY DEF Counting, Running
  <2> QED
    BY <2>1 DEF Few, Astray, OutOfStep
<1>2. SequentialInv /\ SequentialInv' /\ Counting /\ [Next]_vars => Counting'
  BY CountingStep
<1> QED
  BY <1>1, <1>2, CountingInit, SequentialInvariant, PTL DEF Spec

-----------------------------------------------------------------------------
(* Duplicates are counted by the faults, whatever overlaps.                *)

\* A document has a record and a post.
Slot == {"uri", "post"}
At(doc, slot) == IF slot = "uri" THEN doc.uri ELSE doc.post
Made(d, slot) == IF slot = "uri" THEN RecordsOf(d) ELSE PostsOf(d)

\* How a process stands to the record (the post) of a document: it has not loaded the
\* state yet; its copy has none, so it may make one, or write a state without one; its
\* copy has one; and it is about to write it.
Place == {"idle", "load", "unbound", "bound", "pending"}
Standing(q, d, slot) ==
  IF q.pc \in {"idle", "load"} THEN q.pc
  ELSE IF At(q.mem[d], slot) = 0 THEN "unbound"
  ELSE IF q.pc = "persist" THEN "pending" ELSE "bound"
Standings(d, slot) == [p \in Procs |-> Standing(proc[p], d, slot)]

\* Who may still make one or write a state without one.
Perilous == {"load", "unbound"}
Dangers(st) == {p \in Procs : st[p] \in Perilous}

\* The state has one, and no copy is without one.
Secure(st, u) == u # 0 /\ \A p \in Procs : st[p] # "unbound"

\* n were made, the state has u, f faults struck.  Each process in danger has been paid
\* for by a fault, save for one; and for one more while the state is secure.  Once the
\* state has none and nobody is about to make or write one, each was paid for.
Within(n, st, u, f) ==
  LET k == Cardinality(Dangers(st))  IN
  /\ Secure(st, u) => n + k <= f + 2 /\ n <= f + 1
  /\ ~Secure(st, u) => n + k <= f + 1
  /\ ~Secure(st, u) /\ (\A p \in Procs : st[p] \in {"idle", "bound"}) => n <= f

Budget ==
  \A d \in Docs, slot \in Slot :
    Within(Cardinality(Made(d, slot)), Standings(d, slot), At(file[d], slot), faults)

Weight(x) == IF x \in Perilous THEN 1 ELSE 0

LEMMA DangersCount ==
  ASSUME NEW st PROVE IsFiniteSet(Dangers(st)) /\ Cardinality(Dangers(st)) \in Nat
<1>1. IsFiniteSet(Dangers(st))
  BY PublishingAssumption, FS_Subset DEF Dangers
<1> QED
  BY <1>1, FS_CardinalityType

\* One process moves.
LEMMA DangersMove ==
  ASSUME NEW st, NEW after, NEW p \in Procs, NEW x,
         after[p] = x, \A o \in Procs \ {p} : after[o] = st[o]
  PROVE  Cardinality(Dangers(after)) + Weight(st[p]) = Cardinality(Dangers(st)) + Weight(x)
<1>1. after[p] = x /\ \A o \in Procs \ {p} : after[o] = st[o]
  OBVIOUS
<1>2. /\ IsFiniteSet(Dangers(st)) /\ Cardinality(Dangers(st)) \in Nat
      /\ IsFiniteSet(Dangers(after)) /\ Cardinality(Dangers(after)) \in Nat
  BY DangersCount
<1>3. p \in Dangers(st) <=> st[p] \in Perilous
  BY DEF Dangers
<1>4. p \in Dangers(after) <=> x \in Perilous
  BY <1>1 DEF Dangers
<1>5. \A o \in Procs \ {p} : o \in Dangers(after) <=> o \in Dangers(st)
  BY <1>1 DEF Dangers
<1>6. Dangers(st) \subseteq Procs /\ Dangers(after) \subseteq Procs
  BY DEF Dangers
<1>7. CASE st[p] \in Perilous /\ x \in Perilous
  <2>1. Dangers(after) = Dangers(st)
    BY <1>3, <1>4, <1>5, <1>6, <1>7
  <2> QED
    BY <1>2, <1>7, <2>1 DEF Weight
<1>8. CASE st[p] \in Perilous /\ x \notin Perilous
  <2>1. Dangers(after) = Dangers(st) \ {p} /\ p \in Dangers(st)
    BY <1>3, <1>4, <1>5, <1>6, <1>8
  <2>2. Cardinality(Dangers(after)) = Cardinality(Dangers(st)) - 1
    BY <1>2, <2>1, FS_RemoveElement
  <2> QED
    BY <1>2, <1>8, <2>2 DEF Weight
<1>9. CASE st[p] \notin Perilous /\ x \in Perilous
  <2>1. Dangers(after) = Dangers(st) \cup {p} /\ p \notin Dangers(st)
    BY <1>3, <1>4, <1>5, <1>6, <1>9
  <2>2. Cardinality(Dangers(after)) = Cardinality(Dangers(st)) + 1
    BY <1>2, <2>1, FS_AddElement
  <2> QED
    BY <1>2, <1>9, <2>2 DEF Weight
<1>10. CASE st[p] \notin Perilous /\ x \notin Perilous
  <2>1. Dangers(after) = Dangers(st)
    BY <1>3, <1>4, <1>5, <1>6, <1>10
  <2> QED
    BY <1>2, <1>10, <2>1 DEF Weight
<1> QED
  BY <1>7, <1>8, <1>9, <1>10

\* The moves there are, by a process p that comes to stand at x.
Begins(st, p, f, f2) ==
  /\ st[p] = "idle"
  /\ f2 = f + 1 \/ (f2 = f /\ \A o \in Procs : st[o] = "idle")
Writes(st, p, x, u2) ==
  \/ st[p] = "unbound" /\ x \in {"unbound", "idle"} /\ u2 = 0
  \/ st[p] = "pending" /\ x \in {"bound", "idle"} /\ u2 # 0

Moves(st, p, x, n, n2, u, u2, f, f2) ==
  \/ Begins(st, p, f, f2) /\ x = "load" /\ n2 = n /\ u2 = u
  \/ st[p] = "load" /\ x = (IF u # 0 THEN "bound" ELSE "unbound") /\ n2 = n /\ u2 = u /\ f2 = f
  \/ st[p] \in {"unbound", "bound"} /\ x = "idle" /\ n2 = n /\ u2 = u /\ f2 = f
  \/ st[p] = "bound" /\ x = "pending" /\ n2 = n /\ u2 = u /\ f2 = f
  \/ x = "idle" /\ n2 = n /\ u2 = u /\ f2 = f + 1
  \/ Writes(st, p, x, u2) /\ n2 = n /\ f2 = f
  \/ st[p] = "unbound" /\ x = "pending" /\ n2 = n + 1 /\ u2 = u /\ f2 = f
  \/ st[p] = "unbound" /\ x \in {"unbound", "idle"} /\ n2 = n + 1 /\ u2 = u /\ f2 = f + 1

LEMMA WithinMoves ==
  ASSUME NEW st \in [Procs -> Place], NEW p \in Procs, NEW x \in Place,
         NEW n \in Nat, NEW u, NEW u2, NEW f \in Nat, NEW f2 \in Nat,
         NEW n2, NEW after \in [Procs -> Place],
         after[p] = x, \A o \in Procs \ {p} : after[o] = st[o],
         Within(n, st, u, f), Moves(st, p, x, n, n2, u, u2, f, f2)
  PROVE  Within(n2, after, u2, f2)
<1> DEFINE k == Cardinality(Dangers(st))
           j == Cardinality(Dangers(after))
           Lone == \A o \in Procs \ {p} : st[o] # "unbound"
           Calm == \A o \in Procs \ {p} : st[o] \in {"idle", "bound"}
<1>1. j + Weight(st[p]) = k + Weight(x)
  BY DangersMove
<1>2. k \in Nat /\ j \in Nat /\ st[p] \in Place
  BY DangersCount
<1>3. after[p] = x /\ \A o \in Procs \ {p} : after[o] = st[o]
  OBVIOUS
<1>4. st[p] \in Perilous => k >= 1
  <2>1. SUFFICES ASSUME st[p] \in Perilous, k = 0 PROVE FALSE
    BY <1>2
  <2>2. Dangers(st) = {}
    BY <2>1, DangersCount, FS_EmptySet
  <2> QED
    BY <2>1, <2>2 DEF Dangers
<1>5. (\A o \in Procs : st[o] = "idle") => k = 0 /\ Lone
  <2>1. ASSUME \A o \in Procs : st[o] = "idle"
        PROVE  Dangers(st) = {}
    BY <2>1 DEF Dangers, Perilous
  <2> QED
    BY <2>1, FS_EmptySet
<1>6. \A c : /\ Secure(st, c) <=> c # 0 /\ Lone /\ st[p] # "unbound"
             /\ Secure(after, c) <=> c # 0 /\ Lone /\ x # "unbound"
  BY <1>3 DEF Secure
<1>7. /\ (\A o \in Procs : st[o] \in {"idle", "bound"}) <=> Calm /\ st[p] \in {"idle", "bound"}
      /\ (\A o \in Procs : after[o] \in {"idle", "bound"}) <=> Calm /\ x \in {"idle", "bound"}
  BY <1>3
<1> DEFINE In(m, c, g) == /\ (c # 0 /\ Lone /\ x # "unbound") => m + j <= g + 2 /\ m <= g + 1
                          /\ ~(c # 0 /\ Lone /\ x # "unbound") => m + j <= g + 1
                          /\ ~(c # 0 /\ Lone /\ x # "unbound") /\ Calm /\ x \in {"idle", "bound"} => m <= g
<1>8. ASSUME NEW m, NEW g, NEW c, In(m, c, g)
      PROVE  Within(m, after, c, g)
  BY <1>6, <1>7, <1>8 DEF Within
<1>9. /\ (u # 0 /\ Lone /\ st[p] # "unbound") => n + k <= f + 2 /\ n <= f + 1
      /\ ~(u # 0 /\ Lone /\ st[p] # "unbound") => n + k <= f + 1
      /\ ~(u # 0 /\ Lone /\ st[p] # "unbound") /\ Calm /\ st[p] \in {"idle", "bound"} => n <= f
  BY <1>6, <1>7 DEF Within
<1>10. Calm => Lone
  OBVIOUS
<1>0. (\A o \in Procs : st[o] = "idle") => Calm
  OBVIOUS
<1> HIDE DEF k, j, Lone, Calm
<1>11. Begins(st, p, f, f2) /\ x = "load" => In(n, u, f2)
  BY <1>0, <1>1, <1>2, <1>5, <1>9 DEF Begins, Weight, Perilous
<1>12. st[p] = "load" /\ x = (IF u # 0 THEN "bound" ELSE "unbound") => In(n, u, f)
  BY <1>1, <1>2, <1>4, <1>9 DEF Weight, Perilous
<1>13. st[p] \in {"unbound", "bound"} /\ x = "idle" => In(n, u, f)
  BY <1>1, <1>2, <1>4, <1>9 DEF Weight, Perilous
<1>14. st[p] = "bound" /\ x = "pending" => In(n, u, f)
  BY <1>1, <1>2, <1>9 DEF Weight, Perilous
<1>15. x = "idle" => In(n, u, f + 1)
  BY <1>1, <1>2, <1>4, <1>9 DEF Weight, Perilous, Place
<1>16. Writes(st, p, x, u2) => In(n, u2, f)
  BY <1>1, <1>2, <1>4, <1>9, <1>10 DEF Writes, Weight, Perilous
<1>17. st[p] = "unbound" /\ x = "pending" => In(n + 1, u, f)
  BY <1>1, <1>2, <1>4, <1>9 DEF Weight, Perilous
<1>18. st[p] = "unbound" /\ x \in {"unbound", "idle"} => In(n + 1, u, f + 1)
  BY <1>1, <1>2, <1>4, <1>9 DEF Weight, Perilous
<1> HIDE DEF In
<1>19. In(n2, u2, f2)
  BY <1>11, <1>12, <1>13, <1>14, <1>15, <1>16, <1>17, <1>18 DEF Moves
<1> QED
  BY <1>8, <1>19

\* One more fault, and nothing else.
LEMMA WithinMore ==
  ASSUME NEW st, NEW n \in Nat, NEW u, NEW f \in Nat, Within(n, st, u, f)
  PROVE  Within(n, st, u, f + 1)
<1>1. Cardinality(Dangers(st)) \in Nat
  BY DangersCount
<1> QED
  BY <1>1 DEF Within

LEMMA MadeType ==
  ASSUME TypeOK, NEW d \in Docs, NEW slot \in Slot
  PROVE  IsFiniteSet(Made(d, slot)) /\ Cardinality(Made(d, slot)) \in Nat
<1>1. Len(remote) \in Nat /\ Len(posts) \in Nat
  BY DEF TypeOK
<1>2. IsFiniteSet(1..Len(remote)) /\ IsFiniteSet(1..Len(posts))
  BY <1>1, FS_Interval
<1>3. RecordsOf(d) \subseteq 1..Len(remote) /\ PostsOf(d) \subseteq 1..Len(posts)
  BY DEF RecordsOf, PostsOf
<1>4. IsFiniteSet(RecordsOf(d)) /\ IsFiniteSet(PostsOf(d))
  BY <1>2, <1>3, FS_Subset
<1> QED
  BY <1>4, FS_CardinalityType DEF Made

LEMMA StandingType ==
  ASSUME TypeOK, NEW d \in Docs, NEW slot \in Slot
  PROVE  Standings(d, slot) \in [Procs -> Place]
BY DEF Standings, Standing, Place

LEMMA StandingBecome ==
  ASSUME TypeOK, NEW d \in Docs, NEW slot \in Slot, NEW p \in Procs, NEW q, Become(p, q)
  PROVE  /\ Standings(d, slot)' = [Standings(d, slot) EXCEPT ![p] = Standing(q, d, slot)]
         /\ Standing(q, d, slot) \in Place
         /\ Standings(d, slot)[p] = Standing(proc[p], d, slot)
<1>1. proc' = [proc EXCEPT ![p] = q] /\ proc \in [Procs -> Process]
  BY DEF TypeOK, Become
<1>2. Standings(d, slot)' = [o \in Procs |-> Standing(proc'[o], d, slot)]
  BY DEF Standings, Standing
<1>3. Standing(q, d, slot) \in Place
  BY DEF Standing, Place
<1> QED
  BY <1>1, <1>2, <1>3 DEF Standings

\* The same number was made of each.
LEMMA MadeSame ==
  ASSUME NEW d \in Docs, NEW slot \in Slot, UNCHANGED <<remote, posts>>
  PROVE  Made(d, slot)' = Made(d, slot)
BY DEF Made, RecordsOf, PostsOf

LEMMA MadeUpdated ==
  ASSUME TypeOK, NEW d \in Docs, NEW slot \in Slot, NEW u \in 1..Len(remote), NEW fp,
         remote' = [remote EXCEPT ![u].fp = fp], UNCHANGED posts
  PROVE  Made(d, slot)' = Made(d, slot)
<1>1. remote \in Seq(Record)
  BY DEF TypeOK
<1>2. Len(remote') = Len(remote) /\ \A v \in 1..Len(remote) : remote'[v].doc = remote[v].doc
  BY <1>1 DEF Record
<1> QED
  BY <1>2 DEF Made, RecordsOf, PostsOf

LEMMA MadeRecord ==
  ASSUME TypeOK, NEW d \in Docs, NEW slot \in Slot, NEW e \in Docs, NEW fp,
         remote' = Append(remote, [doc |-> e, fp |-> fp]), UNCHANGED posts
  PROVE  Cardinality(Made(d, slot)') =
           IF d = e /\ slot = "uri" THEN Cardinality(Made(d, slot)) + 1
                                    ELSE Cardinality(Made(d, slot))
<1> DEFINE u == Len(remote) + 1
<1>1. /\ Len(remote) \in Nat /\ Len(remote') = u /\ remote'[u].doc = e
      /\ \A v \in 1..Len(remote) : remote'[v] = remote[v]
  BY AppendProperties DEF TypeOK
<1>2. 1..u = (1..Len(remote)) \cup {u} /\ u \notin 1..Len(remote)
  BY <1>1
<1> HIDE DEF u
<1>3. RecordsOf(d)' = IF d = e THEN RecordsOf(d) \cup {u} ELSE RecordsOf(d)
  BY <1>1, <1>2 DEF RecordsOf
<1>4. PostsOf(d)' = PostsOf(d) /\ u \notin RecordsOf(d)
  BY <1>2 DEF PostsOf, RecordsOf
<1>5. CASE d = e /\ slot = "uri"
  <2>1. Made(d, slot)' = Made(d, slot) \cup {u} /\ u \notin Made(d, slot)
    BY <1>3, <1>4, <1>5 DEF Made
  <2> QED
    BY <1>5, <2>1, MadeType, FS_AddElement
<1>6. CASE ~(d = e /\ slot = "uri")
  BY <1>3, <1>4, <1>6 DEF Made, Slot
<1> QED
  BY <1>5, <1>6

LEMMA MadePost ==
  ASSUME TypeOK, NEW d \in Docs, NEW slot \in Slot, NEW e \in Docs,
         posts' = Append(posts, e), UNCHANGED remote
  PROVE  Cardinality(Made(d, slot)') =
           IF d = e /\ slot = "post" THEN Cardinality(Made(d, slot)) + 1
                                     ELSE Cardinality(Made(d, slot))
<1> DEFINE u == Len(posts) + 1
<1>1. /\ Len(posts) \in Nat /\ Len(posts') = u /\ posts'[u] = e
      /\ \A v \in 1..Len(posts) : posts'[v] = posts[v]
  BY AppendProperties DEF TypeOK
<1>2. 1..u = (1..Len(posts)) \cup {u} /\ u \notin 1..Len(posts)
  BY <1>1
<1> HIDE DEF u
<1>3. PostsOf(d)' = IF d = e THEN PostsOf(d) \cup {u} ELSE PostsOf(d)
  BY <1>1, <1>2 DEF PostsOf
<1>4. RecordsOf(d)' = RecordsOf(d) /\ u \notin PostsOf(d)
  BY <1>2 DEF PostsOf, RecordsOf
<1>5. CASE d = e /\ slot = "post"
  <2>1. Made(d, slot)' = Made(d, slot) \cup {u} /\ u \notin Made(d, slot)
    BY <1>3, <1>4, <1>5 DEF Made
  <2> QED
    BY <1>5, <2>1, MadeType, FS_AddElement
<1>6. CASE ~(d = e /\ slot = "post")
  BY <1>3, <1>4, <1>6 DEF Made, Slot
<1> QED
  BY <1>5, <1>6

LEMMA BudgetInit == Init => Budget
<1> SUFFICES ASSUME Init, NEW d \in Docs, NEW slot \in Slot
             PROVE  Within(Cardinality(Made(d, slot)), Standings(d, slot),
                           At(file[d], slot), faults)
  BY DEF Budget
<1>1. Made(d, slot) = {} /\ faults = 0 /\ At(file[d], slot) = 0
  BY DEF Init, Made, RecordsOf, PostsOf, At, New, NoDocument
<1>2. \A p \in Procs : Standings(d, slot)[p] = "idle"
  BY IdleType DEF Init, Standings, Standing
<1>3. Dangers(Standings(d, slot)) = {}
  BY <1>2 DEF Dangers, Perilous
<1>4. Cardinality({}) = 0
  BY FS_EmptySet
<1>5. ~Secure(Standings(d, slot), At(file[d], slot))
  BY <1>1 DEF Secure
<1> QED
  BY <1>1, <1>3, <1>4, <1>5 DEF Within

\* A move of one process, seen from a slot of a document.
LEMMA BudgetMoves ==
  ASSUME TypeOK, TypeOK', NEW d \in Docs, NEW slot \in Slot, NEW p \in Procs, NEW q,
         Become(p, q),
         Within(Cardinality(Made(d, slot)), Standings(d, slot), At(file[d], slot), faults)
  PROVE  LET n == Cardinality(Made(d, slot))
             m == Cardinality(Made(d, slot)')
             here == Standing(proc[p], d, slot)
             there == Standing(q, d, slot)
             Goal == Within(m, Standings(d, slot)', At(file'[d], slot), faults')
         IN  /\ /\ Begins(Standings(d, slot), p, faults, faults') /\ there = "load"
                /\ m = n /\ UNCHANGED file
                => Goal
             /\ /\ here = "load"
                /\ there = (IF At(file[d], slot) # 0 THEN "bound" ELSE "unbound")
                /\ m = n /\ UNCHANGED <<file, faults>>
                => Goal
             /\ /\ here \in {"unbound", "bound"} /\ there = "idle"
                /\ m = n /\ UNCHANGED <<file, faults>>
                => Goal
             /\ /\ there = here \/ (here = "bound" /\ there = "pending")
                /\ m = n /\ UNCHANGED <<file, faults>>
                => Goal
             /\ /\ there = "idle" \/ there = here
                /\ m = n /\ UNCHANGED file /\ faults' = faults + 1
                => Goal
             /\ /\ Writes(Standings(d, slot), p, there, At(file'[d], slot))
                /\ m = n /\ UNCHANGED faults
                => Goal
             /\ /\ here = "unbound" /\ there = "pending"
                /\ m = n + 1 /\ UNCHANGED <<file, faults>>
                => Goal
             /\ /\ here = "unbound" /\ there \in {"unbound", "idle"}
                /\ m = n + 1 /\ UNCHANGED file /\ faults' = faults + 1
                => Goal
<1> DEFINE n == Cardinality(Made(d, slot))
           m == Cardinality(Made(d, slot)')
           st == Standings(d, slot)
           st2 == Standings(d, slot)'
           u == At(file[d], slot)
           u2 == At(file'[d], slot)
           here == Standing(proc[p], d, slot)
           there == Standing(q, d, slot)
<1>1. /\ st2 = [st EXCEPT ![p] = there] /\ there \in Place /\ st[p] = here
      /\ st \in [Procs -> Place]
  BY StandingBecome, StandingType
<1>2. n \in Nat /\ faults \in Nat /\ faults' \in Nat
  BY MadeType DEF TypeOK
<1>3. Within(n, st, u, faults)
  OBVIOUS
<1>4. there = here => st2 = st
  BY <1>1
<1>5. UNCHANGED file => u2 = u
  OBVIOUS
<1> HIDE DEF n, m, st, st2, u, u2, here, there
<1>6. Within(n, st, u, faults + 1)
  BY <1>2, <1>3, WithinMore
<1>7. Moves(st, p, there, n, m, u, u2, faults, faults') => Within(m, st2, u2, faults')
  <2>1. /\ st \in [Procs -> Place] /\ st2 \in [Procs -> Place] /\ st2[p] = there
        /\ \A o \in Procs \ {p} : st2[o] = st[o]
    BY <1>1
  <2> QED
    BY <1>1, <1>2, <1>3, <2>1, WithinMoves
<1>8. /\ Begins(st, p, faults, faults') /\ there = "load" /\ m = n /\ UNCHANGED file
           => Within(m, st2, u2, faults')
      /\ here = "load" /\ there = (IF u # 0 THEN "bound" ELSE "unbound")
           /\ m = n /\ UNCHANGED <<file, faults>>
           => Within(m, st2, u2, faults')
      /\ here \in {"unbound", "bound"} /\ there = "idle" /\ m = n /\ UNCHANGED <<file, faults>>
           => Within(m, st2, u2, faults')
      /\ (there = here \/ (here = "bound" /\ there = "pending"))
           /\ m = n /\ UNCHANGED <<file, faults>>
           => Within(m, st2, u2, faults')
      /\ (there = "idle" \/ there = here) /\ m = n /\ UNCHANGED file /\ faults' = faults + 1
           => Within(m, st2, u2, faults')
      /\ Writes(st, p, there, u2) /\ m = n /\ UNCHANGED faults
           => Within(m, st2, u2, faults')
      /\ here = "unbound" /\ there = "pending" /\ m = n + 1 /\ UNCHANGED <<file, faults>>
           => Within(m, st2, u2, faults')
      /\ here = "unbound" /\ there \in {"unbound", "idle"} /\ m = n + 1
           /\ UNCHANGED file /\ faults' = faults + 1
           => Within(m, st2, u2, faults')
  BY <1>1, <1>3, <1>4, <1>5, <1>6, <1>7 DEF Moves
<1> QED
  BY <1>8 DEF n, m, st, st2, u, u2, here, there

LEMMA BudgetStep ==
  ASSUME TypeOK, TypeOK', OwnRecords, Budget, [Next]_vars
  PROVE  Budget'
<1> SUFFICES ASSUME NEW d \in Docs, NEW slot \in Slot
             PROVE  Within(Cardinality(Made(d, slot)'), Standings(d, slot)',
                           At(file'[d], slot), faults')
  BY DEF Budget
<1> DEFINE n == Cardinality(Made(d, slot))
           m == Cardinality(Made(d, slot)')
           Goal == Within(m, Standings(d, slot)', At(file'[d], slot), faults')
<1>1. Within(n, Standings(d, slot), At(file[d], slot), faults) /\ n \in Nat
  BY MadeType DEF Budget
<1>2. UNCHANGED <<remote, posts>> => m = n
  BY MadeSame
<1> HIDE DEF Goal, n, m
<1>3. ASSUME NEW p \in Procs, proc[p].pc \in Command, Stop(p), UNCHANGED <<file, faults>>,
             m = n
      PROVE  Goal
  <2>1. Standing(proc[p], d, slot) \in {"unbound", "bound"} /\ Standing(Idle, d, slot) = "idle"
    BY <1>3, IdleType DEF Standing, Command
  <2> QED
    BY <1>1, <1>3, <2>1, BudgetMoves DEF Stop, Goal, n, m
<1>4. ASSUME NEW p \in Procs, Stop(p), UNCHANGED file, faults' = faults + 1, m = n
      PROVE  Goal
  <2>1. Standing(Idle, d, slot) = "idle"
    BY IdleType DEF Standing
  <2> QED
    BY <1>1, <1>4, <2>1, BudgetMoves DEF Stop, Goal, n, m
<1>5. ASSUME NEW p \in Procs, NEW q, Become(p, q), UNCHANGED file, m = n,
             proc[p].pc \in Command,
             At(q.mem[d], slot) = 0 <=> At(proc[p].mem[d], slot) = 0,
             \/ UNCHANGED faults /\ q.pc \in {proc[p].pc, "persist"}
             \/ faults' = faults + 1 /\ q.pc = proc[p].pc
      PROVE  Goal
  <2>1. \/ Standing(q, d, slot) = Standing(proc[p], d, slot)
        \/ /\ Standing(proc[p], d, slot) = "bound" /\ Standing(q, d, slot) = "pending"
           /\ q.pc = "persist"
    BY <1>5 DEF Standing, Command
  <2>2. q.pc = proc[p].pc => Standing(q, d, slot) = Standing(proc[p], d, slot)
    BY <1>5 DEF Standing, Command
  <2> QED
    BY <1>1, <1>5, <2>1, <2>2, BudgetMoves DEF Goal, n, m
<1>6. ASSUME NEW p \in Procs, NEW q, Become(p, q), UNCHANGED file, m = n + 1,
             proc[p].pc \in Command, At(proc[p].mem[d], slot) = 0,
             \/ UNCHANGED faults /\ q.pc = "persist" /\ At(q.mem[d], slot) # 0
             \/ faults' = faults + 1 /\ q.pc = proc[p].pc /\ At(q.mem[d], slot) = 0
             \/ faults' = faults + 1 /\ q.pc = "idle"
      PROVE  Goal
  <2>1. Standing(proc[p], d, slot) = "unbound"
    BY <1>6 DEF Standing, Command
  <2>2. \/ UNCHANGED faults /\ Standing(q, d, slot) = "pending"
        \/ faults' = faults + 1 /\ Standing(q, d, slot) \in {"unbound", "idle"}
    BY <1>6 DEF Standing, Command
  <2> QED
    BY <1>1, <1>6, <2>1, <2>2, BudgetMoves DEF Goal, n, m
<1>7. ASSUME NEW p \in Procs, NEW cmd, NEW docs, Begin(p, cmd, docs)
      PROVE  Goal
  <2> DEFINE q == [Idle EXCEPT !.cmd = cmd, !.pc = "load", !.modes = Modes,
                               !.left = docs]
  <2>1. q.pc = "load" /\ Become(p, q) /\ m = n /\ UNCHANGED file /\ proc[p].pc = "idle"
    BY <1>2, <1>7 DEF Begin, Idle
  <2>2. (UNCHANGED faults /\ Running = {}) \/ faults' = faults + 1
    BY <1>7 DEF Begin, Fault
  <2> HIDE DEF q
  <2>3. Standing(q, d, slot) = "load"
    BY <2>1 DEF Standing
  <2>4. Begins(Standings(d, slot), p, faults, faults')
    BY <2>1, <2>2 DEF Begins, Standings, Standing, Running
  <2> QED
    BY <1>1, <2>1, <2>3, <2>4, BudgetMoves DEF Goal, n, m
<1>8. ASSUME NEW p \in Procs, LoadState(p)
      PROVE  Goal
  <2> DEFINE docs == IF proc[p].cmd = "publish"
                       THEN {e \in Docs : file[e].status # "unknown"}
                       ELSE proc[p].left
             q == [proc[p] EXCEPT !.mem = file, !.pc = proc[p].cmd, !.left = docs]
  <2>1. proc[p] \in Active /\ proc[p].pc = "load"
    BY <1>8, RunningIsActive DEF LoadState
  <2>2. /\ q.pc \in Command /\ q.mem = file /\ Become(p, q)
        /\ UNCHANGED <<file, faults>> /\ m = n
    BY <1>2, <1>8, <2>1 DEF LoadState, Active
  <2> HIDE DEF q
  <2>3. Standing(q, d, slot) = (IF At(file[d], slot) # 0 THEN "bound" ELSE "unbound")
    BY <2>2 DEF Standing, Command
  <2>4. Standing(proc[p], d, slot) = "load"
    BY <2>1 DEF Standing
  <2> QED
    BY <1>1, <2>2, <2>3, <2>4, BudgetMoves DEF Goal, n, m
<1>9. ASSUME NEW p \in Procs, Persist(p)
      PROVE  Goal
  <2> DEFINE q == [proc[p] EXCEPT !.pc = "publish"]
  <2>1. proc[p] \in Active /\ proc[p].pc = "persist" /\ m = n
    BY <1>2, <1>9, RunningIsActive DEF Persist
  <2>2. q.pc = "publish" /\ q.mem = proc[p].mem /\ Idle.pc = "idle"
    BY <2>1, IdleType DEF Active
  <2>3. \/ file' = proc[p].mem /\ UNCHANGED faults /\ (Become(p, q) \/ Become(p, Idle))
        \/ UNCHANGED file /\ faults' = faults + 1 /\ Stop(p)
    BY <1>9 DEF Persist, Fault, Stop
  <2> HIDE DEF q
  <2>4. CASE UNCHANGED file /\ faults' = faults + 1 /\ Stop(p)
    BY <1>4, <2>1, <2>4
  <2>5. CASE file' = proc[p].mem /\ UNCHANGED faults /\ (Become(p, q) \/ Become(p, Idle))
    <3>1. ASSUME NEW r, r = q \/ r = Idle
          PROVE  Writes(Standings(d, slot), p, Standing(r, d, slot), At(file'[d], slot))
      BY <2>1, <2>2, <2>5, <3>1 DEF Writes, Standings, Standing
    <3> QED
      BY <1>1, <2>1, <2>5, <3>1, BudgetMoves DEF Goal, n, m
  <2> QED
    BY <2>3, <2>4, <2>5
<1>10. ASSUME NEW p \in Procs, Walk(p)
       PROVE  Goal
  <2> DEFINE mem == ScanStateful(proc[p].mem, site, proc[p].modes)
             q == [proc[p] EXCEPT !.mem = mem, !.pc = "persist"]
  <2>1. proc[p] \in Active /\ proc[p].pc = "scan" /\ UNCHANGED <<file, faults>> /\ m = n
    BY <1>2, <1>10, RunningIsActive DEF Walk
  <2>2. mem[d].uri = proc[p].mem[d].uri /\ mem[d].post = proc[p].mem[d].post
    <3>1. site \in Site /\ proc[p].mem \in Project
      BY <2>1 DEF TypeOK, Active
    <3> QED
      BY <3>1, ScanKeeps
  <2>3. q.mem = mem /\ q.pc = "persist"
    BY <2>1 DEF Active
  <2>4. Become(p, q) \/ Stop(p)
    BY <1>10 DEF Walk
  <2> HIDE DEF q, mem
  <2> QED
    BY <1>3, <1>5, <2>1, <2>2, <2>3, <2>4 DEF At, Command
<1>11. ASSUME NEW p \in Procs, NEW e \in Docs, NEW error, proc[p].pc = "publish",
              Visited(p, e, error), UNCHANGED file, m = n,
              UNCHANGED faults \/ faults' = faults + 1
       PROVE  Goal
  <2> DEFINE q == [proc[p] EXCEPT !.left = @ \ {e}, !.failed = @ \/ error]
  <2>1. proc[p] \in Active
    BY <1>11, RunningIsActive
  <2>2. q.pc = "publish" /\ q.mem = proc[p].mem /\ Become(p, q)
    BY <1>11, <2>1 DEF Active, Visited
  <2> HIDE DEF q
  <2> QED
    BY <1>5, <1>11, <2>2 DEF Command
<1>12. ASSUME NEW p \in Procs, NEW e \in Docs, NEW u \in Nat \ {0}, Recorded(p, e, u),
              proc[p].pc = "publish", UNCHANGED <<file, faults>>,
              \/ m = n /\ (proc[p].mem[e].uri # 0 \/ ~(d = e /\ slot = "uri"))
              \/ m = n + 1 /\ proc[p].mem[e].uri = 0 /\ d = e /\ slot = "uri"
       PROVE  Goal
  <2> DEFINE mem == [proc[p].mem EXCEPT ![e] = Published(@, u)]
             q == [proc[p] EXCEPT !.left = @ \ {e}, !.mem[e] = Published(@, u),
                                  !.pc = "persist"]
  <2>1. proc[p] \in Active
    BY <1>12, RunningIsActive
  <2>2. q.pc = "persist" /\ q.mem = mem
    BY <2>1 DEF Active
  <2>3. Become(p, q)
    BY <1>12 DEF Recorded
  <2>4. /\ mem[d].uri = IF d = e THEN u ELSE proc[p].mem[d].uri
        /\ mem[d].post = proc[p].mem[d].post
    BY <2>1 DEF Active, Project, DocumentState, Published
  <2> HIDE DEF q, mem
  <2>5. CASE m = n /\ (proc[p].mem[e].uri # 0 \/ ~(d = e /\ slot = "uri"))
    <3>1. At(q.mem[d], slot) = 0 <=> At(proc[p].mem[d], slot) = 0
      BY <1>12, <2>2, <2>4, <2>5 DEF At
    <3> QED
      BY <1>5, <1>12, <2>2, <2>3, <2>5, <3>1 DEF Command
  <2>6. CASE m = n + 1 /\ proc[p].mem[e].uri = 0 /\ d = e /\ slot = "uri"
    <3>1. At(q.mem[d], slot) # 0 /\ At(proc[p].mem[d], slot) = 0
      BY <1>12, <2>2, <2>4, <2>6 DEF At
    <3> QED
      BY <1>6, <1>12, <2>2, <2>3, <2>6, <3>1 DEF Command
  <2> QED
    BY <1>12, <2>5, <2>6
<1>13. ASSUME NEW p \in Procs, NEW e \in Docs, CreateDocument(p, e)
       PROVE  Goal
  <2> DEFINE u == Len(remote) + 1
             q == [proc[p] EXCEPT !.left = @ \ {e}, !.failed = @ \/ TRUE]
  <2>1. /\ proc[p].pc = "publish" /\ UNCHANGED <<file, posts>> /\ proc[p].mem[e].uri = 0
        /\ remote' = Append(remote, [doc |-> e, fp |-> proc[p].mem[e].fp])
    BY <1>13 DEF CreateDocument, Due, Visiting
  <2>2. \/ Recorded(p, e, u) /\ UNCHANGED faults
        \/ Visited(p, e, TRUE) /\ faults' = faults + 1
    BY <1>13 DEF CreateDocument, Fault
  <2>3. m = IF d = e /\ slot = "uri" THEN n + 1 ELSE n
    BY <2>1, MadeRecord DEF n, m
  <2>4. u \in Nat \ {0} /\ proc[p] \in Active
    BY <2>1, RunningIsActive DEF TypeOK
  <2>5. q.pc = "publish" /\ q.mem = proc[p].mem
    BY <2>1, <2>4 DEF Active
  <2>6. Visited(p, e, TRUE) => Become(p, q)
    BY DEF Visited
  <2> HIDE DEF u, q
  <2>7. CASE Recorded(p, e, u) /\ UNCHANGED faults
    BY <1>12, <2>1, <2>3, <2>4, <2>7
  <2>8. CASE Visited(p, e, TRUE) /\ faults' = faults + 1 /\ d = e /\ slot = "uri"
    <3>1. At(proc[p].mem[d], slot) = 0
      BY <2>1, <2>8 DEF At
    <3> QED
      BY <1>6, <2>1, <2>3, <2>5, <2>6, <2>8, <3>1 DEF Command
  <2>9. CASE Visited(p, e, TRUE) /\ faults' = faults + 1 /\ ~(d = e /\ slot = "uri")
    BY <1>11, <2>1, <2>3, <2>9
  <2> QED
    BY <2>2, <2>7, <2>8, <2>9
<1>14. ASSUME NEW p \in Procs, NEW e \in Docs, UpdateDocument(p, e)
       PROVE  Goal
  <2> DEFINE u == proc[p].mem[e].uri
  <2>1. /\ proc[p].pc = "publish" /\ UNCHANGED <<file, posts>> /\ u # 0
        /\ remote' = [remote EXCEPT ![u].fp = proc[p].mem[e].fp]
    BY <1>14 DEF UpdateDocument, Due, Visiting
  <2>2. \/ Recorded(p, e, u) /\ UNCHANGED faults
        \/ Visited(p, e, TRUE) /\ faults' = faults + 1
    BY <1>14 DEF UpdateDocument, Fault
  <2>3. u \in 1..Len(remote) /\ u \in Nat \ {0}
    BY <2>1 DEF OwnRecords, OwnUris
  <2>4. m = n
    BY <2>1, <2>3, MadeUpdated DEF n, m
  <2> QED
    BY <1>11, <1>12, <2>1, <2>2, <2>3, <2>4
<1>15. ASSUME NEW p \in Procs, NEW e \in Docs, CreatePost(p, e)
       PROVE  Goal
  <2> DEFINE u == Len(posts) + 1
             mem == [proc[p].mem EXCEPT ![e] = Posted(@, u)]
             q == [proc[p] EXCEPT !.mem[e] = Posted(@, u), !.pc = "persist"]
  <2>1. /\ proc[p].pc = "post" /\ UNCHANGED <<file, remote>> /\ proc[p].mem[e].post = 0
        /\ posts' = Append(posts, e)
    BY <1>15 DEF CreatePost, Postable
  <2>2. (Become(p, q) /\ UNCHANGED faults) \/ (Stop(p) /\ faults' = faults + 1)
    BY <1>15 DEF CreatePost, Fault
  <2>3. m = IF d = e /\ slot = "post" THEN n + 1 ELSE n
    BY <2>1, MadePost DEF n, m
  <2>4. u \in Nat \ {0} /\ proc[p] \in Active
    BY <2>1, RunningIsActive DEF TypeOK
  <2>5. q.pc = "persist" /\ q.mem = mem
    BY <2>4 DEF Active
  <2> HIDE DEF u
  <2>6. /\ mem[d].post = IF d = e THEN u ELSE proc[p].mem[d].post
        /\ mem[d].uri = proc[p].mem[d].uri
    BY <2>4 DEF Active, Project, DocumentState, Posted
  <2> HIDE DEF q, mem
  <2>7. CASE d = e /\ slot = "post"
    <3>1. At(proc[p].mem[d], slot) = 0 /\ At(q.mem[d], slot) # 0
      BY <2>1, <2>4, <2>5, <2>6, <2>7 DEF At
    <3> QED
      BY <1>6, <2>1, <2>2, <2>3, <2>5, <2>7, <3>1, IdleType DEF Command, Stop
  <2>8. CASE ~(d = e /\ slot = "post")
    <3>1. At(q.mem[d], slot) = At(proc[p].mem[d], slot)
      BY <2>5, <2>6, <2>8 DEF At, Slot
    <3>2. CASE Become(p, q) /\ UNCHANGED faults
      BY <1>5, <2>1, <2>3, <2>5, <2>8, <3>1, <3>2 DEF Command
    <3>3. CASE Stop(p) /\ faults' = faults + 1
      BY <1>4, <2>1, <2>3, <2>8, <3>3
    <3> QED
      BY <2>2, <3>2, <3>3
  <2> QED
    BY <2>7, <2>8
<1>16. ASSUME NEW p \in Procs, NEW e \in Docs,
              \/ SkipDocument(p, e) \/ RejectDocument(p, e) \/ RequestFails(p, e)
              \/ RefusePost(p, e) \/ AbandonPost(p, e)
       PROVE  Goal
  <2>1. /\ UNCHANGED <<file, remote, posts, faults>>
        /\ \/ proc[p].pc = "publish" /\ \E error : Visited(p, e, error)
           \/ proc[p].pc = "post" /\ Stop(p)
    BY <1>16 DEF SkipDocument, RejectDocument, RequestFails, RefusePost, AbandonPost,
                 Due, Visiting
  <2> QED
    BY <1>2, <1>3, <1>11, <2>1 DEF Command
<1>17. ASSUME NEW p \in Procs, Crash(p) \/ FinishPublish(p)
       PROVE  Goal
  BY <1>2, <1>3, <1>4, <1>17 DEF Crash, FinishPublish, Fault, Command
<1>18. ASSUME NEW p \in Procs,
              BeginScan(p) \/ BeginPublish(p) \/ \E e \in Docs : BeginPost(p, e)
       PROVE  Goal
  BY <1>7, <1>18 DEF BeginScan, BeginPublish, BeginPost
<1>19. ASSUME EditSite \/ EditConfig \/ UNCHANGED vars
       PROVE  Goal
  <2>1. UNCHANGED <<proc, file, remote, posts, faults>>
    BY <1>19 DEF EditSite, EditConfig, vars
  <2>2. Standings(d, slot)' = Standings(d, slot)
    BY <2>1 DEF Standings, Standing
  <2> QED
    BY <1>1, <1>2, <2>1, <2>2 DEF Goal
<1>20. ASSUME NEW p \in Procs, Step(p)
       PROVE  Goal
  BY <1>8, <1>9, <1>10, <1>13, <1>14, <1>15, <1>16, <1>17, <1>20 DEF Step
<1>21. Goal
  BY <1>17, <1>18, <1>19, <1>20 DEF Next
<1> QED
  BY <1>21 DEF Goal, m

\* Whatever overlaps and whatever fails, a document has at most one record and one
\* post more than faults struck, a command started while another ran being one
\* (internal/cli/scan.go:43-66, internal/publish/publish.go:78-113).
THEOREM DuplicatesAlwaysFaults == Spec => []DuplicatesAreFaults
<1>1. TypeOK /\ Budget => DuplicatesAreFaults
  <2> SUFFICES ASSUME TypeOK, Budget, NEW d \in Docs, NEW slot \in Slot
               PROVE  Cardinality(Made(d, slot)) <= 1 + faults
    BY DEF DuplicatesAreFaults, Made, Slot
  <2>1. /\ Cardinality(Made(d, slot)) \in Nat /\ faults \in Nat
        /\ Cardinality(Dangers(Standings(d, slot))) \in Nat
    BY MadeType, DangersCount DEF TypeOK
  <2>2. Within(Cardinality(Made(d, slot)), Standings(d, slot), At(file[d], slot), faults)
    BY DEF Budget
  <2> QED
    BY <2>1, <2>2 DEF Within
<1>2. TypeOK /\ TypeOK' /\ OwnRecords /\ Budget /\ [Next]_vars => Budget'
  BY BudgetStep
<1> QED
  BY <1>1, <1>2, TypeInit, TypeStep, OwnInit, OwnStep, BudgetInit, PTL DEF Spec
====
