------------------------- MODULE SiteIntegrationProofs -------------------------
(* Theorems about SiteIntegration, for every value of its constants.        *)
EXTENDS SiteIntegration, TLAPS, FiniteSetTheorems, SequenceTheorems

-----------------------------------------------------------------------------
(* Types.                                                                  *)

LEMMA ConfigFacts ==
  /\ NoConfig \in Config /\ NewConfig \in Config
  /\ ~Enabled(NoConfig) /\ ~Enabled(NewConfig)
BY DEF NoConfig, NewConfig, Config, Enabled

LEMMA IdleFacts ==
  /\ Idle \in Process
  /\ Idle.pc = "idle" /\ Idle.cfg = NoConfig
  /\ Idle.recorded = None /\ Idle.expected = None
BY DEF Idle, Process

LEMMA RunningIsActive ==
  ASSUME TypeOK, NEW p \in Procs, ~At(p, "idle")
  PROVE  proc[p] \in Active
BY IdleFacts DEF TypeOK, Process, At

LEMMA BecomeType ==
  ASSUME proc \in [Procs -> Process], NEW p \in Procs, NEW q \in Process,
         Become(p, q)
  PROVE  proc' \in [Procs -> Process]
BY DEF Become

LEMMA StopType ==
  ASSUME TypeOK, NEW p \in Procs, Stop(p)
  PROVE  proc' \in [Procs -> Process]
BY IdleFacts, BecomeType DEF TypeOK, Stop

LEMMA FaultType ==
  ASSUME TypeOK, NEW k, Fault(k) \/ UNCHANGED faults
  PROVE  faults' \in Nat
BY DEF TypeOK, Fault

LEMMA ChangeType ==
  ASSUME TypeOK, NEW k, Change(k) \/ UNCHANGED changes
  PROVE  changes' \in Nat
BY DEF TypeOK, Change

\* A command starts with a copy of nothing.
LEMMA BeginType ==
  ASSUME NEW d \in Dids
  PROVE  /\ [Idle EXCEPT !.cmd = "init", !.did = d, !.pc = "saveConfig", !.cfg = NewConfig]
              \in Process
         /\ \A c \in Command, n \in SUBSET Integration :
              [Idle EXCEPT !.cmd = c, !.names = n, !.did = d, !.pc = "loadConfig"] \in Process
<1>1. None \in Nat /\ {} \in SUBSET Integration
  BY DEF None
<1>2. "init" \in Command /\ "saveConfig" \in Step /\ "loadConfig" \in Step
  BY DEF Command, Step
<1>3. [Idle EXCEPT !.cmd = "init", !.did = d, !.pc = "saveConfig", !.cfg = NewConfig] \in Active
  BY <1>1, <1>2, ConfigFacts DEF Active, Idle
<1>4. ASSUME NEW c \in Command, NEW n \in SUBSET Integration
      PROVE  [Idle EXCEPT !.cmd = c, !.names = n, !.did = d, !.pc = "loadConfig"] \in Active
  BY <1>1, <1>2, ConfigFacts DEF Active, Idle
<1> QED
  BY <1>3, <1>4 DEF Process

LEMMA RemovedType ==
  ASSUME NEW c \in Config, NEW n
  PROVE  Removed(c, n) \in Config
<1>1. c.site \in Site \cup {NoSite} /\ c.bluesky \in BOOLEAN
  BY DEF Config
<1> QED
  BY <1>1 DEF Removed, Config

\* The publication that a command creates.
LEMMA CreatedType ==
  ASSUME TypeOK, NEW d \in Dids, created' = Append(created, d)
  PROVE  /\ created' \in Seq(Dids)
         /\ Fresh \in Nat /\ Fresh \notin Publications
         /\ Publications' = Publications \cup {Fresh}
         /\ created'[Fresh] = d
         /\ \A u \in Publications : created'[u] = created[u]
BY AppendProperties DEF TypeOK, Publications, Fresh

\* Every action gives every variable a value of its type.
LEMMA TypeStep ==
  ASSUME TypeOK, [Next]_vars
  PROVE  TypeOK'
<1> USE SiteAssumption
<1>1. ASSUME NEW p \in Procs, NEW d \in Dids, BeginInit(p, d)
      PROVE  TypeOK'
  BY <1>1, BeginType, BecomeType, ChangeType DEF BeginInit, Begin, TypeOK
<1>2. ASSUME NEW p \in Procs, NEW c \in Command, NEW n \in SUBSET Integration,
             NEW d \in Dids, BeginCommand(p, c, n, d)
      PROVE  TypeOK'
  BY <1>2, BeginType, BecomeType, ChangeType DEF BeginCommand, Begin, TypeOK
<1>3. ASSUME NEW p \in Procs, LoadConfig(p)
      PROVE  TypeOK'
  <2>1. CASE Stop(p)
    BY <1>3, <2>1, StopType, FaultType DEF LoadConfig, TypeOK
  <2>2. CASE ~Stop(p)
    <3> DEFINE k == IF proc[p].cmd = "remove" THEN Removed(cfg, proc[p].names) ELSE cfg
               pc == IF proc[p].cmd \in {"remove", "configure"} THEN "saveConfig" ELSE "loadState"
    <3>1. k \in Config /\ pc \in Step
      BY RemovedType DEF TypeOK, Step
    <3>2. Become(p, [proc[p] EXCEPT !.cfg = k, !.pc = pc]) /\ UNCHANGED faults
      BY <1>3, <2>2 DEF LoadConfig
    <3> HIDE DEF k, pc
    <3>3. [proc[p] EXCEPT !.cfg = k, !.pc = pc] \in Process
      BY <1>3, <3>1, RunningIsActive DEF LoadConfig, At, Process, Active
    <3> QED
      BY <1>3, <3>2, <3>3, BecomeType DEF LoadConfig, TypeOK
  <2> QED
    BY <2>1, <2>2
<1>4. ASSUME NEW p \in Procs, LoadState(p)
      PROVE  TypeOK'
  <2>1. CASE Stop(p)
    BY <1>4, <2>1, StopType, FaultType DEF LoadState, TypeOK
  <2>2. CASE ~Stop(p)
    <3> DEFINE pc == IF proc[p].cmd = "add" THEN "provision"
                     ELSE IF proc[p].cmd = "scan" THEN "saveState" ELSE "inspect"
    <3>1. pc \in Step
      BY DEF Step
    <3>2. Become(p, [proc[p] EXCEPT !.recorded = recorded, !.pc = pc]) /\ UNCHANGED faults
      BY <1>4, <2>2 DEF LoadState
    <3> HIDE DEF pc
    <3>3. [proc[p] EXCEPT !.recorded = recorded, !.pc = pc] \in Process
      BY <1>4, <3>1, RunningIsActive DEF LoadState, At, TypeOK, Process, Active
    <3> QED
      BY <1>4, <3>2, <3>3, BecomeType DEF LoadState, TypeOK
  <2> QED
    BY <2>1, <2>2
<1>5. ASSUME NEW p \in Procs, EnableBluesky(p)
      PROVE  TypeOK'
  <2> DEFINE k == [proc[p].cfg EXCEPT !.bluesky = TRUE]
  <2>1. proc[p] \in Active
    BY <1>5, RunningIsActive DEF EnableBluesky, Adds, At
  <2>2. k \in Config
    BY <2>1 DEF Active, Config
  <2>3. Become(p, [proc[p] EXCEPT !.cfg = k, !.pc = "saveConfig"])
    BY <1>5, <2>1 DEF EnableBluesky, Active
  <2> HIDE DEF k
  <2>4. [proc[p] EXCEPT !.cfg = k, !.pc = "saveConfig"] \in Process
    BY <2>1, <2>2 DEF Active, Process, Step
  <2> QED
    BY <1>5, <2>3, <2>4, BecomeType DEF EnableBluesky, TypeOK
<1>6. ASSUME NEW p \in Procs, KeepPublication(p)
      PROVE  TypeOK'
  <2>1. CASE Conflicts(proc[p])
    BY <1>6, <2>1, StopType DEF KeepPublication, TypeOK
  <2>2. CASE ~Conflicts(proc[p])
    <3> DEFINE u == proc[p].cfg.site.uri
    <3>1. proc[p] \in Active
      BY <1>6, RunningIsActive DEF KeepPublication, Adds, At
    <3>2. u \in Nat
      BY <1>6, <3>1 DEF KeepPublication, Enabled, Active, Config, Site
    <3>3. Become(p, [proc[p] EXCEPT !.recorded = u, !.pc = "saveConfig"])
      BY <1>6, <2>2 DEF KeepPublication
    <3> HIDE DEF u
    <3>4. [proc[p] EXCEPT !.recorded = u, !.pc = "saveConfig"] \in Process
      BY <3>1, <3>2 DEF Active, Process, Step
    <3> QED
      BY <1>6, <3>3, <3>4, BecomeType DEF KeepPublication, TypeOK
  <2> QED
    BY <2>1, <2>2
<1>7. ASSUME NEW p \in Procs, NEW dir \in Dirs, CreatePublication(p, dir)
      PROVE  TypeOK'
  <2>1. proc[p] \in Active
    BY <1>7, RunningIsActive DEF CreatePublication, Adds, At
  <2>2. created' \in Seq(Dids) /\ Fresh \in Nat
    BY <1>7, <2>1, CreatedType DEF CreatePublication, Active
  <2>3. CASE Stop(p)
    BY <1>7, <2>2, <2>3, StopType, FaultType DEF CreatePublication, TypeOK
  <2>4. CASE ~Stop(p)
    <3> DEFINE site == [did |-> proc[p].did, uri |-> Fresh, dir |-> dir]
               k == [proc[p].cfg EXCEPT !.site = site]
               q == [proc[p] EXCEPT !.cfg = k, !.recorded = Fresh, !.expected = Fresh,
                                    !.pc = "check"]
    <3>1. site \in Site
      BY <2>1, <2>2 DEF Active, Site
    <3>2. Become(p, [proc[p] EXCEPT !.cfg.site = site, !.recorded = Fresh,
                                    !.expected = Fresh, !.pc = "check"])
          /\ UNCHANGED faults
      BY <1>7, <2>4 DEF CreatePublication
    <3> HIDE DEF site
    <3>3. k \in Config
      BY <2>1, <3>1 DEF Active, Config
    <3>4. Become(p, q)
      BY <2>1, <3>2 DEF Active
    <3> HIDE DEF k
    <3>5. q \in Process
      BY <2>1, <2>2, <3>3 DEF Active, Process, Step
    <3> HIDE DEF q
    <3> QED
      BY <1>7, <2>2, <3>2, <3>4, <3>5, BecomeType DEF CreatePublication, TypeOK
  <2> QED
    BY <2>3, <2>4
<1>8. ASSUME NEW p \in Procs, CheckWellKnown(p)
      PROVE  TypeOK'
  <2>1. CASE Stop(p)
    BY <1>8, <2>1, StopType, FaultType DEF CheckWellKnown, TypeOK
  <2>2. CASE ~Stop(p)
    <3>1. PICK pc \in {"publish", "saveConfig"} :
            Become(p, [proc[p] EXCEPT !.pc = pc]) /\ UNCHANGED faults
      BY <1>8, <2>2 DEF CheckWellKnown
    <3>2. [proc[p] EXCEPT !.pc = pc] \in Process
      BY <1>8, RunningIsActive DEF CheckWellKnown, At, Process, Active, Step
    <3> QED
      BY <1>8, <3>1, <3>2, BecomeType DEF CheckWellKnown, TypeOK
  <2> QED
    BY <2>1, <2>2
<1>9. ASSUME NEW p \in Procs, WriteWellKnown(p)
      PROVE  TypeOK'
  <2>1. CASE Stop(p) /\ UNCHANGED wellKnown
    BY <1>9, <2>1, StopType, FaultType DEF WriteWellKnown, TypeOK
  <2>2. CASE ~(Stop(p) /\ UNCHANGED wellKnown)
    <3>1. proc[p] \in Active
      BY <1>9, RunningIsActive DEF WriteWellKnown, At
    <3>2. wellKnown' \in [Dirs -> Nat]
      BY <1>9, <2>2, <3>1 DEF WriteWellKnown, TypeOK, Active
    <3>3. [proc[p] EXCEPT !.pc = "saveConfig"] \in Process
      BY <3>1 DEF Process, Active, Step
    <3> QED
      BY <1>9, <2>2, <3>2, <3>3, BecomeType DEF WriteWellKnown, TypeOK
  <2> QED
    BY <2>1, <2>2
<1>10. ASSUME NEW p \in Procs, SaveConfig(p)
       PROVE  TypeOK'
  <2>1. proc[p] \in Active
    BY <1>10, RunningIsActive DEF SaveConfig, At
  <2>2. cfg' \in Config
    BY <1>10, <2>1 DEF SaveConfig, Active, TypeOK
  <2>3. CASE Stop(p)
    BY <1>10, <2>2, <2>3, StopType, FaultType DEF SaveConfig, TypeOK
  <2>4. CASE ~Stop(p)
    <3>1. PICK pc \in {"saveState", "findState"} :
            Become(p, [proc[p] EXCEPT !.pc = pc]) /\ UNCHANGED faults
      BY <1>10, <2>4 DEF SaveConfig
    <3>2. [proc[p] EXCEPT !.pc = pc] \in Process
      BY <2>1 DEF Process, Active, Step
    <3> QED
      BY <1>10, <2>2, <3>1, <3>2, BecomeType DEF SaveConfig, TypeOK
  <2> QED
    BY <2>3, <2>4
<1>11. ASSUME NEW p \in Procs, FindState(p)
       PROVE  TypeOK'
  <2>1. [proc[p] EXCEPT !.pc = "saveState"] \in Process
    BY <1>11, RunningIsActive DEF FindState, At, Process, Active, Step
  <2> QED
    BY <1>11, <2>1, BecomeType, StopType, FaultType DEF FindState, TypeOK
<1>12. ASSUME NEW p \in Procs, SaveState(p)
       PROVE  TypeOK'
  <2>1. recorded' \in Nat /\ hasState' \in BOOLEAN
    BY <1>12, RunningIsActive DEF SaveState, At, Active, TypeOK
  <2> QED
    BY <1>12, <2>1, StopType, FaultType DEF SaveState, TypeOK
<1>13. ASSUME NEW p \in Procs, Inspect(p)
       PROVE  TypeOK'
  <2>1. CASE Stop(p)
    BY <1>13, <2>1, StopType, FaultType DEF Inspect, TypeOK
  <2>2. CASE ~Stop(p)
    <3>1. [proc[p] EXCEPT !.expected = proc[p].recorded, !.pc = "write"] \in Process
      BY <1>13, RunningIsActive DEF Inspect, At, Process, Active, Step
    <3> QED
      BY <1>13, <2>2, <3>1, BecomeType DEF Inspect, TypeOK
  <2> QED
    BY <2>1, <2>2
<1>14. ASSUME NEW p \in Procs, Materialize(p)
       PROVE  TypeOK'
  <2>1. wellKnown' \in [Dirs -> Nat]
    BY <1>14, RunningIsActive DEF Materialize, At, Active, TypeOK
  <2> QED
    BY <1>14, <2>1, StopType, FaultType DEF Materialize, TypeOK
<1>15. ASSUME NEW p \in Procs, Abandon(p) \/ Crash(p)
       PROVE  TypeOK'
  BY <1>15, StopType, FaultType DEF Abandon, Crash, TypeOK
<1>16. CASE MoveSite
  <2>1. PICK dir \in Dirs : cfg' = [cfg EXCEPT !.site = [cfg.site EXCEPT !.dir = dir]]
    BY <1>16 DEF MoveSite
  <2>2. cfg.site \in Site
    BY <1>16 DEF MoveSite, Enabled, TypeOK, Config
  <2>3. [cfg.site EXCEPT !.dir = dir] \in Site
    BY <2>2 DEF Site
  <2>4. cfg' \in Config
    BY <2>1, <2>3 DEF TypeOK, Config
  <2> QED
    BY <1>16, <2>4, ChangeType DEF MoveSite, TypeOK
<1>17. CASE CleanBuild
  BY <1>17, ChangeType DEF CleanBuild, TypeOK, None
<1>18. CASE UNCHANGED vars
  BY <1>18 DEF vars, TypeOK
<1>19. ASSUME NEW p \in Procs, NEW d \in Dids, Start(p, d)
       PROVE  TypeOK'
  BY <1>1, <1>2, <1>19 DEF Start, BeginAdd, BeginRemove, BeginOther, Command, Integration
<1> QED
  BY <1>3, <1>4, <1>5, <1>6, <1>7, <1>8, <1>9, <1>10, <1>11, <1>12, <1>13, <1>14, <1>15,
     <1>16, <1>17, <1>18, <1>19 DEF Next, Advance

\* Every state of every behaviour is of the types that the program's data have
\* (internal/config/config.go:8-31, internal/state/state.go:14-83).
THEOREM TypeCorrect == Spec => []TypeOK
<1>1. Init => TypeOK
  <2> SUFFICES ASSUME Init PROVE TypeOK
    OBVIOUS
  <2>1. proc \in [Procs -> Process]
    BY IdleFacts DEF Init
  <2>2. wellKnown \in [Dirs -> Nat] /\ recorded \in Nat
    BY DEF Init, None
  <2>3. created \in Seq(Dids)
    BY EmptySeq DEF Init
  <2> QED
    BY <2>1, <2>2, <2>3, ConfigFacts DEF Init, TypeOK
<1>2. TypeOK /\ [Next]_vars => TypeOK'
  BY TypeStep
<1> QED
  BY <1>1, <1>2, PTL DEF Spec

-----------------------------------------------------------------------------
(* Publications and identities.                                            *)

\* What OwnPublication says of a configuration, for any list of publications.
Names(k, list) ==
  Enabled(k) => k.site.uri \in 1..Len(list) /\ list[k.site.uri] = k.site.did

Exists(u, list) == u \in 1..Len(list) \cup {None}

OwnCopy(q, list) ==
  Names(q.cfg, list) /\ Exists(q.recorded, list) /\ Exists(q.expected, list)

LEMMA OwnParts ==
  /\ PublicationsAreOwn <=>
       /\ Names(cfg, created) /\ Exists(recorded, created)
       /\ \A dir \in Dirs : Exists(wellKnown[dir], created)
       /\ \A p \in Procs : OwnCopy(proc[p], created)
  /\ PublicationsAreOwn' <=>
       /\ Names(cfg', created') /\ Exists(recorded', created')
       /\ \A dir \in Dirs : Exists(wellKnown'[dir], created')
       /\ \A p \in Procs : OwnCopy(proc'[p], created')
BY DEF PublicationsAreOwn, OwnPublication, Names, Exists, OwnCopy, Publications, Enabled

LEMMA IdleOwns ==
  ASSUME NEW list
  PROVE  OwnCopy(Idle, list) /\ Names(NoConfig, list) /\ Names(NewConfig, list)
BY IdleFacts, ConfigFacts DEF OwnCopy, Names, Exists

\* A list that grows keeps the publications it has.
LEMMA GrownNames ==
  ASSUME NEW list \in Seq(Dids), NEW d \in Dids
  PROVE  /\ \A k : Names(k, list) => Names(k, Append(list, d))
         /\ \A u : Exists(u, list) => Exists(u, Append(list, d))
         /\ \A q : OwnCopy(q, list) => OwnCopy(q, Append(list, d))
<1>1. /\ Len(list) \in Nat /\ Len(Append(list, d)) = Len(list) + 1
      /\ \A u \in 1..Len(list) : Append(list, d)[u] = list[u]
  BY AppendProperties, LenProperties
<1>2. \A u \in 1..Len(list) : u \in 1..Len(Append(list, d))
  BY <1>1
<1>3. \A k : Names(k, list) => Names(k, Append(list, d))
  BY <1>1, <1>2 DEF Names
<1>4. \A u : Exists(u, list) => Exists(u, Append(list, d))
  BY <1>2 DEF Exists
<1> QED
  BY <1>3, <1>4 DEF OwnCopy

\* A step of one process that creates nothing.
LEMMA OwnStep ==
  ASSUME TypeOK, PublicationsAreOwn, NEW p \in Procs, NEW q, Become(p, q),
         OwnCopy(q, created), UNCHANGED created,
         Names(cfg', created), Exists(recorded', created),
         \A dir \in Dirs : Exists(wellKnown'[dir], created)
  PROVE  PublicationsAreOwn'
<1>1. \A r \in Procs : OwnCopy(proc'[r], created)
  <2> SUFFICES ASSUME NEW r \in Procs PROVE OwnCopy(proc'[r], created)
    OBVIOUS
  <2>1. CASE r = p
    BY <2>1 DEF Become, TypeOK
  <2>2. CASE r # p
    BY <2>2, OwnParts DEF Become, TypeOK
  <2> QED
    BY <2>1, <2>2
<1> QED
  BY <1>1, OwnParts

LEMMA OwnStop ==
  ASSUME TypeOK, PublicationsAreOwn, NEW p \in Procs, Stop(p),
         UNCHANGED <<cfg, recorded, wellKnown, created>>
  PROVE  PublicationsAreOwn'
BY OwnStep, OwnParts, IdleOwns DEF Stop

LEMMA RemovedOwns ==
  ASSUME NEW k \in Config, NEW n, NEW list, Names(k, list)
  PROVE  Names(Removed(k, n), list)
<1>1. Removed(k, n).site \in {k.site, NoSite}
  BY DEF Removed, Config
<1> QED
  BY <1>1 DEF Names, Enabled

LEMMA OwnInductive ==
  ASSUME TypeOK, PublicationsAreOwn, [Next]_vars
  PROVE  PublicationsAreOwn'
<1> DEFINE Same == UNCHANGED <<cfg, recorded, wellKnown, created>>
<1>0. /\ Names(cfg, created) /\ Exists(recorded, created)
      /\ \A dir \in Dirs : Exists(wellKnown[dir], created)
      /\ \A p \in Procs : OwnCopy(proc[p], created)
  BY OwnParts
<1>1. ASSUME NEW p \in Procs, NEW d \in Dids, BeginInit(p, d)
      PROVE  PublicationsAreOwn'
  <2> DEFINE q == [Idle EXCEPT !.cmd = "init", !.did = d, !.pc = "saveConfig", !.cfg = NewConfig]
  <2>1. OwnCopy(q, created)
    BY IdleOwns, IdleFacts DEF OwnCopy, Exists, Idle
  <2>2. Become(p, q) /\ Same
    BY <1>1 DEF BeginInit, Begin
  <2> HIDE DEF q
  <2> QED
    BY <1>0, <2>1, <2>2, OwnStep
<1>2. ASSUME NEW p \in Procs, NEW c, NEW n, NEW d, BeginCommand(p, c, n, d)
      PROVE  PublicationsAreOwn'
  <2> DEFINE q == [Idle EXCEPT !.cmd = c, !.names = n, !.did = d, !.pc = "loadConfig"]
  <2>1. OwnCopy(q, created)
    BY IdleOwns, IdleFacts DEF OwnCopy, Exists, Idle
  <2>2. Become(p, q) /\ Same
    BY <1>2 DEF BeginCommand, Begin
  <2> HIDE DEF q
  <2> QED
    BY <1>0, <2>1, <2>2, OwnStep
<1>3. ASSUME NEW p \in Procs, NEW d \in Dids, Start(p, d)
      PROVE  PublicationsAreOwn'
  BY <1>1, <1>2, <1>3 DEF Start, BeginAdd, BeginRemove, BeginOther
<1>4. ASSUME NEW p \in Procs, LoadConfig(p)
      PROVE  PublicationsAreOwn'
  <2>1. Same
    BY <1>4 DEF LoadConfig
  <2>2. CASE Stop(p)
    BY <2>1, <2>2, OwnStop
  <2>3. CASE ~Stop(p)
    <3> DEFINE k == IF proc[p].cmd = "remove" THEN Removed(cfg, proc[p].names) ELSE cfg
               pc == IF proc[p].cmd \in {"remove", "configure"} THEN "saveConfig" ELSE "loadState"
               q == [proc[p] EXCEPT !.cfg = k, !.pc = pc]
    <3>1. Names(k, created)
      BY <1>0, RemovedOwns DEF TypeOK
    <3>2. Become(p, q)
      BY <1>4, <2>3 DEF LoadConfig
    <3> HIDE DEF k, pc
    <3>3. OwnCopy(q, created)
      BY <1>0, <1>4, <3>1, RunningIsActive DEF LoadConfig, At, Active, OwnCopy
    <3> HIDE DEF q
    <3> QED
      BY <1>0, <2>1, <3>2, <3>3, OwnStep
  <2> QED
    BY <2>2, <2>3
<1>5. ASSUME NEW p \in Procs, LoadState(p)
      PROVE  PublicationsAreOwn'
  <2>1. Same
    BY <1>5 DEF LoadState
  <2>2. CASE Stop(p)
    BY <2>1, <2>2, OwnStop
  <2>3. CASE ~Stop(p)
    <3> DEFINE pc == IF proc[p].cmd = "add" THEN "provision"
                     ELSE IF proc[p].cmd = "scan" THEN "saveState" ELSE "inspect"
               q == [proc[p] EXCEPT !.recorded = recorded, !.pc = pc]
    <3>1. Become(p, q)
      BY <1>5, <2>3 DEF LoadState
    <3> HIDE DEF pc
    <3>2. OwnCopy(q, created)
      BY <1>0, <1>5, RunningIsActive DEF LoadState, At, Active, OwnCopy
    <3> HIDE DEF q
    <3> QED
      BY <1>0, <2>1, <3>1, <3>2, OwnStep
  <2> QED
    BY <2>2, <2>3
<1>6. ASSUME NEW p \in Procs, EnableBluesky(p)
      PROVE  PublicationsAreOwn'
  <2> DEFINE q == [proc[p] EXCEPT !.cfg.bluesky = TRUE, !.pc = "saveConfig"]
  <2>1. proc[p] \in Active
    BY <1>6, RunningIsActive DEF EnableBluesky, Adds, At
  <2>2. q.cfg.site = proc[p].cfg.site /\ q.recorded = proc[p].recorded
        /\ q.expected = proc[p].expected
    BY <2>1 DEF Active, Config
  <2>3. OwnCopy(q, created)
    BY <1>0, <2>2 DEF OwnCopy, Names, Enabled
  <2>4. Become(p, q) /\ Same
    BY <1>6 DEF EnableBluesky
  <2> HIDE DEF q
  <2> QED
    BY <1>0, <2>3, <2>4, OwnStep
<1>7. ASSUME NEW p \in Procs, KeepPublication(p)
      PROVE  PublicationsAreOwn'
  <2>1. Same
    BY <1>7 DEF KeepPublication
  <2>2. CASE Stop(p)
    BY <2>1, <2>2, OwnStop
  <2>3. CASE ~Stop(p)
    <3> DEFINE u == proc[p].cfg.site.uri
               q == [proc[p] EXCEPT !.recorded = u, !.pc = "saveConfig"]
    <3>1. proc[p] \in Active
      BY <1>7, RunningIsActive DEF KeepPublication, Adds, At
    <3>2. Exists(u, created)
      BY <1>0, <1>7 DEF KeepPublication, OwnCopy, Names, Exists
    <3>3. Become(p, q)
      BY <1>7, <2>3 DEF KeepPublication
    <3> HIDE DEF u
    <3>4. OwnCopy(q, created)
      BY <1>0, <3>1, <3>2 DEF Active, OwnCopy
    <3> HIDE DEF q
    <3> QED
      BY <1>0, <2>1, <3>3, <3>4, OwnStep
  <2> QED
    BY <2>2, <2>3
<1>8. ASSUME NEW p \in Procs, NEW dir \in Dirs, CreatePublication(p, dir)
      PROVE  PublicationsAreOwn'
  <2> DEFINE site == [did |-> proc[p].did, uri |-> Fresh, dir |-> dir]
             q == [proc[p] EXCEPT !.cfg.site = site, !.recorded = Fresh, !.expected = Fresh,
                                  !.pc = "check"]
  <2>1. proc[p] \in Active
    BY <1>8, RunningIsActive DEF CreatePublication, Adds, At
  <2>2. created \in Seq(Dids) /\ proc[p].did \in Dids /\ created' = Append(created, proc[p].did)
    BY <1>8, <2>1 DEF CreatePublication, TypeOK, Active
  <2>3. Fresh \in 1..Len(created') /\ created'[Fresh] = proc[p].did
    BY <2>2, AppendProperties, LenProperties DEF Fresh
  <2>4. /\ Names(cfg, created') /\ Exists(recorded, created')
        /\ \A e \in Dirs : Exists(wellKnown[e], created')
        /\ \A r \in Procs : OwnCopy(proc[r], created')
    BY <1>0, <2>2, GrownNames
  <2>5. UNCHANGED <<cfg, recorded, wellKnown>> /\ (Become(p, q) \/ Stop(p))
    BY <1>8 DEF CreatePublication
  <2>6. OwnCopy(q, created')
    <3>1. q.cfg.site = site /\ q.recorded = Fresh /\ q.expected = Fresh
      BY <2>1 DEF Active, Config
    <3>2. site.did = proc[p].did /\ site.uri = Fresh
      OBVIOUS
    <3> HIDE DEF site, q
    <3> QED
      BY <2>3, <3>1, <3>2 DEF OwnCopy, Names, Exists
  <2> HIDE DEF q
  <2>7. \A r \in Procs : OwnCopy(proc'[r], created')
    <3> SUFFICES ASSUME NEW r \in Procs PROVE OwnCopy(proc'[r], created')
      OBVIOUS
    <3>1. CASE r # p
      BY <2>4, <2>5, <3>1 DEF Become, Stop, TypeOK
    <3>2. CASE r = p
      BY <2>5, <2>6, <3>2, IdleOwns DEF Become, Stop, TypeOK
    <3> QED
      BY <3>1, <3>2
  <2> QED
    BY <2>4, <2>5, <2>7, OwnParts
<1>9. ASSUME NEW p \in Procs, CheckWellKnown(p) \/ FindState(p)
      PROVE  PublicationsAreOwn'
  <2>1. Same /\ proc[p] \in Active
    BY <1>9, RunningIsActive DEF CheckWellKnown, FindState, At
  <2>2. CASE Stop(p)
    BY <2>1, <2>2, OwnStop
  <2>3. CASE ~Stop(p)
    <3>1. PICK pc \in Step : Become(p, [proc[p] EXCEPT !.pc = pc])
      BY <1>9, <2>3 DEF CheckWellKnown, FindState, Step
    <3>2. OwnCopy([proc[p] EXCEPT !.pc = pc], created)
      BY <1>0, <2>1 DEF Active, OwnCopy
    <3> QED
      BY <1>0, <2>1, <3>1, <3>2, OwnStep
  <2> QED
    BY <2>2, <2>3
<1>10. ASSUME NEW p \in Procs, WriteWellKnown(p)
       PROVE  PublicationsAreOwn'
  <2>1. proc[p] \in Active /\ UNCHANGED <<cfg, recorded, created>>
    BY <1>10, RunningIsActive DEF WriteWellKnown, At
  <2>2. \A dir \in Dirs : Exists(wellKnown'[dir], created)
    BY <1>0, <1>10 DEF WriteWellKnown, OwnCopy, TypeOK
  <2>3. CASE Stop(p)
    BY <1>0, <2>1, <2>2, <2>3, OwnStep, IdleOwns DEF Stop
  <2>4. CASE ~Stop(p)
    <3>1. Become(p, [proc[p] EXCEPT !.pc = "saveConfig"])
      BY <1>10, <2>4 DEF WriteWellKnown
    <3>2. OwnCopy([proc[p] EXCEPT !.pc = "saveConfig"], created)
      BY <1>0, <2>1 DEF Active, OwnCopy
    <3> QED
      BY <1>0, <2>1, <2>2, <3>1, <3>2, OwnStep
  <2> QED
    BY <2>3, <2>4
<1>11. ASSUME NEW p \in Procs, SaveConfig(p)
       PROVE  PublicationsAreOwn'
  <2>1. proc[p] \in Active /\ UNCHANGED <<recorded, wellKnown, created>>
    BY <1>11, RunningIsActive DEF SaveConfig, At
  <2>2. Names(cfg', created)
    BY <1>0, <1>11 DEF SaveConfig, OwnCopy
  <2>3. CASE Stop(p)
    BY <1>0, <2>1, <2>2, <2>3, OwnStep, IdleOwns DEF Stop
  <2>4. CASE ~Stop(p)
    <3>1. PICK pc \in {"saveState", "findState"} : Become(p, [proc[p] EXCEPT !.pc = pc])
      BY <1>11, <2>4 DEF SaveConfig
    <3>2. OwnCopy([proc[p] EXCEPT !.pc = pc], created)
      BY <1>0, <2>1 DEF Active, OwnCopy
    <3> QED
      BY <1>0, <2>1, <2>2, <3>1, <3>2, OwnStep
  <2> QED
    BY <2>3, <2>4
<1>12. ASSUME NEW p \in Procs, SaveState(p)
       PROVE  PublicationsAreOwn'
  <2>1. UNCHANGED <<cfg, wellKnown, created>> /\ Become(p, Idle)
    BY <1>12 DEF SaveState, Stop
  <2>2. Exists(recorded', created)
    BY <1>0, <1>12 DEF SaveState, OwnCopy
  <2> QED
    BY <1>0, <2>1, <2>2, OwnStep, IdleOwns
<1>13. ASSUME NEW p \in Procs, Inspect(p)
       PROVE  PublicationsAreOwn'
  <2>1. Same /\ proc[p] \in Active
    BY <1>13, RunningIsActive DEF Inspect, At
  <2>2. CASE Stop(p)
    BY <2>1, <2>2, OwnStop
  <2>3. CASE ~Stop(p)
    <3> DEFINE q == [proc[p] EXCEPT !.expected = proc[p].recorded, !.pc = "write"]
    <3>1. Become(p, q)
      BY <1>13, <2>3 DEF Inspect
    <3>2. OwnCopy(q, created)
      BY <1>0, <2>1 DEF Active, OwnCopy
    <3> HIDE DEF q
    <3> QED
      BY <1>0, <2>1, <3>1, <3>2, OwnStep
  <2> QED
    BY <2>2, <2>3
<1>14. ASSUME NEW p \in Procs, Materialize(p)
       PROVE  PublicationsAreOwn'
  <2>1. UNCHANGED <<cfg, recorded, created>> /\ Become(p, Idle)
    BY <1>14 DEF Materialize, Stop
  <2>2. \A dir \in Dirs : Exists(wellKnown'[dir], created)
    BY <1>0, <1>14 DEF Materialize, OwnCopy, TypeOK
  <2> QED
    BY <1>0, <2>1, <2>2, OwnStep, IdleOwns
<1>15. ASSUME NEW p \in Procs, Abandon(p) \/ Crash(p)
       PROVE  PublicationsAreOwn'
  BY <1>15, OwnStop DEF Abandon, Crash
<1>16. CASE MoveSite
  <2>1. PICK dir \in Dirs : cfg' = [cfg EXCEPT !.site = [cfg.site EXCEPT !.dir = dir]]
    BY <1>16 DEF MoveSite
  <2>2. Enabled(cfg) /\ cfg.site \in Site
    BY <1>16 DEF MoveSite, Enabled, TypeOK, Config
  <2>3. cfg'.site.uri = cfg.site.uri /\ cfg'.site.did = cfg.site.did
    BY <2>1, <2>2 DEF TypeOK, Config, Site
  <2>4. Names(cfg', created)
    BY <1>0, <2>2, <2>3 DEF Names
  <2> QED
    BY <1>0, <1>16, <2>4, OwnParts DEF MoveSite
<1>17. CASE CleanBuild
  <2>1. \A dir \in Dirs : Exists(wellKnown'[dir], created)
    BY <1>0, <1>17 DEF CleanBuild, TypeOK, Exists
  <2> QED
    BY <1>0, <1>17, <2>1, OwnParts DEF CleanBuild
<1>18. CASE UNCHANGED vars
  BY <1>0, <1>18, OwnParts DEF vars
<1> QED
  BY <1>3, <1>4, <1>5, <1>6, <1>7, <1>8, <1>9, <1>10, <1>11, <1>12, <1>13, <1>14, <1>15,
     <1>16, <1>17, <1>18 DEF Next, Advance

\* Whatever overlaps and whatever fails, every publication that a file names
\* exists, and pdg.yaml names it with the identity it was created for
\* (internal/cli/integrations.go:100-130).
THEOREM PublicationsAlwaysOwn == Spec => []PublicationsAreOwn
<1>1. Init => PublicationsAreOwn
  <2> SUFFICES ASSUME Init PROVE PublicationsAreOwn
    OBVIOUS
  <2>1. \A p \in Procs : OwnCopy(proc[p], created)
    BY IdleOwns DEF Init
  <2>2. Exists(recorded, created) /\ \A dir \in Dirs : Exists(wellKnown[dir], created)
    BY DEF Init, Exists
  <2> QED
    BY <2>1, <2>2, IdleOwns, OwnParts DEF Init
<1>2. TypeOK /\ PublicationsAreOwn /\ [Next]_vars => PublicationsAreOwn'
  BY OwnInductive
<1> QED
  BY <1>1, <1>2, TypeCorrect, PTL DEF Spec

-----------------------------------------------------------------------------
(* Commands that run one at a time.                                        *)

OneAtATime == \A p, o \in Procs : At(p, "idle") \/ At(o, "idle") \/ p = o

\* A step of a process finds and leaves every other one idle.
LEMMA ActsAlone ==
  ASSUME MaxRunning = 1, TypeOK, OneAtATime, NEW p \in Procs, NEW q, Become(p, q),
         ~At(p, "idle") \/ Cardinality(Running) < MaxRunning
  PROVE  /\ proc'[p] = q
         /\ \A o \in Procs \ {p} : At(o, "idle") /\ proc'[o] = proc[o]
         /\ OneAtATime'
<1>1. proc'[p] = q /\ \A o \in Procs \ {p} : proc'[o] = proc[o]
  BY DEF Become, TypeOK
<1>2. \A o \in Procs \ {p} : At(o, "idle")
  <2>1. CASE ~At(p, "idle")
    BY <2>1 DEF OneAtATime
  <2>2. CASE Cardinality(Running) < MaxRunning
    <3>1. IsFiniteSet(Running)
      BY SiteAssumption, FS_Subset DEF Running
    <3>2. Cardinality(Running) = 0
      BY <2>2, <3>1, FS_CardinalityType
    <3>3. Running = {}
      BY <3>1, <3>2, FS_EmptySet
    <3> QED
      BY <3>3 DEF Running, At
  <2> QED
    BY <2>1, <2>2
<1>3. OneAtATime'
  BY <1>1, <1>2 DEF OneAtATime, At
<1> QED
  BY <1>1, <1>2, <1>3

-----------------------------------------------------------------------------
(* The state is the authority.                                             *)

\* What a process has read is still so.
Grounded(q, r, w) ==
  /\ q.pc \in {"check", "publish"} => q.cfg.site.dir \in Dirs
  /\ q.pc = "publish" => w[q.cfg.site.dir] = None
  /\ q.pc \in {"inspect", "write"} => q.recorded = r
  /\ q.pc = "write" => q.expected = r

AuthorityInv == OneAtATime /\ \A p \in Procs : Grounded(proc[p], recorded, wellKnown)

LEMMA GroundedStep ==
  ASSUME MaxRunning = 1, TypeOK, AuthorityInv, NEW p \in Procs, NEW q, Become(p, q),
         ~At(p, "idle") \/ Cardinality(Running) < MaxRunning,
         Grounded(q, recorded', wellKnown')
  PROVE  AuthorityInv'
<1>1. /\ proc'[p] = q /\ OneAtATime'
      /\ \A o \in Procs \ {p} : At(o, "idle") /\ proc'[o] = proc[o]
  BY ActsAlone DEF AuthorityInv
<1>2. \A o \in Procs : Grounded(proc'[o], recorded', wellKnown')
  BY <1>1 DEF Grounded, At
<1> QED
  BY <1>1, <1>2 DEF AuthorityInv

\* Most steps lead to a place where nothing is asked.
LEMMA FreeStep ==
  ASSUME MaxRunning = 1, TypeOK, AuthorityInv, NEW p \in Procs, NEW q, Become(p, q),
         ~At(p, "idle") \/ Cardinality(Running) < MaxRunning,
         q.pc \notin {"check", "publish", "inspect", "write"}
  PROVE  AuthorityInv'
BY GroundedStep DEF Grounded

LEMMA AuthorityInductive ==
  ASSUME MaxRunning = 1, TypeOK, AuthorityInv, [Next]_vars
  PROVE  AuthorityInv'
<1>1. ASSUME NEW p \in Procs, NEW d \in Dids, Start(p, d)
      PROVE  AuthorityInv'
  <2>1. ASSUME BeginInit(p, d)
        PROVE  AuthorityInv'
    <3> DEFINE q == [Idle EXCEPT !.cmd = "init", !.did = d, !.pc = "saveConfig",
                                 !.cfg = NewConfig]
    <3>1. q.pc = "saveConfig"
      BY DEF Idle
    <3>2. Begin(p, q)
      BY <2>1 DEF BeginInit
    <3> HIDE DEF q
    <3> QED
      BY <3>1, <3>2, FreeStep DEF Begin
  <2>2. ASSUME NEW c, NEW n, BeginCommand(p, c, n, d)
        PROVE  AuthorityInv'
    <3> DEFINE q == [Idle EXCEPT !.cmd = c, !.names = n, !.did = d, !.pc = "loadConfig"]
    <3>1. q.pc = "loadConfig"
      BY DEF Idle
    <3>2. Begin(p, q)
      BY <2>2 DEF BeginCommand
    <3> HIDE DEF q
    <3> QED
      BY <3>1, <3>2, FreeStep DEF Begin
  <2> QED
    BY <1>1, <2>1, <2>2 DEF Start, BeginAdd, BeginRemove, BeginOther
<1>2. ASSUME NEW p \in Procs, ~At(p, "idle"), Stop(p)
      PROVE  AuthorityInv'
  BY <1>2, FreeStep, IdleFacts DEF Stop
<1>3. ASSUME NEW p \in Procs, NEW pc \in Step \ {"check", "publish", "inspect", "write"}, NEW q,
             ~At(p, "idle"), Become(p, q), q.pc = pc
      PROVE  AuthorityInv'
  BY <1>3, FreeStep
<1>4. ASSUME NEW p \in Procs, LoadConfig(p)
      PROVE  AuthorityInv'
  <2>1. proc[p] \in Active /\ ~At(p, "idle")
    BY <1>4, RunningIsActive DEF LoadConfig, At
  <2>2. CASE ~Stop(p)
    <3> DEFINE k == IF proc[p].cmd = "remove" THEN Removed(cfg, proc[p].names) ELSE cfg
               pc == IF proc[p].cmd \in {"remove", "configure"} THEN "saveConfig" ELSE "loadState"
               q == [proc[p] EXCEPT !.cfg = k, !.pc = pc]
    <3>1. Become(p, q)
      BY <1>4, <2>2 DEF LoadConfig
    <3>2. pc \in Step \ {"check", "publish", "inspect", "write"}
      BY DEF Step
    <3> HIDE DEF k, pc
    <3>3. q.pc = pc
      BY <2>1 DEF Active
    <3> HIDE DEF q
    <3> QED
      BY <1>3, <2>1, <3>1, <3>2, <3>3
  <2> QED
    BY <1>2, <2>1, <2>2
<1>5. ASSUME NEW p \in Procs, LoadState(p)
      PROVE  AuthorityInv'
  <2>1. proc[p] \in Active /\ ~At(p, "idle")
    BY <1>5, RunningIsActive DEF LoadState, At
  <2>2. CASE ~Stop(p)
    <3> DEFINE pc == IF proc[p].cmd = "add" THEN "provision"
                     ELSE IF proc[p].cmd = "scan" THEN "saveState" ELSE "inspect"
               q == [proc[p] EXCEPT !.recorded = recorded, !.pc = pc]
    <3>1. Become(p, q) /\ UNCHANGED recorded
      BY <1>5, <2>2 DEF LoadState
    <3>2. pc \notin {"check", "publish", "write"}
      OBVIOUS
    <3> HIDE DEF pc
    <3>3. q.pc = pc /\ q.recorded = recorded
      BY <2>1 DEF Active
    <3> HIDE DEF q
    <3>4. Grounded(q, recorded', wellKnown')
      BY <3>1, <3>2, <3>3 DEF Grounded
    <3> QED
      BY <2>1, <3>1, <3>4, GroundedStep
  <2> QED
    BY <1>2, <2>1, <2>2
<1>6. ASSUME NEW p \in Procs, EnableBluesky(p)
      PROVE  AuthorityInv'
  <2>1. proc[p] \in Active /\ ~At(p, "idle")
    BY <1>6, RunningIsActive DEF EnableBluesky, Adds, At
  <2> DEFINE q == [proc[p] EXCEPT !.cfg.bluesky = TRUE, !.pc = "saveConfig"]
  <2>2. Become(p, q)
    BY <1>6 DEF EnableBluesky
  <2>3. q.pc = "saveConfig"
    BY <2>1 DEF Active
  <2> HIDE DEF q
  <2> QED
    BY <2>1, <2>2, <2>3, FreeStep
<1>7. ASSUME NEW p \in Procs, KeepPublication(p)
      PROVE  AuthorityInv'
  <2>1. proc[p] \in Active /\ ~At(p, "idle")
    BY <1>7, RunningIsActive DEF KeepPublication, Adds, At
  <2>2. CASE ~Stop(p)
    <3> DEFINE q == [proc[p] EXCEPT !.recorded = proc[p].cfg.site.uri, !.pc = "saveConfig"]
    <3>1. Become(p, q)
      BY <1>7, <2>2 DEF KeepPublication
    <3>2. q.pc = "saveConfig"
      BY <2>1 DEF Active
    <3> HIDE DEF q
    <3> QED
      BY <2>1, <3>1, <3>2, FreeStep
  <2> QED
    BY <1>2, <2>1, <2>2
<1>8. ASSUME NEW p \in Procs, NEW dir \in Dirs, CreatePublication(p, dir)
      PROVE  AuthorityInv'
  <2>1. proc[p] \in Active /\ ~At(p, "idle")
    BY <1>8, RunningIsActive DEF CreatePublication, Adds, At
  <2>2. CASE ~Stop(p)
    <3> DEFINE q == [proc[p] EXCEPT
                       !.cfg.site = [did |-> proc[p].did, uri |-> Fresh, dir |-> dir],
                       !.recorded = Fresh, !.expected = Fresh, !.pc = "check"]
    <3>1. Become(p, q)
      BY <1>8, <2>2 DEF CreatePublication
    <3>2. q.pc = "check" /\ q.cfg.site.dir = dir
      BY <2>1 DEF Active, Config
    <3> HIDE DEF q
    <3>3. Grounded(q, recorded', wellKnown')
      BY <3>2 DEF Grounded
    <3> QED
      BY <2>1, <3>1, <3>3, GroundedStep
  <2> QED
    BY <1>2, <2>1, <2>2
<1>9. ASSUME NEW p \in Procs, CheckWellKnown(p)
      PROVE  AuthorityInv'
  <2>1. proc[p] \in Active /\ ~At(p, "idle")
    BY <1>9, RunningIsActive DEF CheckWellKnown, At
  <2>2. CASE Become(p, [proc[p] EXCEPT !.pc = "publish"])
             /\ wellKnown[proc[p].cfg.site.dir] = None
    <3> DEFINE q == [proc[p] EXCEPT !.pc = "publish"]
    <3>1. q.pc = "publish" /\ q.cfg = proc[p].cfg
      BY <2>1 DEF Active
    <3>2. UNCHANGED wellKnown /\ proc[p].cfg.site.dir \in Dirs
      BY <1>9 DEF CheckWellKnown, At, AuthorityInv, Grounded
    <3> HIDE DEF q
    <3>3. Grounded(q, recorded', wellKnown')
      BY <2>2, <3>1, <3>2 DEF Grounded
    <3> QED
      BY <2>1, <2>2, <3>3, GroundedStep DEF q
  <2>3. CASE Become(p, [proc[p] EXCEPT !.pc = "saveConfig"])
    <3>1. [proc[p] EXCEPT !.pc = "saveConfig"].pc = "saveConfig"
      BY <2>1 DEF Active
    <3> QED
      BY <2>1, <2>3, <3>1, FreeStep
  <2> QED
    BY <1>2, <1>9, <2>1, <2>2, <2>3 DEF CheckWellKnown
<1>10. ASSUME NEW p \in Procs, WriteWellKnown(p) \/ SaveConfig(p) \/ FindState(p)
       PROVE  AuthorityInv'
  <2>1. proc[p] \in Active /\ ~At(p, "idle")
    BY <1>10, RunningIsActive DEF WriteWellKnown, SaveConfig, FindState, At
  <2>2. Stop(p) \/ \E pc \in {"saveConfig", "saveState", "findState"} :
                     Become(p, [proc[p] EXCEPT !.pc = pc])
    BY <1>10 DEF WriteWellKnown, SaveConfig, FindState
  <2>3. ASSUME NEW pc \in {"saveConfig", "saveState", "findState"},
               Become(p, [proc[p] EXCEPT !.pc = pc])
        PROVE  AuthorityInv'
    <3>1. [proc[p] EXCEPT !.pc = pc].pc = pc
      BY <2>1 DEF Active
    <3> QED
      BY <2>1, <2>3, <3>1, FreeStep
  <2> QED
    BY <1>2, <2>1, <2>2, <2>3
<1>11. ASSUME NEW p \in Procs, SaveState(p) \/ Materialize(p) \/ Abandon(p) \/ Crash(p)
       PROVE  AuthorityInv'
  BY <1>2, <1>11 DEF SaveState, Materialize, Abandon, Crash, At
<1>12. ASSUME NEW p \in Procs, Inspect(p)
       PROVE  AuthorityInv'
  <2>1. proc[p] \in Active /\ ~At(p, "idle") /\ UNCHANGED recorded
    BY <1>12, RunningIsActive DEF Inspect, At
  <2>2. CASE ~Stop(p)
    <3> DEFINE q == [proc[p] EXCEPT !.expected = proc[p].recorded, !.pc = "write"]
    <3>1. Become(p, q)
      BY <1>12, <2>2 DEF Inspect
    <3>2. q.pc = "write" /\ q.recorded = proc[p].recorded /\ q.expected = proc[p].recorded
      BY <2>1 DEF Active
    <3>3. proc[p].recorded = recorded
      BY <1>12 DEF Inspect, At, AuthorityInv, Grounded
    <3> HIDE DEF q
    <3>4. Grounded(q, recorded', wellKnown')
      BY <2>1, <3>2, <3>3 DEF Grounded
    <3> QED
      BY <2>1, <3>1, <3>4, GroundedStep
  <2> QED
    BY <1>2, <2>1, <2>2
<1>13. CASE MoveSite \/ UNCHANGED vars
  BY <1>13 DEF MoveSite, vars, AuthorityInv, OneAtATime, At
<1>14. CASE CleanBuild
  <2>1. UNCHANGED <<proc, recorded>> /\ \A d \in Dirs : wellKnown'[d] \in {wellKnown[d], None}
    BY <1>14 DEF CleanBuild, TypeOK
  <2>2. \A p \in Procs : proc[p].pc = "publish" => wellKnown'[proc[p].cfg.site.dir] = None
    <3> SUFFICES ASSUME NEW p \in Procs, proc[p].pc = "publish"
                 PROVE  wellKnown'[proc[p].cfg.site.dir] = None
      OBVIOUS
    <3> DEFINE e == proc[p].cfg.site.dir
    <3>1. Grounded(proc[p], recorded, wellKnown)
      BY DEF AuthorityInv
    <3>2. wellKnown[e] = None
      BY <3>1 DEF Grounded
    <3>3. PICK d \in Dirs : wellKnown' = [wellKnown EXCEPT ![d] = None]
      BY <1>14 DEF CleanBuild
    <3>4. \A x \in Dirs : wellKnown'[x] = IF x = d THEN None ELSE wellKnown[x]
      BY <3>3 DEF TypeOK
    <3>5. e \in Dirs
      BY <3>1 DEF Grounded
    <3> HIDE DEF e
    <3> QED
      BY <3>2, <3>4, <3>5 DEF e
  <2> QED
    BY <2>1, <2>2 DEF AuthorityInv, OneAtATime, At, Grounded
<1> QED
  BY <1>1, <1>4, <1>5, <1>6, <1>7, <1>8, <1>9, <1>10, <1>11, <1>12, <1>13, <1>14
     DEF Next, Advance

\* A .well-known file changes hands only to the publication of the state.
LEMMA AuthorityStep ==
  ASSUME TypeOK, AuthorityInv, [Next]_vars, NEW dir \in Dirs,
         wellKnown[dir] # None, wellKnown'[dir] \notin {None, wellKnown[dir]}
  PROVE  wellKnown'[dir] = recorded
<1>1. ASSUME NEW p \in Procs, WriteWellKnown(p)
      PROVE  FALSE
  <2>1. wellKnown[proc[p].cfg.site.dir] = None
    BY <1>1 DEF WriteWellKnown, At, AuthorityInv, Grounded
  <2> QED
    BY <1>1, <2>1 DEF WriteWellKnown, TypeOK
<1>2. ASSUME NEW p \in Procs, Materialize(p)
      PROVE  wellKnown'[dir] = recorded
  <2>1. proc[p].expected = recorded
    BY <1>2 DEF Materialize, At, AuthorityInv, Grounded
  <2> QED
    BY <1>2, <2>1 DEF Materialize, TypeOK
<1>3. CASE CleanBuild
  BY <1>3 DEF CleanBuild, TypeOK
<1>4. CASE UNCHANGED wellKnown
  BY <1>4
<1>5. ASSUME NEW p \in Procs, NEW d \in Dids, Start(p, d)
      PROVE  UNCHANGED wellKnown
  BY <1>5 DEF Start, BeginInit, BeginAdd, BeginRemove, BeginOther, BeginCommand, Begin
<1>6. ASSUME NEW p \in Procs, Advance(p), ~WriteWellKnown(p), ~Materialize(p)
      PROVE  UNCHANGED wellKnown
  BY <1>6 DEF Advance, LoadConfig, LoadState, EnableBluesky, KeepPublication, CreatePublication,
     CheckWellKnown, SaveConfig, FindState, SaveState, Inspect
<1> QED
  BY <1>1, <1>2, <1>3, <1>4, <1>5, <1>6 DEF Next, Abandon, Crash, MoveSite, vars

\* With commands that run one at a time, and whatever fails: a .well-known file
\* that names a publication comes to name another only from the state
\* (internal/cli/integrations.go:220-224, internal/reconcile/reconcile.go:54-71).
THEOREM SequentialAuthority ==
  ASSUME MaxRunning = 1 PROVE Spec => StateIsAuthority
<1>1. Init => AuthorityInv
  BY IdleFacts DEF Init, AuthorityInv, OneAtATime, At, Grounded
<1>2. TypeOK /\ AuthorityInv /\ [Next]_vars => AuthorityInv'
  BY AuthorityInductive
<1>3. Spec => []AuthorityInv
  BY <1>1, <1>2, TypeCorrect, PTL DEF Spec
<1> DEFINE Moves == \A dir \in Dirs :
              wellKnown[dir] # None /\ wellKnown'[dir] \notin {None, wellKnown[dir]} =>
                wellKnown'[dir] = recorded
<1>4. TypeOK /\ AuthorityInv /\ [Next]_vars => [Moves]_vars
  BY AuthorityStep
<1>5. Spec => [][Moves]_vars
  BY <1>3, <1>4, TypeCorrect, PTL DEF Spec
<1> QED
  BY <1>5 DEF StateIsAuthority

-----------------------------------------------------------------------------
(* The publication of pdg.yaml is recorded.                                *)

Agrees(k, r) == Enabled(k) /\ r = k.site.uri

\* What the files say of one another after f faults and h changes: without faults the
\* publication of pdg.yaml is the recorded one; without changes the recorded one is
\* that of pdg.yaml.
Settled(k, r, f, h) ==
  /\ f = 0 /\ Enabled(k) => r = k.site.uri
  /\ h = 0 /\ r # None => Agrees(k, r)

SameSite(k, c) == (Enabled(k) <=> Enabled(c)) /\ k.site.uri = c.site.uri

\* How the copy of a process relates to the files.
Follows(q, c, r, f, h) ==
  /\ q.pc \in {"loadState", "provision", "check", "publish", "saveConfig"} =>
       q.cfg.initialised
  /\ q.cmd = "remove" => h > 0
  /\ q.pc = "loadState" => SameSite(q.cfg, c)
  /\ q.pc = "provision" => q.cmd = "add" /\ SameSite(q.cfg, c) /\ q.recorded = r
  /\ q.pc \in {"check", "publish"} =>
       q.cmd = "add" /\ Agrees(q.cfg, q.recorded) /\ (h = 0 => r = None)
  /\ q.pc = "saveConfig" =>
       /\ h = 0 /\ r # None => Agrees(q.cfg, r)
       /\ Settled(q.cfg, IF q.cmd = "add" THEN q.recorded ELSE r, f, h)
       /\ q.cmd = "init" => ~Enabled(q.cfg) /\ q.recorded = None
  /\ q.pc = "findState" => q.cmd = "init" /\ ~Enabled(c) /\ q.recorded = None
  /\ q.pc = "saveState" => /\ Settled(c, q.recorded, f, h)
                           /\ q.cmd = "scan" => q.recorded = r

\* Only a process about to write the state leaves the files apart; what is recorded has
\* been written to pdg.yaml before.
AttachedInv ==
  /\ OneAtATime
  /\ \A p \in Procs : Follows(proc[p], cfg, recorded, faults, changes)
  /\ ~cfg.initialised => ~Enabled(cfg)
  /\ changes = 0 /\ recorded # None => Agrees(cfg, recorded)
  /\ Settled(cfg, recorded, faults, changes) \/ \E p \in Procs : At(p, "saveState")

LEMMA SettledBefore ==
  ASSUME MaxRunning = 1, TypeOK, AttachedInv, NEW p \in Procs, ~At(p, "saveState"),
         ~At(p, "idle") \/ Cardinality(Running) < MaxRunning
  PROVE  Settled(cfg, recorded, faults, changes)
<1>1. \A o \in Procs : ~At(o, "saveState")
  <2>1. CASE ~At(p, "idle")
    BY <2>1 DEF AttachedInv, OneAtATime, At
  <2>2. CASE Cardinality(Running) < MaxRunning
    <3>1. IsFiniteSet(Running)
      BY SiteAssumption, FS_Subset DEF Running
    <3>2. Cardinality(Running) = 0
      BY <2>2, <3>1, FS_CardinalityType
    <3>3. Running = {}
      BY <3>1, <3>2, FS_EmptySet
    <3> QED
      BY <3>3 DEF Running, At
  <2> QED
    BY <2>1, <2>2
<1> QED
  BY <1>1 DEF AttachedInv

\* Faults and changes are never taken back.
Counted == (faults' = 0 => faults = 0) /\ (changes' = 0 => changes = 0)

LEMMA CountedStep ==
  ASSUME TypeOK, \/ \E k : Fault(k)
                 \/ UNCHANGED faults,
                 \/ \E k : Change(k)
                 \/ UNCHANGED changes
  PROVE  Counted
BY DEF TypeOK, Fault, Change, Counted

LEMMA FollowsStep ==
  ASSUME MaxRunning = 1, TypeOK, AttachedInv, NEW p \in Procs, NEW q, Become(p, q),
         ~At(p, "idle") \/ Cardinality(Running) < MaxRunning,
         Follows(q, cfg', recorded', faults', changes'),
         ~cfg'.initialised => ~Enabled(cfg'),
         changes' = 0 /\ recorded' # None => Agrees(cfg', recorded'),
         Settled(cfg', recorded', faults', changes') \/ q.pc = "saveState"
  PROVE  AttachedInv'
<1>1. /\ proc'[p] = q /\ OneAtATime'
      /\ \A o \in Procs \ {p} : At(o, "idle") /\ proc'[o] = proc[o]
  BY ActsAlone DEF AttachedInv
<1>2. \A o \in Procs \ {p} : proc'[o] = Idle
  BY <1>1 DEF TypeOK, Process, Active, Step, At
<1>3. \A c, r, f, h : Follows(Idle, c, r, f, h)
  BY DEF Follows, Idle
<1>4. \A o \in Procs : Follows(proc'[o], cfg', recorded', faults', changes')
  BY <1>1, <1>2, <1>3
<1>5. Settled(cfg', recorded', faults', changes') \/ \E o \in Procs : proc'[o].pc = "saveState"
  BY <1>1
<1> QED
  BY <1>1, <1>4, <1>5 DEF AttachedInv, At

\* A process that leaves the files as they were.
LEMMA SameStep ==
  ASSUME MaxRunning = 1, TypeOK, AttachedInv, NEW p \in Procs, NEW q, Become(p, q),
         ~At(p, "idle") \/ Cardinality(Running) < MaxRunning,
         ~At(p, "saveState"), UNCHANGED <<cfg, recorded>>, Counted,
         Follows(q, cfg, recorded, faults', changes')
  PROVE  AttachedInv'
<1>1. Settled(cfg, recorded, faults, changes)
  BY SettledBefore
<1>2. Settled(cfg', recorded', faults', changes')
  BY <1>1 DEF Settled, Counted
<1>3. /\ ~cfg'.initialised => ~Enabled(cfg')
      /\ changes' = 0 /\ recorded' # None => Agrees(cfg', recorded')
  BY DEF AttachedInv, Counted
<1> QED
  BY <1>2, <1>3, FollowsStep

\* A process that ends with the files as they were, and did not have to write the state.
LEMMA EndStep ==
  ASSUME MaxRunning = 1, TypeOK, AttachedInv, NEW p \in Procs, Stop(p),
         ~At(p, "idle"), UNCHANGED <<cfg, recorded>>, Counted,
         At(p, "saveState") => faults' # 0 \/ proc[p].cmd = "scan"
  PROVE  AttachedInv'
<1>1. Follows(Idle, cfg', recorded', faults', changes')
  BY DEF Follows, Idle
<1>2. /\ ~cfg'.initialised => ~Enabled(cfg')
      /\ changes' = 0 /\ recorded' # None => Agrees(cfg', recorded')
  BY DEF AttachedInv, Counted
<1>3. At(p, "saveState") /\ proc[p].cmd = "scan" => Settled(cfg, recorded, faults, changes)
  BY DEF At, AttachedInv, Follows
<1>4. Settled(cfg', recorded', faults', changes')
  BY <1>2, <1>3, SettledBefore DEF Settled, Counted
<1> QED
  BY <1>1, <1>2, <1>4, FollowsStep DEF Stop

\* The commands that start: an init finds no publication in a project that has not been
\* initialised, unless it is a change of one that has been.
LEMMA AttachedStarts ==
  ASSUME MaxRunning = 1, TypeOK, AttachedInv, NEW p \in Procs, NEW d \in Dids, Start(p, d)
  PROVE  AttachedInv'
<1>1. ASSUME BeginInit(p, d)
      PROVE  AttachedInv'
  <2> DEFINE q == [Idle EXCEPT !.cmd = "init", !.did = d, !.pc = "saveConfig",
                               !.cfg = NewConfig]
  <2>1. q.pc = "saveConfig" /\ q.cfg = NewConfig /\ q.cmd = "init" /\ q.recorded = None
    BY DEF Idle
  <2>2. Begin(p, q)
    BY <1>1 DEF BeginInit
  <2> HIDE DEF q
  <2>3. /\ UNCHANGED <<cfg, recorded>> /\ ~At(p, "saveState") /\ Become(p, q)
        /\ Cardinality(Running) < MaxRunning
    BY <2>2 DEF Begin, At
  <2>4. Counted
    BY <1>1, <2>2, CountedStep DEF BeginInit, Begin
  <2>5. changes' = 0 => ~cfg.initialised
    BY <1>1 DEF BeginInit, Change, TypeOK
  <2>6. NewConfig.initialised
    BY DEF NewConfig, NoConfig
  <2>7. changes' = 0 => recorded = None
    BY <2>4, <2>5 DEF AttachedInv, Agrees, Counted
  <2>8. Follows(q, cfg, recorded, faults', changes')
    BY <2>1, <2>6, <2>7, ConfigFacts DEF Follows, Settled
  <2> QED
    BY <2>3, <2>4, <2>8, SameStep
<1>2. ASSUME NEW c, NEW n, BeginCommand(p, c, n, d)
      PROVE  AttachedInv'
  <2> DEFINE q == [Idle EXCEPT !.cmd = c, !.names = n, !.did = d, !.pc = "loadConfig"]
  <2>1. q.pc = "loadConfig" /\ q.cmd = c
    BY DEF Idle
  <2>2. Begin(p, q)
    BY <1>2 DEF BeginCommand
  <2> HIDE DEF q
  <2>3. /\ UNCHANGED <<cfg, recorded>> /\ ~At(p, "saveState") /\ Become(p, q)
        /\ Cardinality(Running) < MaxRunning
    BY <2>2 DEF Begin, At
  <2>4. Counted
    BY <1>2, <2>2, CountedStep DEF BeginCommand, Begin
  <2>5. c = "remove" => changes' > 0
    BY <1>2 DEF BeginCommand, Change, TypeOK
  <2>6. Follows(q, cfg, recorded, faults', changes')
    BY <2>1, <2>5 DEF Follows
  <2> QED
    BY <2>3, <2>4, <2>6, SameStep
<1> QED
  BY <1>1, <1>2 DEF Start, BeginAdd, BeginRemove, BeginOther

\* Reading the files.
LEMMA AttachedLoads ==
  ASSUME MaxRunning = 1, TypeOK, AttachedInv, NEW p \in Procs,
         LoadConfig(p) \/ LoadState(p) \/ FindState(p) \/ Inspect(p)
  PROVE  AttachedInv'
<1>a. /\ proc[p] \in Active /\ ~At(p, "idle") /\ ~At(p, "saveState")
      /\ UNCHANGED <<cfg, recorded, changes>> /\ Counted
  BY RunningIsActive, CountedStep DEF LoadConfig, LoadState, FindState, Inspect, At
<1>b. /\ Settled(cfg, recorded, faults, changes)
      /\ Follows(proc[p], cfg, recorded, faults, changes)
  BY <1>a, SettledBefore DEF AttachedInv
<1>c. \A k, r : Settled(k, r, faults, changes) => Settled(k, r, faults', changes')
  BY <1>a DEF Settled, Counted
<1>1. ASSUME Stop(p) PROVE AttachedInv'
  BY <1>1, <1>a, EndStep
<1>2. CASE LoadConfig(p) /\ ~Stop(p)
  <2> DEFINE k == IF proc[p].cmd = "remove" THEN Removed(cfg, proc[p].names) ELSE cfg
             pc == IF proc[p].cmd \in {"remove", "configure"} THEN "saveConfig" ELSE "loadState"
             q == [proc[p] EXCEPT !.cfg = k, !.pc = pc]
  <2>1. Become(p, q) /\ cfg.initialised /\ proc[p].pc = "loadConfig"
    BY <1>2 DEF LoadConfig, Refuses, At
  <2>2. (k.site = cfg.site \/ ~Enabled(k)) /\ k.initialised
    BY <2>1 DEF Removed, Enabled, TypeOK, Config
  <2>3. /\ proc[p].cmd \notin {"remove", "configure"} => pc = "loadState" /\ k = cfg
        /\ proc[p].cmd \in {"remove", "configure"} => pc = "saveConfig"
        /\ proc[p].cmd # "remove" => k = cfg
    OBVIOUS
  <2> HIDE DEF k, pc
  <2>4. q.pc = pc /\ q.cfg = k /\ q.cmd = proc[p].cmd
    BY <1>a DEF Active
  <2> HIDE DEF q
  <2>5. proc[p].cmd = "remove" => changes > 0
    BY <1>b DEF Follows
  <2>6. /\ Settled(k, recorded, faults, changes)
        /\ changes = 0 /\ recorded # None => Agrees(k, recorded)
    BY <1>b, <2>2, <2>3, <2>5 DEF Settled, Enabled
  <2>7. Follows(q, cfg, recorded, faults', changes')
    BY <1>a, <1>c, <2>2, <2>3, <2>4, <2>5, <2>6 DEF Follows, SameSite
  <2> QED
    BY <1>a, <2>1, <2>7, SameStep
<1>3. CASE LoadState(p) /\ ~Stop(p)
  <2> DEFINE pc == IF proc[p].cmd = "add" THEN "provision"
                   ELSE IF proc[p].cmd = "scan" THEN "saveState" ELSE "inspect"
             q == [proc[p] EXCEPT !.recorded = recorded, !.pc = pc]
  <2>1. Become(p, q) /\ proc[p].pc = "loadState"
    BY <1>3 DEF LoadState, At
  <2>2. /\ pc \in {"provision", "saveState", "inspect"}
        /\ pc = "provision" => proc[p].cmd = "add"
    OBVIOUS
  <2> HIDE DEF pc
  <2>3. q.pc = pc /\ q.recorded = recorded /\ q.cfg = proc[p].cfg /\ q.cmd = proc[p].cmd
    BY <1>a DEF Active
  <2> HIDE DEF q
  <2>4. Follows(q, cfg, recorded, faults', changes')
    BY <1>a, <1>b, <1>c, <2>1, <2>2, <2>3 DEF Follows
  <2> QED
    BY <1>a, <2>1, <2>4, SameStep
<1>4. CASE FindState(p) /\ ~Stop(p)
  <2> DEFINE q == [proc[p] EXCEPT !.pc = "saveState"]
  <2>1. Become(p, q) /\ proc[p].pc = "findState"
    BY <1>4 DEF FindState, At
  <2>2. q.pc = "saveState" /\ q.cmd = proc[p].cmd /\ q.recorded = proc[p].recorded
    BY <1>a DEF Active
  <2> HIDE DEF q
  <2>3. Follows(q, cfg, recorded, faults', changes')
    BY <1>a, <1>b, <2>1, <2>2 DEF Follows, Settled
  <2> QED
    BY <1>a, <2>1, <2>3, SameStep
<1>5. CASE Inspect(p) /\ ~Stop(p)
  <2> DEFINE q == [proc[p] EXCEPT !.expected = proc[p].recorded, !.pc = "write"]
  <2>1. Become(p, q)
    BY <1>5 DEF Inspect
  <2>2. q.pc = "write" /\ q.cmd = proc[p].cmd
    BY <1>a DEF Active
  <2> HIDE DEF q
  <2>3. Follows(q, cfg, recorded, faults', changes')
    BY <1>a, <1>b, <2>2 DEF Follows
  <2> QED
    BY <1>a, <2>1, <2>3, SameStep
<1> QED
  BY <1>1, <1>2, <1>3, <1>4, <1>5

\* What pdg add does before it writes pdg.yaml.
LEMMA AttachedAdds ==
  ASSUME MaxRunning = 1, TypeOK, AttachedInv, NEW p \in Procs,
         \/ EnableBluesky(p) \/ KeepPublication(p) \/ \E dir \in Dirs : CreatePublication(p, dir)
         \/ CheckWellKnown(p) \/ WriteWellKnown(p)
  PROVE  AttachedInv'
<1>a. /\ proc[p] \in Active /\ ~At(p, "idle") /\ ~At(p, "saveState")
      /\ UNCHANGED <<cfg, recorded, changes>> /\ Counted
  BY RunningIsActive, CountedStep
     DEF EnableBluesky, KeepPublication, CreatePublication, CheckWellKnown, WriteWellKnown,
         Adds, At
<1>b. /\ Settled(cfg, recorded, faults, changes)
      /\ Follows(proc[p], cfg, recorded, faults, changes)
  BY <1>a, SettledBefore DEF AttachedInv
<1>c. \A k, r : Settled(k, r, faults, changes) => Settled(k, r, faults', changes')
  BY <1>a DEF Settled, Counted
<1>1. ASSUME Stop(p) PROVE AttachedInv'
  BY <1>1, <1>a, EndStep
<1>2. CASE EnableBluesky(p)
  <2>1. proc[p].pc = "provision"
    BY <1>2 DEF EnableBluesky, Adds, At
  <2> DEFINE q == [proc[p] EXCEPT !.cfg.bluesky = TRUE, !.pc = "saveConfig"]
  <2>2. Become(p, q)
    BY <1>2 DEF EnableBluesky
  <2>3. /\ q.pc = "saveConfig" /\ q.cfg.site = proc[p].cfg.site /\ q.cmd = proc[p].cmd
        /\ q.recorded = proc[p].recorded /\ q.cfg.initialised = proc[p].cfg.initialised
    BY <1>a DEF Active, Config
  <2> HIDE DEF q
  <2>4. SameSite(q.cfg, cfg)
    BY <1>b, <2>1, <2>3 DEF Follows, SameSite, Enabled
  <2>5. /\ Settled(q.cfg, recorded, faults, changes)
        /\ changes = 0 /\ recorded # None => Agrees(q.cfg, recorded)
    BY <1>b, <2>4 DEF Settled, SameSite, Agrees
  <2>6. Follows(q, cfg, recorded, faults', changes')
    BY <1>a, <1>b, <1>c, <2>1, <2>3, <2>5 DEF Follows
  <2> QED
    BY <1>a, <2>2, <2>6, SameStep
<1>3. CASE KeepPublication(p) /\ ~Stop(p)
  <2>1. proc[p].pc = "provision" /\ Enabled(proc[p].cfg) /\ ~Conflicts(proc[p])
    BY <1>3 DEF KeepPublication, Adds, At
  <2> DEFINE q == [proc[p] EXCEPT !.recorded = proc[p].cfg.site.uri, !.pc = "saveConfig"]
  <2>2. Become(p, q)
    BY <1>3 DEF KeepPublication
  <2>3. /\ q.pc = "saveConfig" /\ q.cfg = proc[p].cfg
        /\ q.recorded = proc[p].cfg.site.uri /\ q.cmd = proc[p].cmd
    BY <1>a DEF Active
  <2> HIDE DEF q
  <2>4. Follows(q, cfg, recorded, faults', changes')
    BY <1>a, <1>b, <2>1, <2>3 DEF Follows, Settled, Agrees, Conflicts
  <2> QED
    BY <1>a, <2>2, <2>4, SameStep
<1>4. ASSUME NEW dir \in Dirs, CreatePublication(p, dir), ~Stop(p)
      PROVE  AttachedInv'
  <2>1. proc[p].pc = "provision" /\ ~Enabled(proc[p].cfg)
    BY <1>4 DEF CreatePublication, Adds, At
  <2>2. changes = 0 => recorded = None
    BY <1>b, <2>1 DEF Follows, Settled, SameSite, Agrees
  <2> DEFINE site == [did |-> proc[p].did, uri |-> Fresh, dir |-> dir]
             q == [proc[p] EXCEPT !.cfg.site = site,
                                  !.recorded = Fresh, !.expected = Fresh, !.pc = "check"]
  <2>3. Become(p, q)
    BY <1>4 DEF CreatePublication
  <2>4. /\ site.uri = Fresh /\ site # NoSite
    BY <1>a, SiteAssumption DEF NoSite, None, Active
  <2> HIDE DEF site
  <2>5. /\ q.pc = "check" /\ q.cfg.site = site /\ q.recorded = Fresh /\ q.cmd = proc[p].cmd
        /\ q.cfg.initialised = proc[p].cfg.initialised
    BY <1>a DEF Active, Config
  <2> HIDE DEF q
  <2>6. Follows(q, cfg, recorded, faults', changes')
    BY <1>a, <1>b, <2>1, <2>2, <2>4, <2>5 DEF Follows, Agrees, Enabled
  <2> QED
    BY <1>a, <2>3, <2>6, SameStep
<1>5. CASE CheckWellKnown(p) \/ WriteWellKnown(p)
  <2>1. proc[p].pc \in {"check", "publish"}
    BY <1>5 DEF CheckWellKnown, WriteWellKnown, At
  <2>2. ASSUME NEW pc \in {"publish", "saveConfig"}, Become(p, [proc[p] EXCEPT !.pc = pc])
        PROVE  AttachedInv'
    <3> DEFINE q == [proc[p] EXCEPT !.pc = pc]
    <3>1. /\ q.pc = pc /\ q.cfg = proc[p].cfg
          /\ q.recorded = proc[p].recorded /\ q.cmd = proc[p].cmd
      BY <1>a DEF Active
    <3>2. Become(p, q)
      BY <2>2
    <3> HIDE DEF q
    <3>3. Follows(q, cfg, recorded, faults', changes')
      BY <1>a, <1>b, <2>1, <3>1 DEF Follows, Settled, Agrees
    <3> QED
      BY <1>a, <3>2, <3>3, SameStep
  <2>3. \/ Stop(p)
        \/ \E pc \in {"publish", "saveConfig"} : Become(p, [proc[p] EXCEPT !.pc = pc])
    BY <1>5 DEF CheckWellKnown, WriteWellKnown
  <2> QED
    BY <1>1, <2>2, <2>3
<1> QED
  BY <1>1, <1>2, <1>3, <1>4, <1>5

\* Writing the files.
LEMMA AttachedSaves ==
  ASSUME MaxRunning = 1, TypeOK, AttachedInv, NEW p \in Procs, SaveConfig(p) \/ SaveState(p)
  PROVE  AttachedInv'
<1>a. proc[p] \in Active /\ ~At(p, "idle") /\ UNCHANGED changes /\ Counted
  BY RunningIsActive, CountedStep DEF SaveConfig, SaveState, At
<1>b. Follows(proc[p], cfg, recorded, faults, changes)
  BY DEF AttachedInv
<1>c. \A k, r : Settled(k, r, faults, changes) => Settled(k, r, faults', changes')
  BY <1>a DEF Settled, Counted
<1>d. \A c, r, f, h : Follows(Idle, c, r, f, h)
  BY DEF Follows, Idle
<1>1. CASE UNCHANGED <<cfg, recorded>> /\ Stop(p) /\ \E k : Fault(k)
  <2>1. faults' # 0
    BY <1>1 DEF Fault, TypeOK
  <2> QED
    BY <1>1, <1>a, <2>1, EndStep
<1>2. ASSUME At(p, "saveConfig"), UNCHANGED recorded, cfg' = proc[p].cfg, UNCHANGED faults,
             \/ proc[p].cmd = "add" /\ Become(p, [proc[p] EXCEPT !.pc = "saveState"])
             \/ proc[p].cmd = "init" /\ Become(p, [proc[p] EXCEPT !.pc = "findState"])
             \/ proc[p].cmd \in {"remove", "configure"} /\ Become(p, Idle)
      PROVE  AttachedInv'
  <2>1. proc[p].pc = "saveConfig" /\ UNCHANGED recorded /\ cfg'.initialised
    BY <1>2, <1>b DEF At, Follows
  <2>2. changes' = 0 /\ recorded' # None => Agrees(cfg', recorded')
    BY <1>2, <1>a, <1>b, <2>1 DEF Follows
  <2>3. Settled(cfg', IF proc[p].cmd = "add" THEN proc[p].recorded ELSE recorded,
                faults', changes')
    BY <1>2, <1>b, <1>c, <2>1 DEF Follows
  <2>4. CASE proc[p].cmd = "add"
    <3> DEFINE q == [proc[p] EXCEPT !.pc = "saveState"]
    <3>1. Become(p, q)
      BY <1>2, <2>4
    <3>2. q.pc = "saveState" /\ q.recorded = proc[p].recorded /\ q.cmd = "add"
      BY <1>a, <2>4 DEF Active
    <3> HIDE DEF q
    <3>3. Follows(q, cfg', recorded', faults', changes')
      BY <2>3, <2>4, <3>2 DEF Follows
    <3> QED
      BY <1>a, <2>1, <2>2, <3>1, <3>2, <3>3, FollowsStep
  <2>5. CASE proc[p].cmd = "init"
    <3> DEFINE q == [proc[p] EXCEPT !.pc = "findState"]
    <3>1. Become(p, q)
      BY <1>2, <2>5
    <3>2. q.pc = "findState" /\ q.cmd = "init" /\ q.recorded = proc[p].recorded
      BY <1>a, <2>5 DEF Active
    <3> HIDE DEF q
    <3>3. Follows(q, cfg', recorded', faults', changes')
      BY <1>2, <1>b, <2>1, <2>5, <3>2 DEF Follows
    <3> QED
      BY <1>a, <2>1, <2>2, <2>3, <2>5, <3>1, <3>3, FollowsStep
  <2>6. CASE proc[p].cmd \notin {"add", "init"}
    <3>1. Become(p, Idle)
      BY <1>2, <2>6
    <3> QED
      BY <1>a, <1>d, <2>1, <2>2, <2>3, <2>6, <3>1, FollowsStep
  <2> QED
    BY <2>4, <2>5, <2>6
<1>3. CASE SaveState(p) /\ recorded' = proc[p].recorded /\ UNCHANGED faults
  <2>1. proc[p].pc = "saveState" /\ UNCHANGED cfg /\ Become(p, Idle)
    BY <1>3 DEF SaveState, At, Stop
  <2>2. Settled(cfg', recorded', faults', changes')
    BY <1>3, <1>b, <1>c, <2>1 DEF Follows
  <2>3. /\ ~cfg'.initialised => ~Enabled(cfg')
        /\ changes' = 0 /\ recorded' # None => Agrees(cfg', recorded')
    BY <2>1, <2>2 DEF AttachedInv, Settled
  <2> QED
    BY <1>a, <1>d, <2>1, <2>2, <2>3, FollowsStep
<1> QED
  <2>1. CASE SaveConfig(p)
    BY <1>1, <1>2, <2>1 DEF SaveConfig, Stop
  <2>2. CASE SaveState(p)
    BY <1>1, <1>3, <2>2 DEF SaveState
  <2> QED
    BY <2>1, <2>2

\* What the user and the site generator do beside a command.
LEMMA AttachedBeside ==
  ASSUME TypeOK, AttachedInv, MoveSite \/ CleanBuild \/ UNCHANGED vars
  PROVE  AttachedInv'
<1>a. UNCHANGED <<recorded, proc, faults>> /\ Counted
  BY CountedStep DEF MoveSite, CleanBuild, vars
<1>1. /\ SameSite(cfg', cfg) /\ (changes' = 0 => cfg' = cfg)
      /\ cfg'.initialised = cfg.initialised
  <2>1. CASE MoveSite
    <3>1. PICK dir \in Dirs : cfg' = [cfg EXCEPT !.site = [cfg.site EXCEPT !.dir = dir]]
      BY <2>1 DEF MoveSite
    <3>2. Enabled(cfg) /\ cfg.site \in Site /\ changes' # 0
      BY <2>1 DEF MoveSite, Enabled, Change, TypeOK, Config
    <3>3. /\ cfg'.site.uri = cfg.site.uri /\ cfg'.site.dir = dir
          /\ cfg'.initialised = cfg.initialised
      BY <3>1, <3>2 DEF TypeOK, Config, Site
    <3>4. Enabled(cfg')
      BY <3>3, SiteAssumption DEF Enabled, NoSite, None
    <3> QED
      BY <3>2, <3>3, <3>4 DEF SameSite
  <2> QED
    BY <2>1 DEF CleanBuild, vars, SameSite
<1>2. \A q, c, k, r, f, h, j :
        /\ Settled(k, r, f, h) /\ SameSite(c, k) /\ (j = 0 => h = 0) => Settled(c, r, f, j)
        /\ Follows(q, k, r, f, h) /\ SameSite(c, k) /\ h \in Nat /\ j \in Nat /\
           (j = 0 => h = 0) => Follows(q, c, r, f, j)
  BY DEF Settled, Follows, SameSite, Agrees
<1>3. changes \in Nat /\ changes' \in Nat
  BY DEF TypeOK, MoveSite, CleanBuild, Change, vars
<1>4. \A p \in Procs : Follows(proc'[p], cfg', recorded', faults', changes')
  BY <1>a, <1>1, <1>2, <1>3 DEF AttachedInv, Counted
<1>5. /\ ~cfg'.initialised => ~Enabled(cfg')
      /\ changes' = 0 /\ recorded' # None => Agrees(cfg', recorded')
      /\ Settled(cfg', recorded', faults', changes') \/ \E p \in Procs : proc'[p].pc = "saveState"
  BY <1>a, <1>1, <1>2 DEF AttachedInv, Counted, SameSite, At
<1> QED
  BY <1>a, <1>4, <1>5 DEF AttachedInv, OneAtATime, At

LEMMA AttachedInductive ==
  ASSUME MaxRunning = 1, TypeOK, AttachedInv, [Next]_vars
  PROVE  AttachedInv'
<1>1. ASSUME NEW p \in Procs, Materialize(p) \/ Abandon(p)
      PROVE  AttachedInv'
  <2>1. UNCHANGED <<cfg, recorded>> /\ Stop(p) /\ ~At(p, "idle") /\ Counted
    BY <1>1, CountedStep DEF Materialize, Abandon, At
  <2>2. At(p, "saveState") => proc[p].cmd = "scan"
    BY <1>1 DEF Materialize, Abandon, At
  <2> QED
    BY <2>1, <2>2, EndStep
<1>2. ASSUME NEW p \in Procs, Crash(p)
      PROVE  AttachedInv'
  <2>1. UNCHANGED <<cfg, recorded>> /\ Stop(p) /\ ~At(p, "idle") /\ Counted /\ faults' # 0
    BY <1>2, CountedStep DEF Crash, Fault, TypeOK
  <2> QED
    BY <2>1, EndStep
<1>3. ASSUME NEW p \in Procs, Advance(p) PROVE AttachedInv'
  BY <1>1, <1>3, AttachedLoads, AttachedAdds, AttachedSaves DEF Advance
<1> QED
  BY <1>1, <1>2, <1>3, AttachedStarts, AttachedBeside DEF Next

\* Commands that run one at a time leave the publication of pdg.yaml recorded in the
\* state, through every sequence of init, add, remove, configure and edits, unless a
\* fault cut one short; and then the state has none rather than another one, until
\* pdg.yaml has been changed too (internal/cli/integrations.go:99-142).
THEOREM SequentialAttached ==
  ASSUME MaxRunning = 1 PROVE Spec => []Attached
<1>1. Init => AttachedInv
  BY ConfigFacts
     DEF Init, AttachedInv, OneAtATime, At, Follows, Settled, Idle
<1>2. TypeOK /\ AttachedInv /\ [Next]_vars => AttachedInv'
  BY AttachedInductive
<1>3. TypeOK /\ AttachedInv => Attached
  BY DEF TypeOK, AttachedInv, Attached, Settled, At, Running, Conflict, Agrees
<1> QED
  BY <1>1, <1>2, <1>3, TypeCorrect, PTL DEF Spec

=============================================================================
