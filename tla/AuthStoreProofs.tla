---------------------------- MODULE AuthStoreProofs ----------------------------
(* Theorems about AuthStore, for every value of its constants.              *)
EXTENDS AuthStore, TLAPS, FiniteSetTheorems, SequenceTheorems, WellFoundedInduction

-----------------------------------------------------------------------------
(* The index.                                                              *)

\* An index whose active account is one it lists.
Sound(idx) == idx.active # None => idx.active \in Known(idx)

\* A set of accounts has a first one.
LEMMA SmallestIsLeast ==
  ASSUME NEW S \in SUBSET Dids, S # {}
  PROVE  Smallest(S) \in S /\ \A e \in S : Smallest(S) <= e
<1> DEFINE less == {ss \in Nat \X Nat : ss[1] < ss[2]}
<1>1. S \subseteq Nat
  BY AuthAssumption
<1>2. IsWellFoundedOn(less, Nat)
  BY NatLessThanWellFounded DEF OpToRel
<1> HIDE DEF less
<1>3. PICK d \in S : \A e \in S : ~(<<e, d>> \in less)
  BY <1>1, <1>2, WFMin
<1>4. \A e \in S : d <= e
  <2> SUFFICES ASSUME NEW e \in S PROVE d <= e
    OBVIOUS
  <2>1. <<e, d>> \in Nat \X Nat /\ ~(<<e, d>> \in less)
    BY <1>1, <1>3
  <2>2. ~(e < d)
    BY <2>1 DEF less
  <2> QED
    BY <1>1, <2>2
<1> QED
  BY <1>4 DEF Smallest

\* Forgetting an account leaves an index whose active account is known.
LEMMA WithoutKeepsActive ==
  ASSUME NEW idx \in Index, NEW d \in Dids
  PROVE  LET after == Without(idx, d)  IN
           /\ after \in Index
           /\ Known(after) = Known(idx) \ {d}
           /\ Sound(idx) => Sound(after)
<1> DEFINE left == Known(idx) \ {d}
           accounts == [idx.accounts EXCEPT ![d] = None]
           next == IF idx.active # d THEN idx.active
                   ELSE IF left = {} THEN None ELSE Smallest(left)
<1>1. left \in SUBSET Dids
  BY DEF Known
<1>2. next \in Dids \cup {None}
  BY <1>1, SmallestIsLeast DEF Index
<1>3. accounts \in [Dids -> Nat]
  BY DEF Index, None
<1>4. {e \in Dids : accounts[e] # None} = left
  BY DEF Index, Known
<1>5. Sound(idx) => (next # None => next \in left)
  BY <1>1, SmallestIsLeast DEF Sound
<1>6. Without(idx, d) = [active |-> next, accounts |-> accounts]
  BY DEF Without
<1> HIDE DEF left, accounts, next
<1> QED
  BY <1>2, <1>3, <1>4, <1>5, <1>6 DEF Index, Known, Sound, left

-----------------------------------------------------------------------------
(* Types.                                                                  *)

LEMMA NoIndexType == NoIndex \in Index /\ NoSession \in Session
BY DEF NoIndex, Index, NoSession, Session, None

LEMMA IdleFacts == Idle \in Process /\ Idle.pc = "idle" /\ Idle.copy = NoIndex
BY DEF Idle, Process

LEMMA RunningIsActive ==
  ASSUME TypeOK, NEW p \in Procs, ~At(p, "idle")
  PROVE  proc[p] \in Active
BY IdleFacts DEF TypeOK, Process, At

LEMMA BecomeType ==
  ASSUME proc \in [Procs -> Process], NEW p \in Procs, NEW q \in Process,
         Become(p, q)
  PROVE  proc' \in [Procs -> Process]
BY DEF Become

LEMMA StopType ==
  ASSUME TypeOK, NEW p \in Procs, Stop(p)
  PROVE  proc' \in [Procs -> Process]
BY IdleFacts, BecomeType DEF TypeOK, Stop

LEMMA ReturnType ==
  ASSUME TypeOK, NEW p \in Procs, ~At(p, "idle"), Return(p)
  PROVE  proc' \in [Procs -> Process]
<1>1. CASE proc[p].cmd = "publish" /\ proc[p].calls > 0
  <2> DEFINE calls == proc[p].calls - 1
             own == proc[p].own
  <2>1. calls \in Nat /\ own \in Session
    BY <1>1, RunningIsActive DEF Active
  <2>2. Become(p, [proc[p] EXCEPT !.pc = "send", !.calls = calls, !.session = own,
                                  !.refreshing = FALSE, !.nonce = FALSE,
                                  !.retried = FALSE, !.refreshed = FALSE])
    BY <1>1 DEF Return
  <2> HIDE DEF calls, own
  <2>3. [proc[p] EXCEPT !.pc = "send", !.calls = calls, !.session = own,
                        !.refreshing = FALSE, !.nonce = FALSE,
                        !.retried = FALSE, !.refreshed = FALSE] \in Process
    BY <2>1, RunningIsActive DEF Process, Active, Step
  <2> QED
    BY <2>2, <2>3, BecomeType DEF TypeOK
<1>2. CASE ~(proc[p].cmd = "publish" /\ proc[p].calls > 0)
  BY <1>2, StopType DEF Return
<1> QED
  BY <1>1, <1>2

LEMMA NoLoadType ==
  ASSUME TypeOK, NEW p \in Procs, ~At(p, "idle"), NoLoad(p)
  PROVE  proc' \in [Procs -> Process]
BY ReturnType, StopType DEF NoLoad

LEMMA GotoType ==
  ASSUME TypeOK, NEW p \in Procs, ~At(p, "idle"), NEW pc \in Step, Goto(p, pc)
  PROVE  proc' \in [Procs -> Process]
<1>1. [proc[p] EXCEPT !.pc = pc] \in Process
  BY RunningIsActive DEF Process, Active
<1> QED
  BY <1>1, BecomeType DEF TypeOK, Goto

LEMMA OverlapType ==
  ASSUME TypeOK, Overlap
  PROVE  faults' \in Nat
BY DEF TypeOK, Overlap, Fault

LEMMA FaultType ==
  ASSUME TypeOK, NEW kind, UNCHANGED faults \/ Fault(kind)
  PROVE  faults' \in Nat
BY DEF TypeOK, Fault

\* The copies a process makes of the index.
LEMMA CopyType ==
  ASSUME TypeOK, NEW p \in Procs, ~At(p, "idle")
  PROVE  /\ \A b \in BOOLEAN : Merged(p, b) \in Index
         /\ [index EXCEPT !.active = proc[p].did] \in Index
<1>1. proc[p].did \in Dids /\ proc[p].session.meta \in Nat
  BY RunningIsActive DEF Active, Session
<1> QED
  BY <1>1 DEF TypeOK, Merged, Index

LEMMA TypeInit == Init => TypeOK
<1>1. << >> \in Seq(Dids)
  OBVIOUS
<1> QED
  BY <1>1, IdleFacts, NoIndexType DEF Init, TypeOK, None

\* Starting a command.
LEMMA BeginType ==
  ASSUME TypeOK, NEW p \in Procs, NEW d \in Dids, Begin(p, d)
  PROVE  TypeOK'
<1>0. issued \in Seq(Dids)
  BY DEF TypeOK
<1>f. Fresh \in Nat /\ Append(issued, d) \in Seq(Dids)
  BY <1>0 DEF Fresh
<1>1. CASE BeginLogin(p, d)
  <2> DEFINE s == SessionOf(Fresh)
  <2>1. s \in Session
    BY <1>f DEF SessionOf, Session
  <2> HIDE DEF s
  <2>2. [Idle EXCEPT !.cmd = "login", !.did = d, !.pc = "previous", !.session = s]
          \in Process
    BY <2>1, NoIndexType DEF Process, Active, Idle, Command, Step, None
  <2>3. proc' \in [Procs -> Process]
    BY <1>1, <2>2, BecomeType DEF BeginLogin, TypeOK, s
  <2>4. issued' \in Seq(Dids)
    BY <1>1, <1>f DEF BeginLogin, Issue
  <2>5. live' \subseteq Nat
    BY <1>1, <1>f DEF BeginLogin, TypeOK
  <2>6. faults' \in Nat
    BY <1>1, FaultType, OverlapType DEF BeginLogin
  <2> QED
    BY <1>1, <2>3, <2>4, <2>5, <2>6 DEF BeginLogin, TypeOK
<1>2. ASSUME NEW cmd \in Command, NEW n \in Nat, BeginLoaded(p, cmd, d, n)
      PROVE  TypeOK'
  <2>1. [Idle EXCEPT !.cmd = cmd, !.did = d, !.pc = "load", !.calls = n] \in Process
    BY NoIndexType DEF Process, Active, Idle, Step, None
  <2> QED
    BY <1>2, <2>1, BecomeType, OverlapType DEF BeginLoaded, TypeOK
<1>3. CASE BeginRefresh(p, d)
  <2>1. [Idle EXCEPT !.cmd = "refresh", !.did = d, !.pc = "load", !.refreshing = TRUE]
          \in Process
    BY NoIndexType DEF Process, Active, Idle, Command, Step, None
  <2> QED
    BY <1>3, <2>1, BecomeType, OverlapType DEF BeginRefresh, TypeOK
<1>4. CASE BeginSwitch(p, d)
  <2>1. [Idle EXCEPT !.cmd = "switch", !.did = d, !.pc = "select"] \in Process
    BY NoIndexType DEF Process, Active, Idle, Command, Step, None
  <2> QED
    BY <1>4, <2>1, BecomeType, OverlapType DEF BeginSwitch, TypeOK
<1>5. CASE BeginLogout(p, d)
  BY <1>2, <1>5 DEF BeginLogout, Command
<1>6. CASE BeginPublish(p, d)
  <2>1. PICK n \in 0..MaxCalls - 1 : BeginLoaded(p, "publish", d, n)
    BY <1>6 DEF BeginPublish
  <2> QED
    BY <1>2, <2>1 DEF Command
<1> QED
  BY <1>1, <1>3, <1>4, <1>5, <1>6 DEF Begin

\* The steps in which a process makes a copy of the index.
LEMMA CopyStepType ==
  ASSUME TypeOK, NEW p \in Procs,
         MergeIndex(p) \/ SelectAccount(p) \/ FindAccount(p)
  PROVE  TypeOK'
<1>a. ~At(p, "idle")
  BY DEF MergeIndex, SelectAccount, FindAccount, At
<1>b. proc[p] \in Active /\ proc[p].did \in Dids
  BY <1>a, RunningIsActive DEF Active
<1>f. faults' \in Nat
  BY FaultType DEF MergeIndex, SelectAccount, FindAccount
<1>1. ASSUME NEW idx \in Index, NEW pc \in Step,
             Become(p, [proc[p] EXCEPT !.copy = idx, !.pc = pc])
      PROVE  proc' \in [Procs -> Process]
  <2>1. [proc[p] EXCEPT !.copy = idx, !.pc = pc] \in Process
    BY <1>b DEF Process, Active
  <2> QED
    BY <1>1, <2>1, BecomeType DEF TypeOK
<1>2. CASE MergeIndex(p)
  <2>1. Merged(p, proc[p].cmd = "login") \in Index
    BY <1>a, CopyType
  <2>2. ASSUME Become(p, [proc[p] EXCEPT !.copy = Merged(p, proc[p].cmd = "login"),
                                       !.pc = "write"])
      PROVE  proc' \in [Procs -> Process]
    BY <1>1, <2>1, <2>2 DEF Step
  <2>3. ASSUME Goto(p, "restore")
      PROVE  proc' \in [Procs -> Process]
    BY <1>a, <2>3, GotoType DEF Step
  <2> QED
    BY <1>2, <1>f, <2>2, <2>3 DEF MergeIndex, TypeOK
<1>3. CASE SelectAccount(p)
  <2> DEFINE idx == [index EXCEPT !.active = proc[p].did]
  <2>1. idx \in Index
    BY <1>a, CopyType
  <2> HIDE DEF idx
  <2>2. ASSUME Become(p, [proc[p] EXCEPT !.copy = idx, !.pc = "activate"])
      PROVE  proc' \in [Procs -> Process]
    BY <1>1, <2>1, <2>2 DEF Step
  <2>3. ASSUME Stop(p)
      PROVE  proc' \in [Procs -> Process]
    BY <2>3, StopType
  <2> QED
    BY <1>3, <1>f, <2>2, <2>3 DEF SelectAccount, TypeOK, idx
<1>4. CASE FindAccount(p)
  <2> DEFINE idx == Without(index, proc[p].did)
  <2>1. idx \in Index
    BY <1>b, WithoutKeepsActive DEF TypeOK
  <2> HIDE DEF idx
  <2>2. ASSUME Become(p, [proc[p] EXCEPT !.copy = idx, !.pc = "erase"])
      PROVE  proc' \in [Procs -> Process]
    BY <1>1, <2>1, <2>2 DEF Step
  <2>3. ASSUME Stop(p)
      PROVE  proc' \in [Procs -> Process]
    BY <2>3, StopType
  <2> QED
    BY <1>4, <1>f, <2>2, <2>3 DEF FindAccount, TypeOK, idx
<1> QED
  BY <1>2, <1>3, <1>4

\* The steps that write the keyring or the index.
LEMMA WriteStepType ==
  ASSUME TypeOK, NEW p \in Procs,
         \/ SaveSecrets(p) \/ WriteIndex(p) \/ Restore(p) \/ EraseSecrets(p)
         \/ Activate(p) \/ DropAccount(p)
  PROVE  TypeOK'
<1>a. ~At(p, "idle")
  BY DEF SaveSecrets, WriteIndex, Restore, EraseSecrets, Activate, DropAccount, Replace, At
<1>b. /\ proc[p] \in Active /\ proc[p].copy \in Index /\ proc[p].previous \in Nat
      /\ proc[p].session.secrets \in Nat
  BY <1>a, RunningIsActive DEF Active, Session
<1>f. faults' \in Nat
  BY FaultType
     DEF SaveSecrets, WriteIndex, Restore, EraseSecrets, Activate, DropAccount, Replace
<1>1. CASE SaveSecrets(p)
  <2>1. proc' \in [Procs -> Process]
    BY <1>a, <1>1, GotoType, ReturnType DEF SaveSecrets, Step
  <2>2. keyring' \in [Dids -> Nat]
    BY <1>b, <1>1 DEF SaveSecrets, TypeOK
  <2> QED
    BY <1>1, <1>f, <2>1, <2>2 DEF SaveSecrets, TypeOK
<1>2. CASE WriteIndex(p)
  <2>1. ASSUME Become(p, [proc[p] EXCEPT !.pc = "send", !.refreshing = FALSE,
                                         !.retried = FALSE, !.refreshed = TRUE])
        PROVE  proc' \in [Procs -> Process]
    <3>1. [proc[p] EXCEPT !.pc = "send", !.refreshing = FALSE,
                          !.retried = FALSE, !.refreshed = TRUE] \in Process
      BY <1>b DEF Process, Active, Step
    <3> QED
      BY <2>1, <3>1, BecomeType DEF TypeOK
  <2>2. proc' \in [Procs -> Process]
    BY <1>a, <1>2, <2>1, GotoType, ReturnType DEF WriteIndex, Step
  <2>3. index' \in Index
    BY <1>b, <1>2 DEF WriteIndex, TypeOK
  <2> QED
    BY <1>2, <1>f, <2>2, <2>3 DEF WriteIndex, TypeOK
<1>3. CASE Restore(p)
  <2>1. keyring' \in [Dids -> Nat]
    BY <1>b, <1>3 DEF Restore, TypeOK
  <2>2. proc' \in [Procs -> Process]
    BY <1>a, <1>3, ReturnType DEF Restore
  <2> QED
    BY <1>3, <1>f, <2>1, <2>2 DEF Restore, TypeOK
<1>4. CASE EraseSecrets(p)
  <2>1. keyring' \in [Dids -> Nat]
    BY <1>4 DEF EraseSecrets, TypeOK, None
  <2>2. proc' \in [Procs -> Process]
    BY <1>a, <1>4, GotoType, StopType DEF EraseSecrets, Step
  <2> QED
    BY <1>4, <1>f, <2>1, <2>2 DEF EraseSecrets, TypeOK
<1>5. CASE Activate(p) \/ DropAccount(p)
  <2>1. index' \in Index
    BY <1>b, <1>5 DEF Activate, DropAccount, Replace, TypeOK
  <2>2. proc' \in [Procs -> Process]
    BY <1>5, StopType DEF Activate, DropAccount, Replace
  <2> QED
    BY <1>5, <1>f, <2>1, <2>2 DEF Activate, DropAccount, Replace, TypeOK
<1> QED
  BY <1>1, <1>2, <1>3, <1>4, <1>5

\* Loading a session, and rotating it.
LEMMA SessionStepType ==
  ASSUME TypeOK, NEW p \in Procs,
         \/ LoadMetadata(p) \/ LoadSecrets(p) \/ FindPrevious(p) \/ Rotate(p) \/ RotateFails(p)
  PROVE  TypeOK'
<1>a. ~At(p, "idle")
  BY DEF LoadMetadata, LoadSecrets, FindPrevious, Rotate, RotateFails, At
<1>b. /\ proc[p] \in Active /\ proc[p].did \in Dids
      /\ proc[p].session \in Session /\ proc[p].own \in Session
  BY <1>a, RunningIsActive DEF Active
<1>f. faults' \in Nat
  BY FaultType DEF LoadMetadata, LoadSecrets, FindPrevious, Rotate, RotateFails
<1>1. ASSUME NEW s \in Session, NEW own \in Session, NEW pc \in Step,
             \/ Become(p, [proc[p] EXCEPT !.session = s, !.own = own, !.pc = pc])
             \/ Become(p, [proc[p] EXCEPT !.session = s, !.pc = pc])
             \/ Become(p, [proc[p] EXCEPT !.pc = pc, !.session = s])
      PROVE  proc' \in [Procs -> Process]
  <2>1. /\ [proc[p] EXCEPT !.session = s, !.own = own, !.pc = pc] \in Process
        /\ [proc[p] EXCEPT !.session = s, !.pc = pc] \in Process
        /\ [proc[p] EXCEPT !.pc = pc, !.session = s] \in Process
    BY <1>b DEF Process, Active
  <2> QED
    BY <1>1, <2>1, BecomeType DEF TypeOK
<1>2. CASE LoadMetadata(p)
  <2> DEFINE s == [secrets |-> None, meta |-> index.accounts[proc[p].did]]
  <2>1. s \in Session
    BY <1>b DEF TypeOK, Index, Session, None
  <2> HIDE DEF s
  <2>2. ASSUME Become(p, [proc[p] EXCEPT !.pc = "secrets", !.session = s])
        PROVE  proc' \in [Procs -> Process]
    BY <1>1, <1>b, <2>1, <2>2 DEF Step
  <2>3. proc' \in [Procs -> Process]
    BY <1>a, <1>2, <2>2, NoLoadType DEF LoadMetadata, s
  <2> QED
    BY <1>2, <1>f, <2>3 DEF LoadMetadata, TypeOK
<1>3. CASE LoadSecrets(p)
  <2> DEFINE s == [proc[p].session EXCEPT !.secrets = keyring[proc[p].did]]
             own == IF proc[p].refreshing THEN proc[p].own ELSE s
             pc == IF proc[p].refreshing THEN "rotate"
                   ELSE IF proc[p].cmd = "logout" THEN "remove" ELSE "send"
  <2>1. s \in Session
    BY <1>b DEF TypeOK, Session
  <2>2. pc \in Step
    BY DEF Step
  <2>3. own \in Session
    BY <1>b, <2>1
  <2>4. \/ Become(p, [proc[p] EXCEPT !.session = s, !.own = own, !.pc = pc])
        \/ NoLoad(p)
    BY <1>3 DEF LoadSecrets
  <2> HIDE DEF s, own, pc
  <2>5. proc' \in [Procs -> Process]
    BY <1>a, <1>1, <2>1, <2>2, <2>3, <2>4, NoLoadType
  <2> QED
    BY <1>3, <1>f, <2>5 DEF LoadSecrets, TypeOK
<1>4. CASE FindPrevious(p)
  <2>1. ASSUME NEW g \in Nat, Become(p, [proc[p] EXCEPT !.previous = g, !.pc = "save"])
        PROVE  proc' \in [Procs -> Process]
    <3>1. [proc[p] EXCEPT !.previous = g, !.pc = "save"] \in Process
      BY <1>b DEF Process, Active, Step
    <3> QED
      BY <2>1, <3>1, BecomeType DEF TypeOK
  <2>2. keyring[proc[p].did] \in Nat /\ None \in Nat
    BY <1>b DEF TypeOK, None
  <2>3. proc' \in [Procs -> Process]
    BY <1>4, <2>1, <2>2 DEF FindPrevious
  <2> QED
    BY <1>4, <1>f, <2>3 DEF FindPrevious, TypeOK
<1>5. CASE Rotate(p)
  <2> DEFINE s == SessionOf(Fresh)
  <2>0. issued \in Seq(Dids)
    BY DEF TypeOK
  <2>1. Fresh \in Nat /\ Append(issued, proc[p].did) \in Seq(Dids)
    BY <1>b, <2>0 DEF Fresh
  <2>2. s \in Session
    BY <2>1 DEF SessionOf, Session
  <2> HIDE DEF s
  <2>3. ASSUME Become(p, [proc[p] EXCEPT !.session = s, !.pc = "previous"])
        PROVE  proc' \in [Procs -> Process]
    BY <1>1, <1>b, <2>2, <2>3 DEF Step
  <2>4. proc' \in [Procs -> Process]
    BY <1>a, <1>5, <2>3, ReturnType DEF Rotate, s
  <2>5. live' \subseteq Nat /\ issued' \in Seq(Dids)
    BY <1>5, <2>1 DEF Rotate, Issue, TypeOK
  <2> QED
    BY <1>5, <1>f, <2>4, <2>5 DEF Rotate, TypeOK
<1>6. CASE RotateFails(p)
  BY <1>a, <1>6, ReturnType DEF RotateFails, TypeOK
<1> QED
  BY <1>2, <1>3, <1>4, <1>5, <1>6

\* The steps of a call.
LEMMA CallStepType ==
  ASSUME TypeOK, NEW p \in Procs,
         EndCall(p) \/ AcceptWithNonce(p) \/ Challenge(p) \/ Deny(p)
  PROVE  TypeOK'
<1>a. ~At(p, "idle")
  BY DEF EndCall, AcceptWithNonce, Challenge, Deny, Sending, At
<1>b. proc[p] \in Active
  BY <1>a, RunningIsActive
<1>1. CASE EndCall(p)
  BY <1>a, <1>1, ReturnType DEF EndCall, TypeOK
<1>2. CASE AcceptWithNonce(p)
  BY <1>a, <1>2, GotoType DEF AcceptWithNonce, TypeOK, Step
<1>3. CASE Challenge(p)
  <2> DEFINE nonce == ~proc[p].nonce
  <2>1. nonce \in BOOLEAN
    OBVIOUS
  <2>2. Become(p, [proc[p] EXCEPT !.nonce = nonce, !.retried = TRUE])
    BY <1>3 DEF Challenge
  <2> HIDE DEF nonce
  <2>3. [proc[p] EXCEPT !.nonce = nonce, !.retried = TRUE] \in Process
    BY <1>b, <2>1 DEF Process, Active
  <2> QED
    BY <1>3, <2>2, <2>3, BecomeType DEF Challenge, TypeOK
<1>4. CASE Deny(p)
  <2>1. [proc[p] EXCEPT !.refreshing = TRUE, !.pc = "load"] \in Process
    BY <1>b DEF Process, Active, Step
  <2> QED
    BY <1>4, <2>1, BecomeType DEF Deny, Fault, TypeOK
<1> QED
  BY <1>1, <1>2, <1>3, <1>4

LEMMA TypeStep == TypeOK /\ [Next]_vars => TypeOK'
<1> SUFFICES ASSUME TypeOK, [Next]_vars PROVE TypeOK'
  OBVIOUS
<1>1. ASSUME NEW p \in Procs, NEW d \in Dids, Begin(p, d)
      PROVE  TypeOK'
  BY <1>1, BeginType
<1>2. ASSUME NEW p \in Procs, Advance(p)
      PROVE  TypeOK'
  BY <1>2, CopyStepType, WriteStepType, SessionStepType, CallStepType DEF Advance
<1>3. ASSUME NEW p \in Procs, Crash(p)
      PROVE  TypeOK'
  BY <1>3, StopType, FaultType DEF Crash, TypeOK
<1>4. CASE Expire
  BY <1>4 DEF Expire, Grants, TypeOK
<1>5. CASE UNCHANGED vars
  BY <1>5 DEF vars, TypeOK
<1> QED
  BY <1>1, <1>2, <1>3, <1>4, <1>5 DEF Next

\* Type correctness.
THEOREM TypeCorrect == Spec => []TypeOK
BY TypeInit, TypeStep, PTL DEF Spec

-----------------------------------------------------------------------------
(* What a step does to processes.                                          *)

LEMMA BecomeOnly ==
  ASSUME TypeOK, NEW p \in Procs, NEW q, Become(p, q)
  PROVE  proc'[p] = q /\ \A o \in Procs \ {p} : proc'[o] = proc[o]
BY DEF TypeOK, Become

\* A call or a command that ends, or one that goes on as it is, takes nothing up.
LEMMA ReturnOnly ==
  ASSUME TypeOK, NEW p \in Procs, ~At(p, "idle"),
         \/ Return(p) \/ NoLoad(p) \/ Stop(p)
         \/ \E pc \in Step : Goto(p, pc)
  PROVE  /\ \A o \in Procs \ {p} : proc'[o] = proc[o]
         /\ \/ proc'[p] = Idle
            \/ /\ proc'[p].did = proc[p].did
               /\ proc'[p].copy = proc[p].copy
               /\ proc'[p].previous = proc[p].previous
               /\ proc'[p].own = proc[p].own
               /\ proc'[p].session \in {proc[p].session, proc[p].own}
<1>a. proc[p] \in Active
  BY RunningIsActive
<1>1. CASE Stop(p)
  BY <1>1, BecomeOnly DEF Stop
<1>2. CASE Return(p)
  <2> DEFINE q == [proc[p] EXCEPT !.pc = "send", !.calls = @ - 1,
                                  !.session = proc[p].own, !.refreshing = FALSE,
                                  !.nonce = FALSE,
                                  !.retried = FALSE, !.refreshed = FALSE]
  <2>1. /\ q.did = proc[p].did /\ q.copy = proc[p].copy /\ q.previous = proc[p].previous
        /\ q.own = proc[p].own /\ q.session = proc[p].own
    BY <1>a DEF Active
  <2>2. Stop(p) \/ Become(p, q)
    BY <1>2 DEF Return
  <2> HIDE DEF q
  <2> QED
    BY <1>1, <2>1, <2>2, BecomeOnly
<1>3. ASSUME NEW pc \in Step, Goto(p, pc)
      PROVE  /\ \A o \in Procs \ {p} : proc'[o] = proc[o]
             /\ /\ proc'[p].did = proc[p].did
                /\ proc'[p].copy = proc[p].copy
                /\ proc'[p].previous = proc[p].previous
                /\ proc'[p].own = proc[p].own
                /\ proc'[p].session = proc[p].session
  BY <1>3, <1>a, BecomeOnly DEF Goto, Active
<1>4. CASE NoLoad(p)
  BY <1>1, <1>2, <1>4 DEF NoLoad
<1>5. CASE \E pc \in Step : Goto(p, pc)
  BY <1>3, <1>5
<1> QED
  BY <1>1, <1>2, <1>4, <1>5

\* A process that has just begun to work for account d.
Begun(q, d) ==
  /\ q.did = d /\ q.copy = NoIndex /\ q.previous = None /\ q.own = NoSession
  /\ \/ /\ q.session = NoSession /\ q.pc = "load"
        /\ IF q.refreshing THEN q.cmd # "publish" ELSE q.cmd \in {"publish", "logout"}
     \/ q.session = NoSession /\ q.pc = "select" /\ q.cmd = "switch"
     \/ q.session = SessionOf(Fresh) /\ q.pc = "previous" /\ q.cmd = "login"

LEMMA BeginOnly ==
  ASSUME TypeOK, NEW p \in Procs, NEW d \in Dids, Begin(p, d)
  PROVE  /\ \A o \in Procs \ {p} : proc'[o] = proc[o]
         /\ proc'[p] = proc[p] \/ Begun(proc'[p], d)
<1>1. CASE BeginLogin(p, d)
  <2>1. CASE UNCHANGED proc
    BY <2>1
  <2>2. CASE Become(p, [Idle EXCEPT !.cmd = "login", !.did = d, !.pc = "previous",
                                    !.session = SessionOf(Fresh)])
    <3> DEFINE q == [Idle EXCEPT !.cmd = "login", !.did = d, !.pc = "previous",
                                 !.session = SessionOf(Fresh)]
    <3>1. Begun(q, d)
      BY DEF Idle, Begun
    <3> HIDE DEF q
    <3> QED
      BY <2>2, <3>1, BecomeOnly DEF q
  <2> QED
    BY <1>1, <2>1, <2>2 DEF BeginLogin
<1>2. ASSUME NEW cmd \in {"publish", "logout"}, NEW n, BeginLoaded(p, cmd, d, n)
      PROVE  /\ \A o \in Procs \ {p} : proc'[o] = proc[o]
             /\ Begun(proc'[p], d)
  <2> DEFINE q == [Idle EXCEPT !.cmd = cmd, !.did = d, !.pc = "load", !.calls = n]
  <2>1. Begun(q, d)
    BY DEF Idle, Begun
  <2>2. Become(p, q)
    BY <1>2 DEF BeginLoaded
  <2> HIDE DEF q
  <2> QED
    BY <2>1, <2>2, BecomeOnly
<1>3. CASE BeginRefresh(p, d)
  <2> DEFINE q == [Idle EXCEPT !.cmd = "refresh", !.did = d, !.pc = "load",
                               !.refreshing = TRUE]
  <2>1. Begun(q, d)
    BY DEF Idle, Begun
  <2>2. Become(p, q)
    BY <1>3 DEF BeginRefresh
  <2> HIDE DEF q
  <2> QED
    BY <2>1, <2>2, BecomeOnly
<1>4. CASE BeginSwitch(p, d)
  <2> DEFINE q == [Idle EXCEPT !.cmd = "switch", !.did = d, !.pc = "select"]
  <2>1. Begun(q, d)
    BY DEF Idle, Begun
  <2>2. Become(p, q)
    BY <1>4 DEF BeginSwitch
  <2> HIDE DEF q
  <2> QED
    BY <2>1, <2>2, BecomeOnly
<1> QED
  BY <1>1, <1>2, <1>3, <1>4 DEF Begin, BeginLogout, BeginPublish

\* The session a process works with has metadata, as has the one a publish
\* goes back to for its next call.
HasSession(q) ==
  /\ q.pc \in {"secrets", "rotate", "previous", "save", "merge", "write", "send"} =>
       q.session.meta # None
  /\ q.cmd = "publish" /\ (q.refreshing \/ q.pc \notin {"load", "secrets"}) =>
       q.own.meta # None

LEMMA IdleHasSession == HasSession(Idle)
BY DEF Idle, HasSession

\* A process that changes as a call does when it ends keeps what it needs.
LEMMA ReturnHasSession ==
  ASSUME TypeOK, NEW p \in Procs, ~At(p, "idle"), HasSession(proc[p]),
         \/ Return(p) /\ proc[p].pc \notin {"load", "secrets"}
         \/ NoLoad(p)
         \/ Stop(p)
  PROVE  HasSession(proc'[p])
<1>a. proc[p] \in Active
  BY RunningIsActive
<1>1. CASE Stop(p)
  BY <1>1, BecomeOnly, IdleHasSession DEF Stop
<1>2. ASSUME Return(p), proc[p].refreshing \/ proc[p].pc \notin {"load", "secrets"}
      PROVE  HasSession(proc'[p])
  <2> DEFINE q == [proc[p] EXCEPT !.pc = "send", !.calls = @ - 1,
                                  !.session = proc[p].own, !.refreshing = FALSE,
                                  !.nonce = FALSE,
                                  !.retried = FALSE, !.refreshed = FALSE]
  <2>1. q.pc = "send" /\ q.own = proc[p].own /\ q.session = proc[p].own
    BY <1>a DEF Active
  <2>2. Stop(p) \/ (proc[p].cmd = "publish" /\ Become(p, q))
    BY <1>2 DEF Return
  <2> HIDE DEF q
  <2>3. proc[p].cmd = "publish" => proc[p].own.meta # None
    BY <1>2 DEF HasSession
  <2>4. proc[p].cmd = "publish" => HasSession(q)
    BY <2>1, <2>3 DEF HasSession
  <2> QED
    BY <1>1, <2>2, <2>4, BecomeOnly
<1> QED
  BY <1>1, <1>2 DEF NoLoad

\* A step keeps what every process needs of its session.
LEMMA AdvanceHasSession ==
  ASSUME TypeOK, NEW p \in Procs, HasSession(proc[p]), Advance(p)
  PROVE  HasSession(proc'[p])
<1>a. ~At(p, "idle")
  BY DEF Advance, LoadMetadata, LoadSecrets, Rotate, RotateFails, FindPrevious,
         SaveSecrets, MergeIndex, WriteIndex, Restore, SelectAccount, Activate, FindAccount,
         EraseSecrets, DropAccount, Replace, EndCall, AcceptWithNonce, Challenge, Deny,
         Sending, At
<1>b. proc[p] \in Active
  BY <1>a, RunningIsActive
\* The session is kept, and so is what a publish was given.
<1>1. ASSUME NEW q, Become(p, q), q.cmd = proc[p].cmd,
             q.pc \in {"send", "previous", "save", "merge", "write"} =>
               q.session = proc[p].session
               /\ proc[p].pc \in {"previous", "save", "merge", "write", "send"},
             q.pc \notin {"secrets", "rotate"},
             q.own = proc[p].own,
             proc[p].pc \notin {"load", "secrets"}
      PROVE  HasSession(proc'[p])
  <2>1. proc'[p] = q
    BY <1>1, BecomeOnly
  <2> QED
    BY <1>1, <2>1 DEF HasSession
<1>2. ASSUME NEW pc, Goto(p, pc), pc \notin {"secrets", "rotate", "send"},
             pc \in {"previous", "save", "merge", "write"} =>
               proc[p].pc \in {"previous", "save", "merge", "write", "send"},
             proc[p].pc \notin {"load", "secrets"}
      PROVE  HasSession(proc'[p])
  <2> DEFINE q == [proc[p] EXCEPT !.pc = pc]
  <2>1. q.pc = pc /\ q.cmd = proc[p].cmd /\ q.own = proc[p].own /\ q.session = proc[p].session
    BY <1>b DEF Active
  <2>2. Become(p, q)
    BY <1>2 DEF Goto
  <2> HIDE DEF q
  <2> QED
    BY <1>1, <1>2, <2>1, <2>2
<1>3. CASE LoadMetadata(p)
  <2> DEFINE meta == index.accounts[proc[p].did]
             s == [secrets |-> None, meta |-> meta]
             q == [proc[p] EXCEPT !.pc = "secrets", !.session = s]
  <2>1. NoLoad(p) \/ Stop(p) \/ (meta # None /\ Become(p, q))
    BY <1>3 DEF LoadMetadata, Known
  <2>2. s.meta = meta
    OBVIOUS
  <2> HIDE DEF s, meta
  <2>3. /\ q.pc = "secrets" /\ q.session = s /\ q.own = proc[p].own
        /\ q.cmd = proc[p].cmd /\ q.refreshing = proc[p].refreshing
    BY <1>b DEF Active
  <2> HIDE DEF q
  <2>4. ASSUME meta # None, Become(p, q) PROVE HasSession(proc'[p])
    <3>1. proc'[p] = q
      BY <2>4, BecomeOnly
    <3>2. proc[p].pc = "load"
      BY <1>3 DEF LoadMetadata, At
    <3> QED
      BY <2>2, <2>3, <2>4, <3>1, <3>2 DEF HasSession
  <2> QED
    BY <1>a, <2>1, <2>4, ReturnHasSession
<1>4. CASE LoadSecrets(p)
  <2> DEFINE s == [proc[p].session EXCEPT !.secrets = keyring[proc[p].did]]
             own == IF proc[p].refreshing THEN proc[p].own ELSE s
             pc == IF proc[p].refreshing THEN "rotate"
                   ELSE IF proc[p].cmd = "logout" THEN "remove" ELSE "send"
             q == [proc[p] EXCEPT !.session = s, !.own = own, !.pc = pc]
  <2>1. Become(p, q) \/ NoLoad(p)
    BY <1>4 DEF LoadSecrets
  <2>2. s.meta = proc[p].session.meta
    BY <1>b DEF Active, Session
  <2>3. own = IF proc[p].refreshing THEN proc[p].own ELSE s
    OBVIOUS
  <2> HIDE DEF s, own, pc
  <2>4. /\ q.session = s /\ q.own = own
        /\ q.cmd = proc[p].cmd /\ q.refreshing = proc[p].refreshing
    BY <1>b DEF Active
  <2> HIDE DEF q
  <2>5. proc[p].pc = "secrets"
    BY <1>4 DEF LoadSecrets, At
  <2>6. ASSUME Become(p, q) PROVE HasSession(proc'[p])
    <3>1. proc'[p] = q
      BY <2>6, BecomeOnly
    <3> QED
      BY <2>2, <2>3, <2>4, <2>5, <3>1 DEF HasSession
  <2> QED
    BY <1>a, <2>1, <2>6, ReturnHasSession
<1>5. CASE Rotate(p)
  <2> DEFINE s == SessionOf(Fresh)
             q == [proc[p] EXCEPT !.session = s, !.pc = "previous"]
  <2>1. (Become(p, q) \/ Return(p)) /\ proc[p].pc = "rotate"
    BY <1>5 DEF Rotate, At
  <2>2. s.meta # None
    BY LenProperties DEF SessionOf, Fresh, None, TypeOK
  <2> HIDE DEF s
  <2>3. /\ q.session = s /\ q.own = proc[p].own /\ q.pc = "previous"
        /\ q.cmd = proc[p].cmd /\ q.refreshing = proc[p].refreshing
    BY <1>b DEF Active
  <2> HIDE DEF q
  <2>4. ASSUME Become(p, q) PROVE HasSession(proc'[p])
    <3>1. proc'[p] = q
      BY <2>4, BecomeOnly
    <3> QED
      BY <2>1, <2>2, <2>3, <3>1 DEF HasSession
  <2> QED
    BY <1>a, <2>1, <2>4, ReturnHasSession
<1>6. CASE FindPrevious(p)
  <2>1. \A g : LET q == [proc[p] EXCEPT !.previous = g, !.pc = "save"]  IN
          q.pc = "save" /\ q.cmd = proc[p].cmd /\ q.own = proc[p].own
          /\ q.session = proc[p].session
    BY <1>b DEF Active
  <2> QED
    BY <1>1, <1>6, <2>1 DEF FindPrevious, At
<1>7. CASE MergeIndex(p)
  <2>1. \A g : LET q == [proc[p] EXCEPT !.copy = g, !.pc = "write"]  IN
          q.pc = "write" /\ q.cmd = proc[p].cmd /\ q.own = proc[p].own
          /\ q.session = proc[p].session
    BY <1>b DEF Active
  <2>2. proc[p].pc = "merge"
    BY <1>7 DEF MergeIndex, At
  <2>3. Goto(p, "restore") \/ \E g : Become(p, [proc[p] EXCEPT !.copy = g, !.pc = "write"])
    BY <1>7 DEF MergeIndex
  <2> QED
    BY <1>1, <1>2, <2>1, <2>2, <2>3
<1>8. CASE WriteIndex(p)
  <2> DEFINE q == [proc[p] EXCEPT !.pc = "send", !.refreshing = FALSE,
                                  !.retried = FALSE, !.refreshed = TRUE]
  <2>1. /\ q.pc = "send" /\ q.cmd = proc[p].cmd /\ q.own = proc[p].own
        /\ q.session = proc[p].session
    BY <1>b DEF Active
  <2>2. proc[p].pc = "write"
    BY <1>8 DEF WriteIndex, At
  <2>3. Goto(p, "restore") \/ Return(p) \/ Become(p, q)
    BY <1>8 DEF WriteIndex
  <2> HIDE DEF q
  <2> QED
    BY <1>a, <1>1, <1>2, <2>1, <2>2, <2>3, ReturnHasSession
<1>9. CASE Challenge(p)
  <2> DEFINE q == [proc[p] EXCEPT !.nonce = ~@, !.retried = TRUE]
  <2>1. /\ q.pc = proc[p].pc /\ q.cmd = proc[p].cmd /\ q.own = proc[p].own
        /\ q.session = proc[p].session
    BY <1>b DEF Active
  <2> QED
    BY <1>1, <1>9, <2>1 DEF Challenge, Sending, At
<1>10. CASE Deny(p)
  <2> DEFINE q == [proc[p] EXCEPT !.refreshing = TRUE, !.pc = "load"]
  <2>1. q.pc = "load" /\ q.cmd = proc[p].cmd /\ q.own = proc[p].own
    BY <1>b DEF Active
  <2> QED
    BY <1>1, <1>10, <2>1 DEF Deny, Sending, At
<1>11. CASE SelectAccount(p) \/ FindAccount(p)
  <2>1. \A g : \A pc \in {"activate", "erase"} :
          LET q == [proc[p] EXCEPT !.copy = g, !.pc = pc]  IN
            q.pc = pc /\ q.cmd = proc[p].cmd /\ q.own = proc[p].own
    BY <1>b DEF Active
  <2>2. proc[p].pc \in {"select", "remove"}
    BY <1>11 DEF SelectAccount, FindAccount, At
  <2>3. \/ Stop(p)
        \/ \E g : \E pc \in {"activate", "erase"} :
             Become(p, [proc[p] EXCEPT !.copy = g, !.pc = pc])
    BY <1>11 DEF SelectAccount, FindAccount
  <2>4. ASSUME NEW g, NEW pc \in {"activate", "erase"},
               Become(p, [proc[p] EXCEPT !.copy = g, !.pc = pc])
        PROVE  HasSession(proc'[p])
    BY <1>1, <2>1, <2>2, <2>4
  <2> QED
    BY <1>a, <2>3, <2>4, ReturnHasSession
<1>12. CASE RotateFails(p) \/ Restore(p) \/ Activate(p) \/ DropAccount(p) \/ EndCall(p)
  <2>1. (Return(p) /\ proc[p].pc \notin {"load", "secrets"}) \/ Stop(p)
    BY <1>12 DEF RotateFails, Restore, Activate, DropAccount, Replace, EndCall, Sending, At
  <2> QED
    BY <1>a, <2>1, ReturnHasSession
<1>13. CASE SaveSecrets(p)
  BY <1>a, <1>2, <1>13, ReturnHasSession DEF SaveSecrets, At
<1>14. CASE EraseSecrets(p)
  BY <1>a, <1>2, <1>14, ReturnHasSession DEF EraseSecrets, At
<1>15. CASE AcceptWithNonce(p)
  BY <1>2, <1>15 DEF AcceptWithNonce, Sending, At
<1> QED
  BY <1>3, <1>4, <1>5, <1>6, <1>7, <1>8, <1>9, <1>10, <1>11, <1>12, <1>13, <1>14, <1>15
     DEF Advance

Sessions == \A p \in Procs : HasSession(proc[p])

\* A process changes nothing of the others.
LEMMA AdvanceOthers ==
  ASSUME TypeOK, NEW p \in Procs, Advance(p)
  PROVE  \A o \in Procs \ {p} : proc'[o] = proc[o]
BY BecomeOnly
   DEF Advance, LoadMetadata, LoadSecrets, Rotate, RotateFails, FindPrevious,
       SaveSecrets, MergeIndex, WriteIndex, Restore, SelectAccount, Activate, FindAccount,
       EraseSecrets, DropAccount, Replace, EndCall, AcceptWithNonce, Challenge, Deny,
       NoLoad, Return, Goto, Stop

\* A step that one process takes leaves the others alone.
LEMMA OthersKept ==
  ASSUME TypeOK, [Next]_vars
  PROVE  \/ UNCHANGED proc /\ UNCHANGED index
         \/ \E p \in Procs :
              /\ \A o \in Procs \ {p} : proc'[o] = proc[o]
              /\ Advance(p) \/ (\E d \in Dids : Begin(p, d)) \/ Crash(p)
<1>1. ASSUME NEW p \in Procs, Crash(p) PROVE \A o \in Procs \ {p} : proc'[o] = proc[o]
  BY <1>1, BecomeOnly DEF Crash, Stop
<1> QED
  BY <1>1, AdvanceOthers, BeginOnly DEF Next, vars, Expire

LEMMA SessionsInit == Init => Sessions
BY IdleHasSession DEF Init, Sessions

LEMMA SessionsStep == TypeOK /\ Sessions /\ [Next]_vars => Sessions'
<1> SUFFICES ASSUME TypeOK, Sessions, [Next]_vars PROVE Sessions'
  OBVIOUS
<1>1. CASE UNCHANGED proc
  BY <1>1 DEF Sessions
<1>2. ASSUME NEW p \in Procs, \A o \in Procs \ {p} : proc'[o] = proc[o],
             HasSession(proc'[p])
      PROVE  Sessions'
  BY <1>2 DEF Sessions
<1>3. ASSUME NEW p \in Procs, Crash(p) PROVE HasSession(proc'[p])
  BY <1>3, BecomeOnly, IdleHasSession DEF Crash, Stop
<1>4. ASSUME NEW p \in Procs, NEW d \in Dids, Begin(p, d) PROVE HasSession(proc'[p])
  <2>1. Fresh # None
    BY LenProperties DEF Fresh, None, TypeOK
  <2>2. ASSUME Begun(proc'[p], d) PROVE HasSession(proc'[p])
    BY <2>1, <2>2 DEF Begun, HasSession, SessionOf
  <2> QED
    BY <1>4, <2>2, BeginOnly DEF Sessions
<1>5. ASSUME NEW p \in Procs, Advance(p) PROVE HasSession(proc'[p])
  BY <1>5, AdvanceHasSession DEF Sessions
<1> QED
  BY <1>1, <1>2, <1>3, <1>4, <1>5, OthersKept

-----------------------------------------------------------------------------
(* The active account.                                                     *)

\* What a step may make the copy of process p.
NextCopy(p) ==
  \/ proc'[p].copy \in {proc[p].copy, NoIndex}
  \/ /\ At(p, "merge") /\ proc[p].did \in Dids
     /\ \E b \in BOOLEAN : proc'[p].copy = Merged(p, b)
  \/ /\ proc[p].did \in Dids
     /\ proc'[p].copy = Without(index, proc[p].did)
  \/ /\ proc[p].did \in Known(index)
     /\ proc'[p].copy = [index EXCEPT !.active = proc[p].did]

LEMMA BeginCopies ==
  ASSUME TypeOK, NEW p \in Procs, NEW d \in Dids, Begin(p, d)
  PROVE  UNCHANGED index /\ \A o \in Procs : NextCopy(o)
<1>1. UNCHANGED index
  BY DEF Begin, BeginLogin, BeginRefresh, BeginSwitch, BeginLogout, BeginPublish, BeginLoaded
<1>2. proc'[p].copy \in {proc[p].copy, NoIndex}
  BY BeginOnly DEF Begun, Idle
<1> QED
  BY <1>1, <1>2, BeginOnly DEF NextCopy

\* In every step the copies are old ones or made from the index, and the index
\* is the old one or a copy.
LEMMA AdvanceCopies ==
  ASSUME TypeOK, NEW p \in Procs, Advance(p)
  PROVE  /\ index' = index \/ index' = proc[p].copy
         /\ \A o \in Procs : NextCopy(o)
<1>a. ~At(p, "idle")
  BY DEF Advance, LoadMetadata, LoadSecrets, Rotate, RotateFails, FindPrevious,
         SaveSecrets, MergeIndex, WriteIndex, Restore, SelectAccount, Activate, FindAccount,
         EraseSecrets, DropAccount, Replace, EndCall, AcceptWithNonce, Challenge, Deny,
         Sending, At
<1>b. proc[p] \in Active /\ proc[p].did \in Dids
  BY <1>a, RunningIsActive DEF Active
<1>1. index' = index \/ index' = proc[p].copy
  BY DEF Advance, LoadMetadata, LoadSecrets, Rotate, RotateFails, FindPrevious,
         SaveSecrets, MergeIndex, WriteIndex, Restore, SelectAccount, Activate, FindAccount,
         EraseSecrets, DropAccount, Replace, EndCall, AcceptWithNonce, Challenge, Deny
<1>2. ASSUME NEW q, Become(p, q), q.copy = proc[p].copy
      PROVE  \A o \in Procs : NextCopy(o)
  BY <1>2, BecomeOnly DEF NextCopy
<1>3. ASSUME \/ Return(p) \/ NoLoad(p) \/ Stop(p)
             \/ \E pc \in Step : Goto(p, pc)
      PROVE  \A o \in Procs : NextCopy(o)
  BY <1>3, <1>a, ReturnOnly, IdleFacts DEF NextCopy
<1>4. CASE LoadMetadata(p)
  <2>1. [proc[p] EXCEPT
           !.pc = "secrets",
           !.session = [secrets |-> None, meta |-> index.accounts[proc[p].did]]].copy
          = proc[p].copy
    BY <1>b DEF Active
  <2> QED
    BY <1>1, <1>2, <1>3, <1>4, <2>1 DEF LoadMetadata
<1>5. CASE LoadSecrets(p)
  <2> DEFINE s == [proc[p].session EXCEPT !.secrets = keyring[proc[p].did]]
             own == IF proc[p].refreshing THEN proc[p].own ELSE s
             pc == IF proc[p].refreshing THEN "rotate"
                   ELSE IF proc[p].cmd = "logout" THEN "remove" ELSE "send"
  <2>1. \/ Become(p, [proc[p] EXCEPT !.session = s, !.own = own, !.pc = pc])
        \/ NoLoad(p)
    BY <1>5 DEF LoadSecrets
  <2> HIDE DEF s, own, pc
  <2>2. [proc[p] EXCEPT !.session = s, !.own = own, !.pc = pc].copy = proc[p].copy
    BY <1>b DEF Active
  <2> QED
    BY <1>1, <1>2, <1>3, <2>1, <2>2
<1>6. CASE Rotate(p)
  <2>1. [proc[p] EXCEPT !.session = SessionOf(Fresh), !.pc = "previous"].copy = proc[p].copy
    BY <1>b DEF Active
  <2> QED
    BY <1>1, <1>2, <1>3, <1>6, <2>1 DEF Rotate
<1>7. CASE FindPrevious(p)
  <2>1. \A g : [proc[p] EXCEPT !.previous = g, !.pc = "save"].copy = proc[p].copy
    BY <1>b DEF Active
  <2> QED
    BY <1>1, <1>2, <1>7, <2>1 DEF FindPrevious
<1>8. CASE WriteIndex(p)
  <2>1. [proc[p] EXCEPT !.pc = "send", !.refreshing = FALSE,
                        !.retried = FALSE, !.refreshed = TRUE].copy = proc[p].copy
    BY <1>b DEF Active
  <2> QED
    BY <1>1, <1>2, <1>3, <1>8, <2>1 DEF WriteIndex, Step
<1>9. CASE Challenge(p)
  <2>1. [proc[p] EXCEPT !.nonce = ~@, !.retried = TRUE].copy = proc[p].copy
    BY <1>b DEF Active
  <2> QED
    BY <1>1, <1>2, <1>9, <2>1 DEF Challenge
<1>10. CASE Deny(p)
  <2>1. [proc[p] EXCEPT !.refreshing = TRUE, !.pc = "load"].copy = proc[p].copy
    BY <1>b DEF Active
  <2> QED
    BY <1>1, <1>2, <1>10, <2>1 DEF Deny
<1>11. ASSUME NEW idx, NEW pc, Become(p, [proc[p] EXCEPT !.copy = idx, !.pc = pc])
       PROVE  proc'[p].copy = idx /\ \A o \in Procs \ {p} : proc'[o] = proc[o]
  BY <1>11, <1>b, BecomeOnly DEF Active
<1>12. CASE MergeIndex(p)
  <2> DEFINE b == proc[p].cmd = "login"
  <2>1. b \in BOOLEAN
    OBVIOUS
  <2>2. Become(p, [proc[p] EXCEPT !.copy = Merged(p, b), !.pc = "write"])
          \/ Goto(p, "restore")
    BY <1>12 DEF MergeIndex
  <2> HIDE DEF b
  <2>3. CASE Become(p, [proc[p] EXCEPT !.copy = Merged(p, b), !.pc = "write"])
    <3>1. proc'[p].copy = Merged(p, b) /\ \A o \in Procs \ {p} : proc'[o] = proc[o]
      BY <1>11, <2>3
    <3>2. \A o \in Procs : NextCopy(o)
      BY <1>b, <1>12, <2>1, <3>1 DEF NextCopy, MergeIndex
    <3> QED
      BY <1>1, <3>2
  <2> QED
    BY <1>1, <1>3, <2>2, <2>3 DEF Step
<1>13. CASE SelectAccount(p)
  <2> DEFINE idx == [index EXCEPT !.active = proc[p].did]
  <2>1. ASSUME Become(p, [proc[p] EXCEPT !.copy = idx, !.pc = "activate"]),
               proc[p].did \in Known(index)
        PROVE  \A o \in Procs : NextCopy(o)
    <3> HIDE DEF idx
    <3>1. proc'[p].copy = idx /\ \A o \in Procs \ {p} : proc'[o] = proc[o]
      BY <1>11, <2>1
    <3> QED
      BY <2>1, <3>1 DEF NextCopy, idx
  <2> QED
    BY <1>1, <1>3, <1>13, <2>1 DEF SelectAccount
<1>14. CASE FindAccount(p)
  <2> DEFINE idx == Without(index, proc[p].did)
  <2>1. ASSUME Become(p, [proc[p] EXCEPT !.copy = idx, !.pc = "erase"])
        PROVE  \A o \in Procs : NextCopy(o)
    <3> HIDE DEF idx
    <3>1. proc'[p].copy = idx /\ \A o \in Procs \ {p} : proc'[o] = proc[o]
      BY <1>11, <2>1
    <3> QED
      BY <1>b, <3>1 DEF NextCopy, idx
  <2> QED
    BY <1>1, <1>3, <1>14, <2>1 DEF FindAccount
<1>15. CASE \/ RotateFails(p) \/ SaveSecrets(p) \/ Restore(p) \/ Activate(p)
            \/ EraseSecrets(p) \/ DropAccount(p) \/ EndCall(p) \/ AcceptWithNonce(p)
  <2>1. Return(p) \/ Stop(p) \/ \E pc \in Step : Goto(p, pc)
    BY <1>15 DEF RotateFails, SaveSecrets, Restore, Activate, EraseSecrets, DropAccount,
                 Replace, EndCall, AcceptWithNonce, Step
  <2> QED
    BY <1>1, <1>3, <2>1
<1> QED
  BY <1>1, <1>4, <1>5, <1>6, <1>7, <1>8, <1>9, <1>10, <1>12, <1>13, <1>14, <1>15 DEF Advance

LEMMA ActiveInit == Init => ActiveIsKnown
BY IdleFacts DEF Init, ActiveIsKnown, NoIndex

LEMMA ActiveStep == TypeOK /\ Sessions /\ ActiveIsKnown /\ [Next]_vars => ActiveIsKnown'
<1> SUFFICES ASSUME TypeOK, Sessions, ActiveIsKnown, [Next]_vars PROVE ActiveIsKnown'
  OBVIOUS
<1>1. Sound(index) /\ \A p \in Procs : Sound(proc[p].copy)
  BY DEF ActiveIsKnown, Sound
<1>2. ASSUME NEW p \in Procs, NextCopy(p)
      PROVE  Sound(proc'[p].copy)
  <2>1. index \in Index
    BY DEF TypeOK
  <2>2. CASE proc'[p].copy \in {proc[p].copy, NoIndex}
    BY <1>1, <2>2 DEF Sound, NoIndex
  <2>3. ASSUME NEW b \in BOOLEAN, At(p, "merge"), proc[p].did \in Dids,
               proc'[p].copy = Merged(p, b)
        PROVE  Sound(proc'[p].copy)
    <3>1. proc[p].session.meta # None
      BY <2>3 DEF Sessions, HasSession, At
    <3>2. Known(index) \subseteq Known(Merged(p, b)) /\ proc[p].did \in Known(Merged(p, b))
      BY <2>1, <2>3, <3>1 DEF Merged, Known, Index
    <3>3. Merged(p, b).active \in {proc[p].did, index.active}
      BY DEF Merged
    <3> QED
      BY <1>1, <2>3, <3>2, <3>3 DEF Sound
  <2>4. CASE proc[p].did \in Dids /\ proc'[p].copy = Without(index, proc[p].did)
    BY <1>1, <2>1, <2>4, WithoutKeepsActive
  <2>5. CASE /\ proc[p].did \in Known(index)
             /\ proc'[p].copy = [index EXCEPT !.active = proc[p].did]
    BY <2>1, <2>5 DEF Sound, Known, Index
  <2> QED
    BY <1>2, <2>2, <2>3, <2>4, <2>5 DEF NextCopy
<1>3. ASSUME \A p \in Procs : NextCopy(p),
             index' = index \/ \E p \in Procs : index' = proc[p].copy
      PROVE  ActiveIsKnown'
  <2>1. Sound(index')
    BY <1>1, <1>3
  <2>2. \A p \in Procs : Sound(proc'[p].copy)
    BY <1>2, <1>3
  <2> QED
    BY <2>1, <2>2 DEF ActiveIsKnown, Sound, Known
<1>4. ASSUME NEW p \in Procs, Crash(p)
      PROVE  ActiveIsKnown'
  <2>1. UNCHANGED index /\ Become(p, Idle)
    BY <1>4 DEF Crash, Stop
  <2> QED
    BY <1>3, <2>1, BecomeOnly, IdleFacts DEF NextCopy
<1>5. CASE UNCHANGED proc /\ UNCHANGED index
  BY <1>3, <1>5 DEF NextCopy
<1> QED
  BY <1>3, <1>4, <1>5, OthersKept, BeginCopies, AdvanceCopies

\* The active account is one the index lists, however many commands run
\* together and whatever fails: no stale copy of the index can undo it
\* (internal/sessionstore/store.go:160, 253, 272).
THEOREM ActiveAlwaysKnown == Spec => []ActiveIsKnown
<1>1. TypeOK /\ Sessions /\ ActiveIsKnown /\ [Next]_vars => (TypeOK /\ Sessions /\ ActiveIsKnown)'
  BY TypeStep, SessionsStep, ActiveStep
<1> QED
  BY <1>1, TypeInit, SessionsInit, ActiveInit, PTL DEF Spec

-----------------------------------------------------------------------------
(* Whose grants are where.                                                 *)

\* Owned, with the list of grants as a parameter: the proof relates two lists.
OwnedIn(list, g, d) == g # None => g \in 1..Len(list) /\ list[g] = d

\* The grants a process works with.
Carried(q) ==
  {q.session.secrets, q.session.meta, q.previous, q.own.secrets, q.own.meta}

\* A process works with grants of its own account.
Honest(list, q) == \A g \in Carried(q) : OwnedIn(list, g, q.did)

OwnAccounts(list, idx) == \A d \in Dids : OwnedIn(list, idx.accounts[d], d)

LEMMA GrantsAreOwnIs ==
  GrantsAreOwn <=> /\ \A d \in Dids : OwnedIn(issued, keyring[d], d)
                   /\ OwnAccounts(issued, index)
                   /\ \A p \in Procs : /\ OwnAccounts(issued, proc[p].copy)
                                       /\ Honest(issued, proc[p])
BY DEF GrantsAreOwn, Owned, OwnedIn, Grants, OwnAccounts, Honest, Carried

\* The same formula of the next state.
LEMMA GrantsAreOwnNext ==
  ASSUME \A d \in Dids : OwnedIn(issued', keyring'[d], d),
         OwnAccounts(issued', index'),
         \A p \in Procs : OwnAccounts(issued', proc'[p].copy) /\ Honest(issued', proc'[p])
  PROVE  GrantsAreOwn'
BY DEF GrantsAreOwn, Owned, OwnedIn, Grants, OwnAccounts, Honest, Carried

\* Issuing one more grant takes none away.
LEMMA OwnedGrows ==
  ASSUME NEW list \in Seq(Dids), NEW d \in Dids
  PROVE  /\ \A g, e : OwnedIn(list, g, e) => OwnedIn(Append(list, d), g, e)
         /\ OwnedIn(Append(list, d), Len(list) + 1, d)
<1>1. Len(list) \in Nat /\ Len(Append(list, d)) = Len(list) + 1
  BY LenProperties, AppendProperties
<1>2. \A i \in 1..Len(list) : Append(list, d)[i] = list[i]
  BY AppendProperties
<1>3. Append(list, d)[Len(list) + 1] = d
  BY AppendProperties
<1> QED
  BY <1>1, <1>2, <1>3 DEF OwnedIn

\* A step issues no grant or one.
LEMMA IssuedGrows ==
  ASSUME TypeOK, [Next]_vars
  PROVE  \A g, e : OwnedIn(issued, g, e) => OwnedIn(issued', g, e)
<1>1. issued' = issued \/ \E d \in Dids : issued' = Append(issued, d)
  <2>1. ASSUME NEW p \in Procs, NEW d \in Dids, Begin(p, d)
        PROVE  issued' = issued \/ issued' = Append(issued, d)
    BY <2>1 DEF Begin, BeginLogin, BeginRefresh, BeginSwitch, BeginLogout, BeginPublish,
                BeginLoaded, Issue
  <2>2. ASSUME NEW p \in Procs, Advance(p)
        PROVE  issued' = issued \/ \E d \in Dids : issued' = Append(issued, d)
    <3>1. CASE Rotate(p)
      <4>1. proc[p] \in Active
        BY <3>1, RunningIsActive DEF Rotate, At
      <4> QED
        BY <3>1, <4>1 DEF Rotate, Issue, Active
    <3>2. CASE ~Rotate(p)
      BY <2>2, <3>2
         DEF Advance, LoadMetadata, LoadSecrets, RotateFails, FindPrevious, SaveSecrets,
             MergeIndex, WriteIndex, Restore, SelectAccount, Activate, FindAccount,
             EraseSecrets, DropAccount, Replace, EndCall, AcceptWithNonce, Challenge, Deny
    <3> QED
      BY <3>1, <3>2
  <2> QED
    BY <2>1, <2>2 DEF Next, vars, Crash, Expire
<1> QED
  BY <1>1, OwnedGrows DEF TypeOK

\* What an action puts into the keyring, and what a process takes up, was
\* issued to the account the process works for.
LEMMA AdvanceHonest ==
  ASSUME TypeOK, GrantsAreOwn, NEW p \in Procs, Advance(p),
         \A g, e : OwnedIn(issued, g, e) => OwnedIn(issued', g, e)
  PROVE  /\ Honest(issued', proc'[p])
         /\ \A d \in Dids : OwnedIn(issued', keyring'[d], d)
<1> DEFINE did == proc[p].did
           Fine(g) == OwnedIn(issued', g, did)
<1>a. ~At(p, "idle")
  BY DEF Advance, LoadMetadata, LoadSecrets, Rotate, RotateFails, FindPrevious,
         SaveSecrets, MergeIndex, WriteIndex, Restore, SelectAccount, Activate, FindAccount,
         EraseSecrets, DropAccount, Replace, EndCall, AcceptWithNonce, Challenge, Deny,
         Sending, At
<1>b. proc[p] \in Active /\ did \in Dids
  BY <1>a, RunningIsActive DEF Active
<1>c. /\ Fine(proc[p].session.secrets) /\ Fine(proc[p].session.meta)
      /\ Fine(proc[p].own.secrets) /\ Fine(proc[p].own.meta) /\ Fine(proc[p].previous)
  BY GrantsAreOwnIs DEF Honest, Carried
<1>d. Fine(keyring[did]) /\ Fine(index.accounts[did]) /\ Fine(None)
  <2>1. Fine(keyring[did]) /\ Fine(index.accounts[did])
    BY <1>b, GrantsAreOwnIs DEF OwnAccounts
  <2>2. Fine(None)
    BY DEF OwnedIn
  <2> QED
    BY <2>1, <2>2
<1>e. \A d \in Dids : OwnedIn(issued', keyring[d], d)
  BY GrantsAreOwnIs
\* The keyring is kept, or gets a grant of the account.
<1>1. \A d \in Dids : OwnedIn(issued', keyring'[d], d)
  <2>1. \/ UNCHANGED keyring
        \/ \E g : Fine(g) /\ keyring' = [keyring EXCEPT ![did] = g]
    BY <1>c, <1>d
       DEF Advance, LoadMetadata, LoadSecrets, Rotate, RotateFails, FindPrevious,
           SaveSecrets, MergeIndex, WriteIndex, Restore, SelectAccount, Activate,
           FindAccount, EraseSecrets, DropAccount, Replace, EndCall, AcceptWithNonce,
           Challenge, Deny
  <2> QED
    BY <1>e, <2>1 DEF TypeOK
<1> SUFFICES Honest(issued', proc'[p])
  BY <1>1
<1>2. ASSUME NEW q, Become(p, q), q.did = did,
             Fine(q.session.secrets), Fine(q.session.meta),
             q.own = proc[p].own \/ q.own = q.session, Fine(q.previous)
      PROVE  Honest(issued', proc'[p])
  BY <1>2, <1>c, BecomeOnly DEF Honest, Carried
<1>3. ASSUME Return(p) \/ NoLoad(p) \/ Stop(p) \/ \E pc \in Step : Goto(p, pc)
      PROVE  Honest(issued', proc'[p])
  <2>1. CASE proc'[p] = Idle
    BY <2>1 DEF Idle, Honest, Carried, OwnedIn, NoSession
  <2>2. CASE /\ proc'[p].did = did
             /\ proc'[p].previous = proc[p].previous
             /\ proc'[p].own = proc[p].own
             /\ proc'[p].session \in {proc[p].session, proc[p].own}
    BY <2>2, <1>c DEF Honest, Carried
  <2> QED
    BY <1>3, <1>a, <2>1, <2>2, ReturnOnly
<1>4. CASE LoadMetadata(p)
  <2> DEFINE meta == index.accounts[did]
             s == [secrets |-> None, meta |-> meta]
             q == [proc[p] EXCEPT !.pc = "secrets", !.session = s]
  <2>1. Become(p, q) \/ NoLoad(p) \/ Stop(p)
    BY <1>4 DEF LoadMetadata
  <2>2. Fine(s.secrets) /\ Fine(s.meta)
    BY <1>d
  <2> HIDE DEF meta, s, Fine
  <2>3. q.session = s /\ q.own = proc[p].own /\ q.previous = proc[p].previous /\ q.did = did
    BY <1>b DEF Active
  <2> HIDE DEF q
  <2> QED
    BY <1>c, <1>2, <1>3, <2>1, <2>2, <2>3
<1>5. CASE LoadSecrets(p)
  <2> DEFINE s == [proc[p].session EXCEPT !.secrets = keyring[did]]
             own == IF proc[p].refreshing THEN proc[p].own ELSE s
             pc == IF proc[p].refreshing THEN "rotate"
                   ELSE IF proc[p].cmd = "logout" THEN "remove" ELSE "send"
             q == [proc[p] EXCEPT !.session = s, !.own = own, !.pc = pc]
  <2>1. Become(p, q) \/ NoLoad(p)
    BY <1>5 DEF LoadSecrets
  <2>2. s.meta = proc[p].session.meta /\ s.secrets = keyring[did]
    BY <1>b DEF Active, Session
  <2>3. own = proc[p].own \/ own = s
    OBVIOUS
  <2> HIDE DEF s, own, pc, Fine
  <2>4. q.session = s /\ q.own = own /\ q.previous = proc[p].previous /\ q.did = did
    BY <1>b DEF Active
  <2> HIDE DEF q
  <2> QED
    BY <1>c, <1>d, <1>2, <1>3, <2>1, <2>2, <2>3, <2>4
<1>6. CASE Rotate(p)
  <2> DEFINE s == SessionOf(Fresh)
             q == [proc[p] EXCEPT !.session = s, !.pc = "previous"]
  <2>1. (Become(p, q) \/ Return(p)) /\ issued' = Append(issued, did)
    BY <1>6 DEF Rotate, Issue
  <2>2. s.secrets = Fresh /\ s.meta = Fresh
    BY DEF SessionOf
  <2>3. Fine(Fresh)
    BY <1>b, <2>1, OwnedGrows DEF Fresh, TypeOK
  <2> HIDE DEF s, Fine
  <2>4. q.session = s /\ q.own = proc[p].own /\ q.previous = proc[p].previous /\ q.did = did
    BY <1>b DEF Active
  <2> HIDE DEF q
  <2> QED
    BY <1>c, <1>2, <1>3, <2>1, <2>2, <2>3, <2>4
<1>7. CASE FindPrevious(p)
  <2>1. \A g : LET q == [proc[p] EXCEPT !.previous = g, !.pc = "save"]  IN
          /\ q.session = proc[p].session /\ q.own = proc[p].own
          /\ q.previous = g /\ q.did = did
    BY <1>b DEF Active
  <2>2. \E g : Fine(g) /\ Become(p, [proc[p] EXCEPT !.previous = g, !.pc = "save"])
    BY <1>d, <1>7 DEF FindPrevious
  <2> HIDE DEF Fine
  <2> QED
    BY <1>c, <1>2, <2>1, <2>2
\* The other actions that change the process keep all it carries.
<1>8. ASSUME NEW q, Become(p, q), q.session = proc[p].session, q.own = proc[p].own,
             q.previous = proc[p].previous, q.did = did
      PROVE  Honest(issued', proc'[p])
  <2> HIDE DEF Fine
  <2> QED
    BY <1>8, <1>c, <1>2
<1>9. CASE WriteIndex(p)
  <2> DEFINE q == [proc[p] EXCEPT !.pc = "send", !.refreshing = FALSE,
                                  !.retried = FALSE, !.refreshed = TRUE]
  <2>1. /\ q.session = proc[p].session /\ q.own = proc[p].own
        /\ q.previous = proc[p].previous /\ q.did = did
    BY <1>b DEF Active
  <2>2. Goto(p, "restore") \/ Return(p) \/ Become(p, q)
    BY <1>9 DEF WriteIndex
  <2> HIDE DEF q
  <2> QED
    BY <1>3, <1>8, <2>1, <2>2 DEF Step
<1>10. CASE Challenge(p)
  <2> DEFINE q == [proc[p] EXCEPT !.nonce = ~@, !.retried = TRUE]
  <2>1. /\ q.session = proc[p].session /\ q.own = proc[p].own
        /\ q.previous = proc[p].previous /\ q.did = did
    BY <1>b DEF Active
  <2>2. Become(p, q)
    BY <1>10 DEF Challenge
  <2> HIDE DEF q
  <2> QED
    BY <1>8, <2>1, <2>2
<1>11. CASE Deny(p)
  <2> DEFINE q == [proc[p] EXCEPT !.refreshing = TRUE, !.pc = "load"]
  <2>1. /\ q.session = proc[p].session /\ q.own = proc[p].own
        /\ q.previous = proc[p].previous /\ q.did = did
    BY <1>b DEF Active
  <2>2. Become(p, q)
    BY <1>11 DEF Deny
  <2> HIDE DEF q
  <2> QED
    BY <1>8, <2>1, <2>2
<1>12. CASE MergeIndex(p) \/ SelectAccount(p) \/ FindAccount(p)
  <2>1. \A g, pc : LET q == [proc[p] EXCEPT !.copy = g, !.pc = pc]  IN
          /\ q.session = proc[p].session /\ q.own = proc[p].own
          /\ q.previous = proc[p].previous /\ q.did = did
    BY <1>b DEF Active
  <2>2. \/ Goto(p, "restore") \/ Stop(p)
        \/ \E g, pc : Become(p, [proc[p] EXCEPT !.copy = g, !.pc = pc])
    BY <1>12 DEF MergeIndex, SelectAccount, FindAccount
  <2> QED
    BY <1>3, <1>8, <2>1, <2>2 DEF Step
<1>13. CASE \/ RotateFails(p) \/ SaveSecrets(p) \/ Restore(p) \/ Activate(p)
            \/ EraseSecrets(p) \/ DropAccount(p) \/ EndCall(p) \/ AcceptWithNonce(p)
  <2>1. Return(p) \/ Stop(p) \/ \E pc \in Step : Goto(p, pc)
    BY <1>13 DEF RotateFails, SaveSecrets, Restore, Activate, EraseSecrets, DropAccount,
                 Replace, EndCall, AcceptWithNonce, Step
  <2> QED
    BY <1>3, <2>1
<1> QED
  BY <1>1, <1>4, <1>5, <1>6, <1>7, <1>9, <1>10, <1>11, <1>12, <1>13 DEF Advance

\* A process that begins carries nothing but the grant it was just given.
LEMMA BeginHonest ==
  ASSUME TypeOK, NEW p \in Procs, NEW d \in Dids, Begin(p, d), Begun(proc'[p], d)
  PROVE  Honest(issued', proc'[p])
<1>1. CASE proc'[p].session = NoSession
  BY <1>1 DEF Begun, Honest, Carried, NoSession, OwnedIn
<1>2. CASE proc'[p].session # NoSession
  <2>1. proc'[p].session = SessionOf(Fresh) /\ proc'[p].cmd = "login"
    BY <1>2 DEF Begun
  <2>2. issued' = Append(issued, d)
    <3>1. \A cmd, n : LET q == [Idle EXCEPT !.cmd = cmd, !.did = d, !.pc = "load", !.calls = n]
                     IN  q.session = NoSession
      BY DEF Idle
    <3>2. [Idle EXCEPT !.cmd = "refresh", !.did = d, !.pc = "load",
                       !.refreshing = TRUE].session = NoSession
      BY DEF Idle
    <3>3. [Idle EXCEPT !.cmd = "switch", !.did = d, !.pc = "select"].session = NoSession
      BY DEF Idle
    <3>4. ASSUME NEW q, Become(p, q), q.session = NoSession PROVE FALSE
      BY <1>2, <3>4, BecomeOnly
    <3>5. BeginLogin(p, d)
      BY <3>1, <3>2, <3>3, <3>4
         DEF Begin, BeginRefresh, BeginSwitch, BeginLogout, BeginPublish, BeginLoaded
    <3> QED
      BY <3>5 DEF BeginLogin, Issue
  <2>3. OwnedIn(issued', Fresh, d)
    BY <2>2, OwnedGrows DEF Fresh, TypeOK
  <2> QED
    BY <2>1, <2>3 DEF Begun, Honest, Carried, NoSession, SessionOf, OwnedIn
<1> QED
  BY <1>1, <1>2

LEMMA OwnInit == Init => GrantsAreOwn
<1> SUFFICES ASSUME Init PROVE GrantsAreOwn
  OBVIOUS
<1>1. OwnAccounts(issued, NoIndex)
  BY DEF OwnAccounts, NoIndex, OwnedIn
<1>2. Idle.copy = NoIndex /\ Honest(issued, Idle)
  BY DEF Idle, Honest, Carried, NoSession, OwnedIn
<1> QED
  BY <1>1, <1>2, GrantsAreOwnIs DEF Init, OwnedIn

LEMMA OwnStep == TypeOK /\ GrantsAreOwn /\ [Next]_vars => GrantsAreOwn'
<1> SUFFICES ASSUME TypeOK, GrantsAreOwn, [Next]_vars PROVE GrantsAreOwn'
  OBVIOUS
<1>1. \A g, e : OwnedIn(issued, g, e) => OwnedIn(issued', g, e)
  BY IssuedGrows
<1>2. /\ \A d \in Dids : OwnedIn(issued', keyring[d], d)
      /\ OwnAccounts(issued', index)
      /\ \A p \in Procs : OwnAccounts(issued', proc[p].copy) /\ Honest(issued', proc[p])
  BY <1>1, GrantsAreOwnIs DEF OwnAccounts, Honest
\* The copies and the index, whatever the step.
<1>3. ASSUME NEW p \in Procs, NextCopy(p)
      PROVE  OwnAccounts(issued', proc'[p].copy)
  <2>1. index \in Index
    BY DEF TypeOK
  <2>2. CASE proc'[p].copy \in {proc[p].copy, NoIndex}
    BY <1>2, <2>2 DEF OwnAccounts, NoIndex, OwnedIn
  <2>3. CASE proc[p].did \in Dids /\ \E b \in BOOLEAN : proc'[p].copy = Merged(p, b)
    <3>1. OwnedIn(issued', proc[p].session.meta, proc[p].did)
      BY <1>2 DEF Honest, Carried
    <3> QED
      BY <1>2, <2>1, <2>3, <3>1 DEF OwnAccounts, Merged, Index
  <2>4. CASE proc[p].did \in Dids /\ proc'[p].copy = Without(index, proc[p].did)
    <3>1. OwnedIn(issued', None, proc[p].did)
      BY DEF OwnedIn
    <3>2. proc'[p].copy.accounts = [index.accounts EXCEPT ![proc[p].did] = None]
      BY <2>4 DEF Without
    <3> QED
      BY <1>2, <2>1, <2>4, <3>1, <3>2 DEF OwnAccounts, Index
  <2>5. CASE proc'[p].copy = [index EXCEPT !.active = proc[p].did]
    BY <1>2, <2>1, <2>5 DEF OwnAccounts, Index
  <2> QED
    BY <1>3, <2>2, <2>3, <2>4, <2>5 DEF NextCopy
<1>4. ASSUME \A p \in Procs : NextCopy(p) /\ Honest(issued', proc'[p]),
             index' = index \/ \E p \in Procs : index' = proc[p].copy,
             \A d \in Dids : OwnedIn(issued', keyring'[d], d)
      PROVE  GrantsAreOwn'
  BY <1>2, <1>3, <1>4, GrantsAreOwnNext
<1>5. ASSUME NEW p \in Procs, Advance(p) PROVE GrantsAreOwn'
  <2>1. \A o \in Procs \ {p} : Honest(issued', proc'[o])
    <3>1. \A o \in Procs \ {p} : proc'[o] = proc[o]
      BY <1>5, BecomeOnly
         DEF Advance, LoadMetadata, LoadSecrets, Rotate, RotateFails, FindPrevious,
             SaveSecrets, MergeIndex, WriteIndex, Restore, SelectAccount, Activate,
             FindAccount, EraseSecrets, DropAccount, Replace, EndCall, AcceptWithNonce,
             Challenge, Deny, NoLoad, Return, Goto, Stop
    <3> QED
      BY <1>2, <3>1
  <2> QED
    BY <1>1, <1>4, <1>5, <2>1, AdvanceCopies, AdvanceHonest
<1>6. ASSUME NEW p \in Procs, NEW d \in Dids, Begin(p, d) PROVE GrantsAreOwn'
  <2>1. UNCHANGED keyring
    BY <1>6 DEF Begin, BeginLogin, BeginRefresh, BeginSwitch, BeginLogout, BeginPublish,
                BeginLoaded
  <2>2. \A o \in Procs : Honest(issued', proc'[o])
    BY <1>2, <1>6, BeginOnly, BeginHonest
  <2> QED
    BY <1>2, <1>4, <1>6, <2>1, <2>2, BeginCopies
<1>7. ASSUME NEW p \in Procs, Crash(p) PROVE GrantsAreOwn'
  <2>1. UNCHANGED <<index, keyring>> /\ Become(p, Idle)
    BY <1>7 DEF Crash, Stop
  <2>2. \A o \in Procs : NextCopy(o)
    BY <2>1, BecomeOnly, IdleFacts DEF NextCopy
  <2>3. Honest(issued', Idle)
    BY DEF Idle, Honest, Carried, NoSession, OwnedIn
  <2> QED
    BY <1>2, <1>4, <2>1, <2>2, <2>3, BecomeOnly
<1>8. CASE Expire \/ UNCHANGED vars
  BY <1>2, <1>4, <1>8 DEF Expire, vars, NextCopy
<1> QED
  BY <1>5, <1>6, <1>7, <1>8 DEF Next

\* Secrets and metadata kept for an account, or carried by a command that works
\* on it, were issued to this very account, however many commands run together
\* and whatever fails (internal/sessionstore/store.go:145-166).
THEOREM GrantsAlwaysOwn == Spec => []GrantsAreOwn
<1>1. TypeOK /\ GrantsAreOwn /\ [Next]_vars => (TypeOK /\ GrantsAreOwn)'
  BY TypeStep, OwnStep
<1> QED
  BY <1>1, TypeInit, OwnInit, PTL DEF Spec

-----------------------------------------------------------------------------
(* Broken accounts are counted by faults.                                  *)
(*                                                                         *)
(* A command that dies, or one that writes a stale copy, breaks accounts   *)
(* that nobody has broken yet: the proof counts those at stake, broken or  *)
(* claimed by a running process.  There are never more of them than faults *)
(* happened, or there is one more while the running commands are calm: not *)
(* in each other's way, and one of them with an account that is whole.     *)
(* A fault ends the calm and pays for the one more, and only a command     *)
(* that is started while another runs claims an account at no other cost.  *)

\* The steps at which a process has a copy of the index that it is going to write.
Pending == {"write", "activate", "erase", "drop"}

\* What process q may still change of account d in idx: it works on the account, or it
\* will put back what idx no longer says.
Claims(q, idx, d) ==
  /\ q.pc # "idle"
  /\ q.did = d \/ (q.pc \in Pending /\ q.copy.accounts[d] # idx.accounts[d])

\* The accounts that are broken, and those a running process may break.
AtStake == {d \in Dids : Broken(d) \/ \E p \in Procs : Claims(proc[p], index, d)}

\* The secrets k and the metadata m of one account go together; L stands for
\* live, and X below for expired: the proof compares two states.
Fits(k, m, L) == k = m /\ (k # None => k \in L)

\* A session that can be saved.
Saveable(s, L) == s.secrets = s.meta /\ s.secrets \in L

\* A session that is the one the keyring holds, or that can only be used to
\* ask for another.
Valid(s, k, L, X) == s.secrets = s.meta /\ (s.secrets \in X \/ (k = s.secrets /\ k \in L))

\* A process that has not yet made a call with the account it looked up.
Early(q) == q.cmd # "publish" \/ (~q.refreshing /\ q.pc \in {"load", "secrets"})

\* A process that waits, or has ended, has left keyring and index together.
Waiting == {"load", "secrets", "rotate", "select", "remove", "send", "idle"}
InStep(q, k, m, L) == q.pc \in Waiting => Fits(k, m, L)

\* What a process relies on, of an account with secrets k and metadata m.
Held(q, k, m, L, X) ==
  q.pc # "idle" =>
    /\ q.pc # "restore"
    /\ q.pc \in {"select", "activate"} => q.cmd = "switch"
    /\ q.pc \in {"remove", "erase", "drop"} => q.cmd = "logout"
    /\ q.pc \in {"load", "secrets"} /\ ~q.refreshing => q.cmd \in {"publish", "logout"}
    /\ q.pc = "rotate" => q.refreshing
    /\ Early(q) => InStep(q, k, m, L)
    /\ q.pc = "secrets" /\ ~q.refreshing => q.session.meta = m
    /\ q.pc \in {"previous", "save", "merge", "write"} =>
         /\ Saveable(q.session, L)
         /\ q.cmd = "publish" /\ ~q.refreshing => k = q.session.secrets
    /\ q.pc \in {"merge", "write"} => k = q.session.secrets
    /\ q.pc = "write" => q.copy.accounts[q.did] = q.session.meta
    /\ q.pc = "activate" => Fits(k, m, L) /\ q.copy.accounts[q.did] = m
    /\ q.pc \in {"erase", "drop"} => q.copy.accounts[q.did] = None
    /\ q.pc = "drop" => k = None
    /\ ~Early(q) => Valid(q.own, k, L, X) /\ (q.refreshing => q.own.secrets \in X)
    /\ q.pc = "send" => /\ q.cmd = "publish" /\ ~q.refreshing
                        /\ Valid(q.session, k, L, X)
                        /\ ~q.refreshed => q.session = q.own

HeldAt(p) == Held(proc[p], keyring[proc[p].did], index.accounts[proc[p].did], live, expired)
InStepAt(p) == InStep(proc[p], keyring[proc[p].did], index.accounts[proc[p].did], live)

\* Commands that run together and are not in each other's way.
Calm ==
  /\ \A p, o \in Running : p # o => proc[p].did # proc[o].did
  /\ \A p \in Running : HeldAt(p)
  /\ \A p, o \in Running : p # o /\ Early(proc[p]) /\ proc[o].pc \in Pending =>
       proc[o].copy.accounts[proc[p].did] = index.accounts[proc[p].did]
  /\ \E p \in Running : InStepAt(p)

\* The inductive invariant.
Stakes ==
  /\ None \notin live
  /\ IsFiniteSet(AtStake)
  /\ Cardinality(AtStake) <= faults \/ (Cardinality(AtStake) = faults + 1 /\ Calm)

LEMMA BrokenIsUnfit ==
  \A d \in Dids : Broken(d) <=> ~Fits(keyring[d], index.accounts[d], live)
BY DEF Broken, Known, Fits

LEMMA BrokenIsUnfitNext ==
  \A d \in Dids : Broken(d)' <=> ~Fits(keyring'[d], index'.accounts[d], live')
BY DEF Broken, Known, Fits

\* What others do leaves a process with all it relies on: they change the metadata of
\* its account only when it is not looking up that account any more, and take no grant
\* it works with from the server.
LEMMA HeldKept ==
  ASSUME NEW q, NEW k, NEW m, NEW n, NEW L, NEW M, NEW X, NEW Y,
         Held(q, k, m, L, X), X \subseteq Y, Early(q) => m = n,
         k # None /\ k \in L => k \in M,
         q.session.secrets \in L => q.session.secrets \in M,
         q.own.secrets \in L => q.own.secrets \in M,
         None \notin L
  PROVE  Held(q, k, n, M, Y)
BY DEF Held, Early, InStep, Fits, Saveable, Valid

LEMMA IdleHeld == \A k, m, L, X : Held(Idle, k, m, L, X)
BY IdleFacts DEF Held

-----------------------------------------------------------------------------
(* The process that makes a step.                                          *)

\* A step without a fault leaves the process with all it relies on, and in step if it
\* was so or wrote the index.
Onward(p) ==
  LET d == proc[p].did  IN
    /\ Held(proc'[p], keyring'[d], index'.accounts[d], live', expired')
    /\ InStepAt(p) \/ index' # index =>
         InStep(proc'[p], keyring'[d], index'.accounts[d], live')

\* A call or a command that ends.
LEMMA ReturnHeld ==
  ASSUME TypeOK, NEW p \in Procs, ~At(p, "idle"), NEW k, NEW m, NEW L, NEW X,
         ~Early(proc[p]) => Valid(proc[p].own, k, L, X),
         \/ Return(p) /\ proc[p].pc \notin {"load", "secrets"}
         \/ NoLoad(p)
         \/ Stop(p)
  PROVE  Held(proc'[p], k, m, L, X)
<1>a. proc[p] \in Active
  BY RunningIsActive
<1>1. CASE Stop(p)
  BY <1>1, BecomeOnly, IdleHeld DEF Stop
<1>2. ASSUME Return(p), proc[p].refreshing \/ proc[p].pc \notin {"load", "secrets"}
      PROVE  Held(proc'[p], k, m, L, X)
  <2> DEFINE q == [proc[p] EXCEPT !.pc = "send", !.calls = @ - 1,
                                  !.session = proc[p].own, !.refreshing = FALSE,
                                  !.nonce = FALSE,
                                  !.retried = FALSE, !.refreshed = FALSE]
  <2>1. /\ q.pc = "send" /\ q.own = proc[p].own /\ q.session = proc[p].own
        /\ q.cmd = proc[p].cmd /\ ~q.refreshing
    BY <1>a DEF Active
  <2>2. Stop(p) \/ (proc[p].cmd = "publish" /\ Become(p, q))
    BY <1>2 DEF Return
  <2> HIDE DEF q
  <2>3. proc[p].cmd = "publish" => Valid(q.own, k, L, X)
    BY <1>2, <2>1 DEF Early
  <2>4. proc[p].cmd = "publish" => Held(q, k, m, L, X)
    BY <2>1, <2>3 DEF Held, Early
  <2> QED
    BY <1>1, <2>2, <2>4, BecomeOnly
<1> QED
  BY <1>1, <1>2 DEF NoLoad

LEMMA LoadOnward ==
  ASSUME TypeOK, NEW p \in Procs, HeldAt(p), UNCHANGED faults,
         LoadMetadata(p) \/ LoadSecrets(p)
  PROVE  Onward(p)
<1> DEFINE d == proc[p].did
           k == keyring[d]
           m == index.accounts[d]
<1>a. ~At(p, "idle") /\ proc[p].pc \in Waiting
  BY DEF LoadMetadata, LoadSecrets, At, Waiting
<1>b. proc[p] \in Active /\ d \in Dids
  BY <1>a, RunningIsActive DEF Active
<1>c. Held(proc[p], k, m, live, expired)
  BY DEF HeldAt
<1>d. UNCHANGED <<keyring, index, live, expired>> /\ (InStepAt(p) => Fits(k, m, live))
  BY <1>a DEF LoadMetadata, LoadSecrets, InStepAt, InStep
<1>e. \A kind : ~Fault(kind)
  BY DEF Fault, TypeOK
<1>f. ~Early(proc[p]) => Valid(proc[p].own, k, live, expired)
  BY <1>a, <1>c DEF Held, At
<1> HIDE DEF k, m
<1>1. ASSUME Held(proc'[p], k, m, live, expired) PROVE Onward(p)
  BY <1>1, <1>d DEF Onward, InStep, k, m
<1>2. ASSUME NoLoad(p) \/ Stop(p) PROVE Onward(p)
  BY <1>1, <1>2, <1>a, <1>f, ReturnHeld
<1>3. CASE LoadMetadata(p)
  <2> DEFINE s == [secrets |-> None, meta |-> m]
             q == [proc[p] EXCEPT !.pc = "secrets", !.session = s]
  <2>1. NoLoad(p) \/ Stop(p) \/ Become(p, q)
    BY <1>3 DEF LoadMetadata, k, m
  <2>2. s.meta = m
    OBVIOUS
  <2> HIDE DEF s
  <2>3. /\ q.pc = "secrets" /\ q.session = s /\ q.own = proc[p].own
        /\ q.cmd = proc[p].cmd /\ q.refreshing = proc[p].refreshing
    BY <1>b DEF Active
  <2> HIDE DEF q
  <2>4. proc[p].pc = "load"
    BY <1>3 DEF LoadMetadata, At
  <2>5. Held(q, k, m, live, expired)
    BY <1>c, <2>2, <2>3, <2>4 DEF Held, Early, InStep, Waiting
  <2> QED
    BY <1>1, <1>2, <2>1, <2>5, BecomeOnly
<1>4. CASE LoadSecrets(p)
  <2> DEFINE s == [proc[p].session EXCEPT !.secrets = k]
             own == IF proc[p].refreshing THEN proc[p].own ELSE s
             pc == IF proc[p].refreshing THEN "rotate"
                   ELSE IF proc[p].cmd = "logout" THEN "remove" ELSE "send"
             q == [proc[p] EXCEPT !.session = s, !.own = own, !.pc = pc]
  <2>1. NoLoad(p) \/ (k # None /\ Become(p, q))
    BY <1>4, <1>e DEF LoadSecrets, k
  <2>2. s.secrets = k /\ s.meta = proc[p].session.meta
    BY <1>b DEF Active, Session
  <2>3. /\ own = IF proc[p].refreshing THEN proc[p].own ELSE s
        /\ pc = IF proc[p].refreshing THEN "rotate"
                ELSE IF proc[p].cmd = "logout" THEN "remove" ELSE "send"
    OBVIOUS
  <2> HIDE DEF s, own, pc
  <2>4. /\ q.pc = pc /\ q.session = s /\ q.own = own
        /\ q.cmd = proc[p].cmd /\ q.refreshing = proc[p].refreshing
        /\ q.refreshed = proc[p].refreshed
    BY <1>b DEF Active
  <2> HIDE DEF q
  <2>5. proc[p].pc = "secrets"
    BY <1>4 DEF LoadSecrets, At
  <2>6. k # None => Held(q, k, m, live, expired)
    BY <1>c, <2>2, <2>3, <2>4, <2>5 DEF Held, Early, InStep, Waiting, Fits, Valid
  <2> QED
    BY <1>1, <1>2, <2>1, <2>6, BecomeOnly
<1> QED
  BY <1>3, <1>4

LEMMA RotateOnward ==
  ASSUME TypeOK, NEW p \in Procs, HeldAt(p), UNCHANGED faults,
         Rotate(p) \/ RotateFails(p)
  PROVE  Onward(p)
<1> DEFINE d == proc[p].did
           k == keyring[d]
           m == index.accounts[d]
<1>a. ~At(p, "idle") /\ proc[p].pc = "rotate"
  BY DEF Rotate, RotateFails, At
<1>b. proc[p] \in Active /\ d \in Dids
  BY <1>a, RunningIsActive DEF Active
<1>c. Held(proc[p], k, m, live, expired)
  BY DEF HeldAt
<1>d. UNCHANGED <<keyring, index, expired>> /\ (InStepAt(p) => Fits(k, m, live))
  BY <1>a DEF Rotate, RotateFails, InStepAt, InStep, Waiting
<1>e. \A kind : ~Fault(kind)
  BY DEF Fault, TypeOK
<1> HIDE DEF k, m
<1>1. CASE Rotate(p)
  <2> DEFINE s == SessionOf(Fresh)
             q == [proc[p] EXCEPT !.session = s, !.pc = "previous"]
  <2>1. Become(p, q) /\ Fresh \in live'
    BY <1>1, <1>e DEF Rotate
  <2>2. s.secrets = Fresh /\ s.meta = Fresh
    BY DEF SessionOf
  <2> HIDE DEF s
  <2>3. /\ q.pc = "previous" /\ q.session = s /\ q.own = proc[p].own
        /\ q.cmd = proc[p].cmd /\ q.refreshing = proc[p].refreshing
    BY <1>b DEF Active
  <2> HIDE DEF q
  <2>4. Held(q, k, m, live', expired)
    BY <1>a, <1>c, <2>1, <2>2, <2>3 DEF Held, Early, InStep, Waiting, Saveable, Valid
  <2>5. InStep(q, k, m, live')
    BY <2>3 DEF InStep, Waiting
  <2> QED
    BY <1>d, <2>1, <2>4, <2>5, BecomeOnly DEF Onward, k, m
<1>2. CASE RotateFails(p)
  <2>1. Return(p) /\ UNCHANGED live
    BY <1>2 DEF RotateFails
  <2>2. ~Early(proc[p]) => Valid(proc[p].own, k, live, expired)
    BY <1>a, <1>c DEF Held
  <2>3. Held(proc'[p], k, m, live, expired)
    BY <1>a, <2>1, <2>2, ReturnHeld
  <2> QED
    BY <1>d, <2>1, <2>3 DEF Onward, InStep, k, m
<1> QED
  BY <1>1, <1>2

LEMMA SaveOnward ==
  ASSUME TypeOK, NEW p \in Procs, HeldAt(p), UNCHANGED faults,
         FindPrevious(p) \/ SaveSecrets(p) \/ MergeIndex(p) \/ Restore(p)
  PROVE  Onward(p)
<1> DEFINE d == proc[p].did
           k == keyring[d]
           m == index.accounts[d]
           l == keyring'[d]
<1>a. ~At(p, "idle")
  BY DEF FindPrevious, SaveSecrets, MergeIndex, Restore, At
<1>b. proc[p] \in Active /\ d \in Dids
  BY <1>a, RunningIsActive DEF Active
<1>c. Held(proc[p], k, m, live, expired) /\ proc[p].pc # "restore"
  BY <1>a DEF HeldAt, Held, At
<1>d. UNCHANGED <<index, live, expired>>
  BY DEF FindPrevious, SaveSecrets, MergeIndex, Restore
<1>e. \A kind : ~Fault(kind)
  BY DEF Fault, TypeOK
<1>1. ASSUME NEW q, Become(p, q), Held(q, l, m, live, expired), q.pc \notin Waiting
      PROVE  Onward(p)
  BY <1>1, <1>d, BecomeOnly DEF Onward, InStep
<1>2. CASE FindPrevious(p)
  <2> DEFINE q == [proc[p] EXCEPT !.previous = k, !.pc = "save"]
  <2>1. Become(p, q) /\ l = k /\ proc[p].pc = "previous"
    BY <1>2, <1>e DEF FindPrevious, At
  <2> HIDE DEF k, l, m
  <2>2. /\ q.pc = "save" /\ q.session = proc[p].session /\ q.own = proc[p].own
        /\ q.cmd = proc[p].cmd /\ q.refreshing = proc[p].refreshing
    BY <1>b DEF Active
  <2> HIDE DEF q
  <2>3. Held(q, l, m, live, expired)
    BY <1>c, <2>1, <2>2 DEF Held, Early, InStep, Waiting
  <2> QED
    BY <1>1, <2>1, <2>2, <2>3 DEF Waiting
<1>3. CASE SaveSecrets(p)
  <2> DEFINE q == [proc[p] EXCEPT !.pc = "merge"]
  <2>1. Become(p, q) /\ l = proc[p].session.secrets /\ proc[p].pc = "save"
    BY <1>3, <1>b, <1>e DEF SaveSecrets, Goto, At, TypeOK
  <2> HIDE DEF k, l, m
  <2>2. /\ q.pc = "merge" /\ q.session = proc[p].session /\ q.own = proc[p].own
        /\ q.cmd = proc[p].cmd /\ q.refreshing = proc[p].refreshing
    BY <1>b DEF Active
  <2> HIDE DEF q
  <2>3. Held(q, l, m, live, expired)
    BY <1>c, <2>1, <2>2 DEF Held, Early, InStep, Waiting, Valid
  <2> QED
    BY <1>1, <2>1, <2>2, <2>3 DEF Waiting
<1>4. CASE MergeIndex(p)
  <2> DEFINE new == Merged(p, proc[p].cmd = "login")
             q == [proc[p] EXCEPT !.copy = new, !.pc = "write"]
  <2>1. Become(p, q) /\ l = k /\ proc[p].pc = "merge"
    BY <1>4, <1>e DEF MergeIndex, At
  <2>2. new.accounts[d] = proc[p].session.meta
    BY <1>b DEF Merged, TypeOK, Index
  <2> HIDE DEF k, l, m, new
  <2>3. /\ q.pc = "write" /\ q.session = proc[p].session /\ q.own = proc[p].own
        /\ q.cmd = proc[p].cmd /\ q.refreshing = proc[p].refreshing
        /\ q.did = d /\ q.copy = new
    BY <1>b DEF Active
  <2> HIDE DEF q
  <2>4. Held(q, l, m, live, expired)
    BY <1>c, <2>1, <2>2, <2>3 DEF Held, Early, InStep, Waiting
  <2> QED
    BY <1>1, <2>1, <2>3, <2>4 DEF Waiting
<1> QED
  BY <1>c, <1>2, <1>3, <1>4 DEF Restore, At

LEMMA WriteOnward ==
  ASSUME TypeOK, NEW p \in Procs, HeldAt(p), UNCHANGED faults, WriteIndex(p)
  PROVE  Onward(p)
<1> DEFINE d == proc[p].did
           k == keyring[d]
           m == index.accounts[d]
           n == index'.accounts[d]
           q == [proc[p] EXCEPT !.pc = "send", !.refreshing = FALSE,
                                !.retried = FALSE, !.refreshed = TRUE]
<1>a. ~At(p, "idle") /\ proc[p].pc = "write"
  BY DEF WriteIndex, At
<1>b. proc[p] \in Active /\ d \in Dids
  BY <1>a, RunningIsActive DEF Active
<1>c. Held(proc[p], k, m, live, expired)
  BY DEF HeldAt
<1>d. UNCHANGED <<keyring, live, expired>> /\ index' = proc[p].copy
  BY DEF WriteIndex, Fault, TypeOK
<1>1. Return(p) \/ (proc[p].cmd = "publish" /\ proc[p].refreshing /\ Become(p, q))
  BY DEF WriteIndex, Fault, TypeOK
<1>2. /\ k = proc[p].session.secrets /\ n = proc[p].session.meta
      /\ Saveable(proc[p].session, live)
  BY <1>a, <1>c, <1>d DEF Held
<1> HIDE DEF k, m, n
<1>3. Fits(k, n, live)
  BY <1>2 DEF Fits, Saveable
<1>4. ASSUME Held(proc'[p], k, n, live, expired) PROVE Onward(p)
  BY <1>3, <1>4, <1>d DEF Onward, InStep, k, n
<1>5. ~Early(proc[p]) => Valid(proc[p].own, k, live, expired)
  BY <1>a, <1>c DEF Held
<1>6. CASE Return(p)
  BY <1>a, <1>4, <1>5, <1>6, ReturnHeld
<1>7. CASE proc[p].cmd = "publish" /\ proc[p].refreshing /\ Become(p, q)
  <2>1. /\ q.pc = "send" /\ q.session = proc[p].session /\ q.own = proc[p].own
        /\ q.cmd = proc[p].cmd /\ ~q.refreshing /\ q.refreshed
    BY <1>b DEF Active
  <2>2. Become(p, q)
    BY <1>7
  <2> HIDE DEF q
  <2>3. Held(q, k, n, live, expired)
    BY <1>2, <1>5, <1>7, <2>1 DEF Held, Early, Saveable, Valid
  <2> QED
    BY <1>4, <2>2, <2>3, BecomeOnly
<1> QED
  BY <1>1, <1>6, <1>7

LEMMA ReplaceOnward ==
  ASSUME TypeOK, NEW p \in Procs, HeldAt(p), UNCHANGED faults,
         \/ SelectAccount(p) \/ Activate(p)
         \/ FindAccount(p) \/ EraseSecrets(p) \/ DropAccount(p)
  PROVE  Onward(p)
<1> DEFINE d == proc[p].did
           k == keyring[d]
           m == index.accounts[d]
           l == keyring'[d]
           n == index'.accounts[d]
<1>a. ~At(p, "idle")
  BY DEF SelectAccount, Activate, FindAccount, EraseSecrets, DropAccount, Replace, At
<1>b. proc[p] \in Active /\ d \in Dids
  BY <1>a, RunningIsActive DEF Active
<1>c. Held(proc[p], k, m, live, expired)
  BY DEF HeldAt
<1>d. UNCHANGED <<live, expired>>
  BY DEF SelectAccount, Activate, FindAccount, EraseSecrets, DropAccount, Replace
<1>e. \A kind : ~Fault(kind)
  BY DEF Fault, TypeOK
\* The process writes the index or gives up, or goes on with a copy.
<1>1. ASSUME Stop(p), Fits(l, n, live) PROVE Onward(p)
  BY <1>1, <1>d, BecomeOnly, IdleHeld DEF Onward, Stop, InStep
<1>2. ASSUME NEW q, Become(p, q), UNCHANGED index,
             Held(q, l, m, live, expired), q.pc \notin Waiting
      PROVE  Onward(p)
  BY <1>2, <1>d, BecomeOnly DEF Onward, InStep
<1>3. CASE SelectAccount(p)
  <2> DEFINE new == [index EXCEPT !.active = d]
             q == [proc[p] EXCEPT !.copy = new, !.pc = "activate"]
  <2>1. /\ Stop(p) \/ Become(p, q)
        /\ UNCHANGED index /\ l = k /\ n = m /\ proc[p].pc = "select"
    BY <1>3, <1>e DEF SelectAccount, At
  <2>2. new.accounts[d] = m
    BY <1>b DEF TypeOK, Index
  <2> HIDE DEF k, l, m, n, new
  <2>3. /\ q.pc = "activate" /\ q.cmd = proc[p].cmd /\ q.did = d /\ q.copy = new
    BY <1>b DEF Active
  <2> HIDE DEF q
  <2>4. Fits(k, m, live) /\ proc[p].cmd = "switch"
    BY <1>c, <2>1 DEF Held, Early, InStep, Waiting
  <2>5. Held(q, k, m, live, expired)
    BY <2>2, <2>3, <2>4 DEF Held, Early, InStep, Waiting
  <2> QED
    BY <1>1, <1>2, <2>1, <2>3, <2>4, <2>5 DEF Waiting
<1>4. CASE Activate(p)
  <2>1. Stop(p) /\ index' = proc[p].copy /\ l = k /\ proc[p].pc = "activate"
    BY <1>4, <1>e DEF Activate, Replace, At
  <2>2. Fits(l, n, live)
    BY <1>c, <2>1 DEF Held
  <2> QED
    BY <1>1, <2>1, <2>2
<1>5. CASE FindAccount(p)
  <2> DEFINE new == Without(index, d)
             q == [proc[p] EXCEPT !.copy = new, !.pc = "erase"]
  <2>1. /\ Stop(p) \/ Become(p, q)
        /\ UNCHANGED index /\ l = k /\ n = m /\ proc[p].pc = "remove"
    BY <1>5, <1>e DEF FindAccount, At
  <2>2. new.accounts[d] = None
    BY <1>b DEF TypeOK, Index, Without
  <2> HIDE DEF k, l, m, n, new
  <2>3. /\ q.pc = "erase" /\ q.cmd = proc[p].cmd /\ q.did = d /\ q.copy = new
    BY <1>b DEF Active
  <2> HIDE DEF q
  <2>4. Fits(k, m, live) /\ proc[p].cmd = "logout"
    BY <1>c, <2>1 DEF Held, Early, InStep, Waiting
  <2>5. Held(q, k, m, live, expired)
    BY <2>2, <2>3, <2>4 DEF Held, Early, InStep, Waiting
  <2> QED
    BY <1>1, <1>2, <2>1, <2>3, <2>4, <2>5 DEF Waiting
<1>6. CASE EraseSecrets(p)
  <2> DEFINE q == [proc[p] EXCEPT !.pc = "drop"]
  <2>1. Become(p, q) /\ UNCHANGED index /\ l = None /\ proc[p].pc = "erase"
    BY <1>6, <1>b, <1>e DEF EraseSecrets, Goto, At, TypeOK
  <2> HIDE DEF k, l, m, n
  <2>2. q.pc = "drop" /\ q.cmd = proc[p].cmd /\ q.did = d /\ q.copy = proc[p].copy
    BY <1>b DEF Active
  <2> HIDE DEF q
  <2>3. Held(q, l, m, live, expired)
    BY <1>c, <2>1, <2>2 DEF Held, Early, InStep, Waiting
  <2> QED
    BY <1>2, <2>1, <2>2, <2>3 DEF Waiting
<1>7. CASE DropAccount(p)
  <2>1. Stop(p) /\ index' = proc[p].copy /\ l = k /\ proc[p].pc = "drop"
    BY <1>7, <1>e DEF DropAccount, Replace, At
  <2>2. Fits(l, n, live)
    BY <1>c, <2>1 DEF Held, Fits
  <2> QED
    BY <1>1, <2>1, <2>2
<1> QED
  BY <1>3, <1>4, <1>5, <1>6, <1>7

LEMMA CallOnward ==
  ASSUME TypeOK, NEW p \in Procs, HeldAt(p), UNCHANGED faults,
         EndCall(p) \/ AcceptWithNonce(p) \/ Challenge(p) \/ Deny(p)
  PROVE  Onward(p)
<1> DEFINE d == proc[p].did
           k == keyring[d]
           m == index.accounts[d]
<1>a. ~At(p, "idle") /\ proc[p].pc = "send"
  BY DEF EndCall, AcceptWithNonce, Challenge, Deny, Sending, At
<1>b. proc[p] \in Active /\ d \in Dids
  BY <1>a, RunningIsActive DEF Active
<1>c. Held(proc[p], k, m, live, expired)
  BY DEF HeldAt
<1>d. /\ UNCHANGED <<keyring, index, live, expired>>
      /\ InStepAt(p) => Fits(k, m, live)
  BY <1>a DEF EndCall, AcceptWithNonce, Challenge, Deny, InStepAt, InStep, Waiting
<1> HIDE DEF k, m
<1>e. /\ proc[p].cmd = "publish" /\ ~proc[p].refreshing
      /\ Valid(proc[p].session, k, live, expired)
      /\ Valid(proc[p].own, k, live, expired)
      /\ ~proc[p].refreshed => proc[p].session = proc[p].own
  BY <1>a, <1>c DEF Held, Early
<1>1. ASSUME Held(proc'[p], k, m, live, expired) PROVE Onward(p)
  BY <1>1, <1>d DEF Onward, InStep, k, m
<1>2. CASE EndCall(p)
  BY <1>1, <1>2, <1>a, <1>e, ReturnHeld DEF EndCall
<1>3. CASE AcceptWithNonce(p)
  <2> DEFINE q == [proc[p] EXCEPT !.pc = "previous"]
  <2>1. Become(p, q) /\ proc[p].session.secrets \notin expired
    BY <1>3 DEF AcceptWithNonce, Goto
  <2>2. /\ q.pc = "previous" /\ q.session = proc[p].session /\ q.own = proc[p].own
        /\ q.cmd = proc[p].cmd /\ q.refreshing = proc[p].refreshing
    BY <1>b DEF Active
  <2> HIDE DEF q
  <2>3. Held(q, k, m, live, expired)
    BY <1>e, <2>1, <2>2 DEF Held, Early, Saveable, Valid
  <2> QED
    BY <1>1, <2>1, <2>3, BecomeOnly
<1>4. CASE Challenge(p)
  <2> DEFINE q == [proc[p] EXCEPT !.nonce = ~@, !.retried = TRUE]
  <2>1. Become(p, q)
    BY <1>4 DEF Challenge
  <2>2. /\ q.pc = proc[p].pc /\ q.session = proc[p].session /\ q.own = proc[p].own
        /\ q.cmd = proc[p].cmd /\ q.refreshing = proc[p].refreshing
        /\ q.refreshed = proc[p].refreshed
    BY <1>b DEF Active
  <2> HIDE DEF q
  <2>3. Held(q, k, m, live, expired)
    BY <1>a, <1>e, <2>2 DEF Held, Early
  <2> QED
    BY <1>1, <2>1, <2>3, BecomeOnly
<1>5. CASE Deny(p)
  <2> DEFINE q == [proc[p] EXCEPT !.refreshing = TRUE, !.pc = "load"]
  <2>1. /\ Become(p, q) /\ ~proc[p].refreshed
        /\ proc[p].session.secrets \in expired
    BY <1>5 DEF Deny, Fault, TypeOK
  <2>2. /\ q.pc = "load" /\ q.own = proc[p].own
        /\ q.cmd = proc[p].cmd /\ q.refreshing
    BY <1>b DEF Active
  <2> HIDE DEF q
  <2>3. Held(q, k, m, live, expired)
    BY <1>e, <2>1, <2>2 DEF Held, Early
  <2> QED
    BY <1>1, <2>1, <2>3, BecomeOnly
<1> QED
  BY <1>2, <1>3, <1>4, <1>5

LEMMA AdvanceOnward ==
  ASSUME TypeOK, NEW p \in Procs, HeldAt(p), UNCHANGED faults, Advance(p)
  PROVE  Onward(p)
BY LoadOnward, RotateOnward, SaveOnward, WriteOnward, ReplaceOnward, CallOnward DEF Advance

-----------------------------------------------------------------------------
(* What a step of a process leaves alone.                                  *)

\* A process that goes on keeps its account.  What it is going to write differs from the
\* index in that account alone, or was about to be written before.  Only a publish goes
\* on after it wrote the index, and it does not look its account up again.
Goes(p) ==
  /\ proc'[p].did = proc[p].did
  /\ proc'[p].pc \in Pending =>
       /\ UNCHANGED index
       /\ \/ proc[p].pc \in Pending /\ proc'[p].copy = proc[p].copy
          \/ \A e \in Dids \ {proc[p].did} : proc'[p].copy.accounts[e] = index.accounts[e]
  /\ Early(proc'[p]) => Early(proc[p]) /\ UNCHANGED index

LEMMA AdvanceGoes ==
  ASSUME TypeOK, NEW p \in Procs, Advance(p)
  PROVE  proc'[p] = Idle \/ Goes(p)
<1>a. ~At(p, "idle")
  BY DEF Advance, LoadMetadata, LoadSecrets, Rotate, RotateFails, FindPrevious,
         SaveSecrets, MergeIndex, WriteIndex, Restore, SelectAccount, Activate, FindAccount,
         EraseSecrets, DropAccount, Replace, EndCall, AcceptWithNonce, Challenge, Deny,
         Sending, At
<1>b. proc[p] \in Active /\ proc[p].did \in Dids
  BY <1>a, RunningIsActive DEF Active
\* A step that leaves the index and the copy alone.
<1>1. ASSUME NEW q, Become(p, q), q.did = proc[p].did, q.cmd = proc[p].cmd,
             q.pc \in Pending => /\ UNCHANGED index /\ proc[p].pc \in Pending
                                 /\ q.copy = proc[p].copy,
             \/ q.refreshing \/ q.pc \notin {"load", "secrets"}
             \/ /\ q.refreshing <=> proc[p].refreshing
                /\ proc[p].pc \in {"load", "secrets"} /\ UNCHANGED index,
             UNCHANGED index \/ q.cmd = "publish"
      PROVE  proc'[p] = Idle \/ Goes(p)
  <2>1. proc'[p] = q
    BY <1>1, BecomeOnly
  <2> QED
    BY <1>1, <2>1 DEF Goes, Early
<1>2. ASSUME Return(p) \/ NoLoad(p) \/ Stop(p)
      PROVE  proc'[p] = Idle \/ Goes(p)
  <2> DEFINE q == [proc[p] EXCEPT !.pc = "send", !.calls = @ - 1,
                                  !.session = proc[p].own, !.refreshing = FALSE,
                                  !.nonce = FALSE,
                                  !.retried = FALSE, !.refreshed = FALSE]
  <2>1. q.pc = "send" /\ q.did = proc[p].did /\ q.cmd = proc[p].cmd
    BY <1>b DEF Active
  <2>2. Stop(p) \/ (proc[p].cmd = "publish" /\ Become(p, q))
    BY <1>2 DEF NoLoad, Return
  <2> HIDE DEF q
  <2>3. CASE Stop(p)
    BY <2>3, BecomeOnly DEF Stop
  <2>4. CASE proc[p].cmd = "publish" /\ Become(p, q)
    BY <1>1, <2>1, <2>4 DEF Pending
  <2> QED
    BY <2>2, <2>3, <2>4
<1>3. ASSUME NEW pc, Goto(p, pc), UNCHANGED index, pc \notin {"load", "secrets"},
             pc \in Pending => proc[p].pc \in Pending
      PROVE  proc'[p] = Idle \/ Goes(p)
  <2> DEFINE q == [proc[p] EXCEPT !.pc = pc]
  <2>1. q.pc = pc /\ q.did = proc[p].did /\ q.cmd = proc[p].cmd /\ q.copy = proc[p].copy
    BY <1>b DEF Active
  <2>2. Become(p, q)
    BY <1>3 DEF Goto
  <2> HIDE DEF q
  <2> QED
    BY <1>1, <1>3, <2>1, <2>2
<1>4. CASE LoadMetadata(p)
  <2> DEFINE s == [secrets |-> None, meta |-> index.accounts[proc[p].did]]
             q == [proc[p] EXCEPT !.pc = "secrets", !.session = s]
  <2>1. NoLoad(p) \/ Stop(p) \/ Become(p, q)
    BY <1>4 DEF LoadMetadata
  <2> HIDE DEF s
  <2>2. /\ q.pc = "secrets" /\ q.did = proc[p].did /\ q.cmd = proc[p].cmd
        /\ q.refreshing = proc[p].refreshing
    BY <1>b DEF Active
  <2>3. proc[p].pc = "load" /\ UNCHANGED index
    BY <1>4 DEF LoadMetadata, At
  <2> HIDE DEF q
  <2>4. ASSUME Become(p, q) PROVE proc'[p] = Idle \/ Goes(p)
    BY <1>1, <2>2, <2>3, <2>4 DEF Pending
  <2> QED
    BY <1>2, <2>1, <2>4
<1>5. CASE LoadSecrets(p)
  <2> DEFINE s == [proc[p].session EXCEPT !.secrets = keyring[proc[p].did]]
             own == IF proc[p].refreshing THEN proc[p].own ELSE s
             pc == IF proc[p].refreshing THEN "rotate"
                   ELSE IF proc[p].cmd = "logout" THEN "remove" ELSE "send"
             q == [proc[p] EXCEPT !.session = s, !.own = own, !.pc = pc]
  <2>1. (NoLoad(p) \/ Become(p, q)) /\ UNCHANGED index
    BY <1>5 DEF LoadSecrets
  <2>2. pc \in {"rotate", "remove", "send"}
    OBVIOUS
  <2> HIDE DEF s, own, pc
  <2>3. q.pc = pc /\ q.did = proc[p].did /\ q.cmd = proc[p].cmd
    BY <1>b DEF Active
  <2> HIDE DEF q
  <2> QED
    BY <1>1, <1>2, <2>1, <2>2, <2>3 DEF Pending
<1>6. CASE Rotate(p)
  <2> DEFINE s == SessionOf(Fresh)
             q == [proc[p] EXCEPT !.session = s, !.pc = "previous"]
  <2>1. (Return(p) \/ Become(p, q)) /\ UNCHANGED index
    BY <1>6 DEF Rotate
  <2> HIDE DEF s
  <2>2. q.pc = "previous" /\ q.did = proc[p].did /\ q.cmd = proc[p].cmd
    BY <1>b DEF Active
  <2> HIDE DEF q
  <2> QED
    BY <1>1, <1>2, <2>1, <2>2 DEF Pending
<1>7. CASE FindPrevious(p)
  <2>1. PICK g : Become(p, [proc[p] EXCEPT !.previous = g, !.pc = "save"])
    BY <1>7 DEF FindPrevious
  <2> DEFINE q == [proc[p] EXCEPT !.previous = g, !.pc = "save"]
  <2>2. q.pc = "save" /\ q.did = proc[p].did /\ q.cmd = proc[p].cmd
    BY <1>b DEF Active
  <2>3. Become(p, q) /\ UNCHANGED index
    BY <1>7, <2>1 DEF FindPrevious
  <2> HIDE DEF q
  <2> QED
    BY <1>1, <2>2, <2>3 DEF Pending
<1>8. CASE WriteIndex(p)
  <2> DEFINE q == [proc[p] EXCEPT !.pc = "send", !.refreshing = FALSE,
                                  !.retried = FALSE, !.refreshed = TRUE]
  <2>1. \/ proc[p].cmd = "publish" /\ Become(p, q)
        \/ Return(p)
        \/ Goto(p, "restore") /\ UNCHANGED index
    BY <1>8 DEF WriteIndex
  <2>2. q.pc = "send" /\ q.did = proc[p].did /\ q.cmd = proc[p].cmd
    BY <1>b DEF Active
  <2> HIDE DEF q
  <2>3. ASSUME proc[p].cmd = "publish", Become(p, q) PROVE proc'[p] = Idle \/ Goes(p)
    BY <1>1, <2>2, <2>3 DEF Pending
  <2> QED
    BY <1>2, <1>3, <2>1, <2>3 DEF Pending
<1>9. CASE Challenge(p)
  <2> DEFINE q == [proc[p] EXCEPT !.nonce = ~@, !.retried = TRUE]
  <2>1. Become(p, q) /\ UNCHANGED index /\ proc[p].pc = "send"
    BY <1>9 DEF Challenge, Sending, At
  <2>2. q.pc = proc[p].pc /\ q.did = proc[p].did /\ q.cmd = proc[p].cmd
    BY <1>b DEF Active
  <2> HIDE DEF q
  <2> QED
    BY <1>1, <2>1, <2>2 DEF Pending
<1>10. CASE Deny(p)
  <2> DEFINE q == [proc[p] EXCEPT !.refreshing = TRUE, !.pc = "load"]
  <2>1. Become(p, q) /\ UNCHANGED index
    BY <1>10 DEF Deny
  <2>2. q.pc = "load" /\ q.refreshing /\ q.did = proc[p].did /\ q.cmd = proc[p].cmd
    BY <1>b DEF Active
  <2> HIDE DEF q
  <2> QED
    BY <1>1, <2>1, <2>2 DEF Pending
\* A new copy is the index with another active account, or without the account, or with
\* new metadata for it.
<1>11. ASSUME NEW copy, NEW pc \in Pending, UNCHANGED index,
              Become(p, [proc[p] EXCEPT !.copy = copy, !.pc = pc]),
              \A e \in Dids \ {proc[p].did} : copy.accounts[e] = index.accounts[e]
       PROVE  Goes(p)
  <2> DEFINE q == [proc[p] EXCEPT !.copy = copy, !.pc = pc]
  <2>1. q.pc = pc /\ q.did = proc[p].did /\ q.cmd = proc[p].cmd /\ q.copy = copy
    BY <1>b DEF Active
  <2>2. Become(p, q)
    BY <1>11
  <2> HIDE DEF q
  <2>3. proc'[p] = q
    BY <2>2, BecomeOnly
  <2> QED
    BY <1>11, <2>1, <2>3 DEF Goes, Early, Pending
<1>12. CASE MergeIndex(p)
  <2> DEFINE new == Merged(p, proc[p].cmd = "login")
  <2>1. \A e \in Dids \ {proc[p].did} : new.accounts[e] = index.accounts[e]
    BY DEF Merged, TypeOK, Index
  <2>2. /\ UNCHANGED index
        /\ Goto(p, "restore") \/ Become(p, [proc[p] EXCEPT !.copy = new, !.pc = "write"])
    BY <1>12 DEF MergeIndex
  <2> HIDE DEF new
  <2> QED
    BY <1>3, <1>11, <2>1, <2>2 DEF Pending
<1>13. CASE SelectAccount(p)
  <2> DEFINE new == [index EXCEPT !.active = proc[p].did]
  <2>1. \A e \in Dids \ {proc[p].did} : new.accounts[e] = index.accounts[e]
    BY DEF TypeOK, Index
  <2>2. /\ UNCHANGED index
        /\ Stop(p) \/ Become(p, [proc[p] EXCEPT !.copy = new, !.pc = "activate"])
    BY <1>13 DEF SelectAccount
  <2> HIDE DEF new
  <2> QED
    BY <1>2, <1>11, <2>1, <2>2 DEF Pending
<1>14. CASE FindAccount(p)
  <2> DEFINE new == Without(index, proc[p].did)
  <2>1. \A e \in Dids \ {proc[p].did} : new.accounts[e] = index.accounts[e]
    BY DEF Without, TypeOK, Index
  <2>2. /\ UNCHANGED index
        /\ Stop(p) \/ Become(p, [proc[p] EXCEPT !.copy = new, !.pc = "erase"])
    BY <1>14 DEF FindAccount
  <2> HIDE DEF new
  <2> QED
    BY <1>2, <1>11, <2>1, <2>2 DEF Pending
<1>15. CASE \/ RotateFails(p) \/ Restore(p) \/ EndCall(p) \/ Activate(p) \/ DropAccount(p)
  BY <1>2, <1>15 DEF RotateFails, Restore, EndCall, Activate, DropAccount, Replace
<1>16. CASE SaveSecrets(p)
  BY <1>2, <1>3, <1>16 DEF SaveSecrets, Pending
<1>17. CASE EraseSecrets(p)
  BY <1>2, <1>3, <1>17 DEF EraseSecrets, Pending, At
<1>18. CASE AcceptWithNonce(p)
  BY <1>3, <1>18 DEF AcceptWithNonce, Pending
<1> QED
  BY <1>4, <1>5, <1>6, <1>7, <1>8, <1>9, <1>10, <1>12, <1>13, <1>14, <1>15, <1>16, <1>17,
     <1>18 DEF Advance

\* What a step does to the files and at the server.
LEMMA AdvanceFrame ==
  ASSUME TypeOK, GrantsAreOwn, NEW p \in Procs, Advance(p)
  PROVE  /\ proc[p] \in Active
         /\ \A o \in Procs \ {p} : proc'[o] = proc[o]
         /\ \A e \in Dids \ {proc[p].did} : keyring'[e] = keyring[e]
         /\ \A e \in Dids \ {proc[p].did} : \A g \in live :
              g # None /\ OwnedIn(issued, g, e) => g \in live'
         /\ expired' = expired
         /\ faults' = faults \/ faults' = faults + 1
<1>a. ~At(p, "idle")
  BY DEF Advance, LoadMetadata, LoadSecrets, Rotate, RotateFails, FindPrevious,
         SaveSecrets, MergeIndex, WriteIndex, Restore, SelectAccount, Activate, FindAccount,
         EraseSecrets, DropAccount, Replace, EndCall, AcceptWithNonce, Challenge, Deny,
         Sending, At
<1>b. proc[p] \in Active
  BY <1>a, RunningIsActive
<1>1. \A o \in Procs \ {p} : proc'[o] = proc[o]
  BY AdvanceOthers
<1>2. \A e \in Dids \ {proc[p].did} : keyring'[e] = keyring[e]
  BY DEF Advance, LoadMetadata, LoadSecrets, Rotate, RotateFails, FindPrevious,
         SaveSecrets, MergeIndex, WriteIndex, Restore, SelectAccount, Activate, FindAccount,
         EraseSecrets, DropAccount, Replace, EndCall, AcceptWithNonce, Challenge, Deny,
         TypeOK
<1>3. /\ expired' = expired
      /\ faults' = faults \/ faults' = faults + 1
  BY DEF Advance, LoadMetadata, LoadSecrets, Rotate, RotateFails, FindPrevious,
         SaveSecrets, MergeIndex, WriteIndex, Restore, SelectAccount, Activate, FindAccount,
         EraseSecrets, DropAccount, Replace, EndCall, AcceptWithNonce, Challenge, Deny,
         Fault
<1>4. \A e \in Dids \ {proc[p].did} : \A g \in live :
        g # None /\ OwnedIn(issued, g, e) => g \in live'
  <2>1. CASE Rotate(p)
    <3> DEFINE old == proc[p].session.secrets
    <3>1. live' = (live \ {old}) \cup {Fresh}
      BY <2>1 DEF Rotate
    <3>2. OwnedIn(issued, old, proc[p].did)
      BY GrantsAreOwnIs DEF Honest, Carried
    <3> QED
      BY <3>1, <3>2 DEF OwnedIn
  <2>2. CASE ~Rotate(p)
    <3>1. live' = live
      BY <2>2
         DEF Advance, LoadMetadata, LoadSecrets, RotateFails, FindPrevious, SaveSecrets,
             MergeIndex, WriteIndex, Restore, SelectAccount, Activate, FindAccount,
             EraseSecrets, DropAccount, Replace, EndCall, AcceptWithNonce, Challenge, Deny
    <3> QED
      BY <3>1
  <2> QED
    BY <2>1, <2>2
<1> QED
  BY <1>b, <1>1, <1>2, <1>3, <1>4

-----------------------------------------------------------------------------
(* The accounts at stake.                                                  *)

LEMMA AtStakeIs ==
  \A d : d \in AtStake <=>
    /\ d \in Dids
    /\ \/ ~Fits(keyring[d], index.accounts[d], live)
       \/ \E p \in Procs : Claims(proc[p], index, d)
BY BrokenIsUnfit DEF AtStake

LEMMA AtStakeIsNext ==
  \A d : d \in AtStake' <=>
    /\ d \in Dids
    /\ \/ ~Fits(keyring'[d], index'.accounts[d], live')
       \/ \E p \in Procs : Claims(proc'[p], index', d)
BY BrokenIsUnfitNext DEF AtStake

\* Only three actions change the index; each writes a copy and leaves no
\* process that is about to write one.
LEMMA IndexWrites ==
  ASSUME NEW p \in Procs, Advance(p)
  PROVE  \/ UNCHANGED index
         \/ /\ index' = proc[p].copy
            /\ \/ WriteIndex(p) /\ At(p, "write")
               \/ Activate(p) /\ At(p, "activate") /\ Stop(p)
               \/ DropAccount(p) /\ At(p, "drop") /\ Stop(p)
BY DEF Advance, LoadMetadata, LoadSecrets, Rotate, RotateFails, FindPrevious,
       SaveSecrets, MergeIndex, WriteIndex, Restore, SelectAccount, Activate, FindAccount,
       EraseSecrets, DropAccount, Replace, EndCall, AcceptWithNonce, Challenge, Deny

\* The index changes only by a process that writes its copy.
LEMMA IndexWritten ==
  ASSUME NEW p \in Procs, Advance(p), index' # index
  PROVE  /\ index' = proc[p].copy /\ proc[p].pc \in Pending
BY IndexWrites DEF At, Pending

LEMMA AdvanceRuns ==
  ASSUME NEW p \in Procs, Advance(p)
  PROVE  proc[p].pc # "idle"
BY DEF Advance, LoadMetadata, LoadSecrets, Rotate, RotateFails, FindPrevious,
       SaveSecrets, MergeIndex, WriteIndex, Restore, SelectAccount, Activate, FindAccount,
       EraseSecrets, DropAccount, Replace, EndCall, AcceptWithNonce, Challenge, Deny,
       Sending, At

\* Accounts of others fit as they did.
LEMMA OthersFit ==
  ASSUME TypeOK, GrantsAreOwn, NEW p \in Procs, Advance(p),
         NEW e \in Dids \ {proc[p].did}, index'.accounts[e] = index.accounts[e],
         Fits(keyring[e], index.accounts[e], live)
  PROVE  Fits(keyring'[e], index'.accounts[e], live')
<1>1. keyring'[e] = keyring[e] /\ OwnedIn(issued, keyring[e], e)
  BY AdvanceFrame, GrantsAreOwnIs
<1>2. \A g \in live : g # None /\ OwnedIn(issued, g, e) => g \in live'
  BY AdvanceFrame
<1> QED
  BY <1>1, <1>2 DEF Fits

\* A step puts no account at stake: a process breaks nothing but what it claims.
LEMMA AdvanceStakes ==
  ASSUME TypeOK, GrantsAreOwn, NEW p \in Procs, Advance(p)
  PROVE  AtStake' \subseteq AtStake
<1> DEFINE d == proc[p].did
<1>1. proc[p].pc # "idle"
  BY AdvanceRuns
<1>2. \A o \in Procs \ {p} : proc'[o] = proc[o]
  BY AdvanceFrame
<1>3. proc'[p] = Idle \/ Goes(p)
  BY AdvanceGoes
<1>4. index' = index \/ (index' = proc[p].copy /\ proc[p].pc \in Pending)
  BY IndexWritten
<1>5. ASSUME NEW e \in Dids, e = d \/ index'.accounts[e] # index.accounts[e]
      PROVE  Claims(proc[p], index, e)
  BY <1>1, <1>4, <1>5 DEF Claims
<1>6. ASSUME NEW e \in Dids, e # d, index'.accounts[e] = index.accounts[e],
             ~Fits(keyring'[e], index'.accounts[e], live')
      PROVE  ~Fits(keyring[e], index.accounts[e], live)
  BY <1>6, OthersFit
<1>7. ASSUME NEW e \in Dids, e # d, index'.accounts[e] = index.accounts[e],
             NEW o \in Procs, Claims(proc'[o], index', e)
      PROVE  Claims(proc[o], index, e)
  <2>1. CASE o # p
    BY <1>2, <1>7, <2>1 DEF Claims
  <2>2. CASE o = p
    BY <1>1, <1>3, <1>7, <2>2, IdleFacts DEF Claims, Goes
  <2> QED
    BY <2>1, <2>2
<1> QED
  BY <1>5, <1>6, <1>7, AtStakeIs, AtStakeIsNext

\* A crash and the expiry of a token put none at stake either.
LEMMA OtherStakes ==
  ASSUME TypeOK, (\E p \in Procs : Crash(p)) \/ Expire \/ UNCHANGED vars
  PROVE  AtStake' \subseteq AtStake
<1>1. UNCHANGED <<keyring, index, live>>
  BY DEF Crash, Expire, vars
<1>2. \A o \in Procs : proc'[o] = proc[o] \/ proc'[o] = Idle
  BY BecomeOnly DEF Crash, Stop, Expire, vars
<1>3. \A o \in Procs, e \in Dids : Claims(proc'[o], index', e) => Claims(proc[o], index, e)
  BY <1>1, <1>2, IdleFacts DEF Claims
<1> QED
  BY <1>1, <1>3, AtStakeIs, AtStakeIsNext

LEMMA BeginFrame ==
  ASSUME TypeOK, NEW p \in Procs, NEW d \in Dids, Begin(p, d)
  PROVE  /\ UNCHANGED <<keyring, index, expired>>
         /\ live \subseteq live'
         /\ live' \subseteq live \cup {Fresh}
         /\ proc[p].pc = "idle"
         /\ \A o \in Procs \ {p} : proc'[o] = proc[o]
         /\ proc'[p] = proc[p] \/ Begun(proc'[p], d)
         /\ Begun(proc'[p], d) => \/ faults' = faults /\ Running = {}
                                  \/ faults' = faults + 1
         /\ ~Begun(proc'[p], d) => faults' = faults + 1
<1>1. /\ \A o \in Procs \ {p} : proc'[o] = proc[o]
      /\ proc'[p] = proc[p] \/ Begun(proc'[p], d)
  BY BeginOnly
<1>2. /\ UNCHANGED <<keyring, index, expired>>
      /\ live \subseteq live'
      /\ live' \subseteq live \cup {Fresh}
      /\ proc[p].pc = "idle"
  BY DEF Begin, BeginLogin, BeginRefresh, BeginSwitch, BeginLogout, BeginPublish,
         BeginLoaded, CanBegin, At
<1>3. \/ faults' = faults /\ Running = {} /\ ~ UNCHANGED proc
      \/ faults' = faults + 1
  <2>1. ASSUME NEW q, Become(p, q), q.pc # "idle" PROVE ~ UNCHANGED proc
    BY <1>2, <2>1, BecomeOnly
  <2>2. \A cmd, n : LET q == [Idle EXCEPT !.cmd = cmd, !.did = d, !.pc = "load", !.calls = n]
                   IN  q.pc # "idle"
    BY DEF Idle
  <2>3. [Idle EXCEPT !.cmd = "refresh", !.did = d, !.pc = "load",
                     !.refreshing = TRUE].pc # "idle"
    BY DEF Idle
  <2>4. [Idle EXCEPT !.cmd = "switch", !.did = d, !.pc = "select"].pc # "idle"
    BY DEF Idle
  <2>5. [Idle EXCEPT !.cmd = "login", !.did = d, !.pc = "previous",
                     !.session = SessionOf(Fresh)].pc # "idle"
    BY DEF Idle
  <2> QED
    BY <2>1, <2>2, <2>3, <2>4, <2>5
       DEF Begin, BeginLogin, BeginRefresh, BeginSwitch, BeginLogout, BeginPublish,
           BeginLoaded, Overlap, Fault
<1>4. proc'[p] = proc[p] => UNCHANGED proc
  <2>1. proc \in [Procs -> Process] /\ proc' \in [Procs -> Process]
    BY BeginType DEF TypeOK
  <2> QED
    BY <1>1, <2>1
<1> QED
  BY <1>1, <1>2, <1>3, <1>4

\* A command that starts puts its own account at stake.
LEMMA BeginStakes ==
  ASSUME TypeOK, NEW p \in Procs, NEW d \in Dids, Begin(p, d)
  PROVE  /\ AtStake' \subseteq AtStake \cup {d}
         /\ ~Begun(proc'[p], d) => AtStake' \subseteq AtStake
<1>1. /\ UNCHANGED <<keyring, index>> /\ live \subseteq live'
      /\ \A o \in Procs \ {p} : proc'[o] = proc[o]
      /\ proc'[p] = proc[p] \/ Begun(proc'[p], d)
  BY BeginFrame
<1>2. \A e \in Dids : Fits(keyring[e], index.accounts[e], live) =>
                        Fits(keyring'[e], index'.accounts[e], live')
  BY <1>1 DEF Fits
<1>3. \A o \in Procs \ {p}, e \in Dids :
        Claims(proc'[o], index', e) => Claims(proc[o], index, e)
  BY <1>1 DEF Claims
<1>4. \A e \in Dids : Claims(proc'[p], index', e) => Claims(proc[p], index, e) \/ e = d
  BY <1>1 DEF Claims, Begun, Pending
<1>5. ~Begun(proc'[p], d) =>
        \A e \in Dids : Claims(proc'[p], index', e) => Claims(proc[p], index, e)
  BY <1>1 DEF Claims
<1> QED
  BY <1>2, <1>3, <1>4, <1>5, AtStakeIs, AtStakeIsNext

-----------------------------------------------------------------------------
(* Commands that are not in each other's way.                              *)

\* Calm, of the next state.
LEMMA CalmNext ==
  ASSUME \A p, o \in Procs : p # o /\ proc'[p].pc # "idle" /\ proc'[o].pc # "idle" =>
           /\ proc'[p].did # proc'[o].did
           /\ Early(proc'[p]) /\ proc'[o].pc \in Pending =>
                proc'[o].copy.accounts[proc'[p].did] = index'.accounts[proc'[p].did],
         \A p \in Procs : proc'[p].pc # "idle" =>
           Held(proc'[p], keyring'[proc'[p].did], index'.accounts[proc'[p].did], live',
                expired'),
         \E p \in Procs : proc'[p].pc # "idle" /\
           InStep(proc'[p], keyring'[proc'[p].did], index'.accounts[proc'[p].did], live')
  PROVE  Calm'
BY DEF Calm, Running, HeldAt, InStepAt

LEMMA CalmIs ==
  ASSUME Calm
  PROVE  /\ \A p, o \in Procs : p # o /\ proc[p].pc # "idle" /\ proc[o].pc # "idle" =>
              /\ proc[p].did # proc[o].did
              /\ Early(proc[p]) /\ proc[o].pc \in Pending =>
                   proc[o].copy.accounts[proc[p].did] = index.accounts[proc[p].did]
         /\ \A p \in Procs : proc[p].pc # "idle" =>
              Held(proc[p], keyring[proc[p].did], index.accounts[proc[p].did], live, expired)
         /\ \E p \in Procs : proc[p].pc # "idle" /\
              InStep(proc[p], keyring[proc[p].did], index.accounts[proc[p].did], live)
BY DEF Calm, Running, HeldAt, InStepAt

\* A step without a fault that leaves as many accounts at stake keeps the calm.
LEMMA AdvanceCalm ==
  ASSUME TypeOK, GrantsAreOwn, None \notin live, Calm, AtStake' = AtStake,
         NEW p \in Procs, Advance(p), UNCHANGED faults
  PROVE  Calm'
<1> DEFINE d == proc[p].did
<1>a. proc[p].pc # "idle" /\ proc[p] \in Active /\ d \in Dids
  BY AdvanceRuns, AdvanceFrame DEF Active
<1>b. Onward(p)
  <2>1. HeldAt(p)
    BY <1>a DEF Calm, Running
  <2> QED
    BY <2>1, AdvanceOnward
<1>c. /\ \A o \in Procs \ {p} : proc'[o] = proc[o]
      /\ expired' = expired
  BY AdvanceFrame
<1>d. proc'[p] = Idle \/ Goes(p)
  BY AdvanceGoes
<1>e. index' = index \/ (index' = proc[p].copy /\ proc[p].pc \in Pending)
  BY IndexWritten
\* The processes that run on are others than p and, when it runs on, p.
<1>f. \A o \in Procs : proc'[o].pc # "idle" => proc[o].pc # "idle" /\ proc'[o].did = proc[o].did
  BY <1>a, <1>c, <1>d, IdleFacts DEF Goes
<1>g. ASSUME NEW o \in Procs \ {p}, proc[o].pc # "idle"
      PROVE  /\ proc[o].did \in Dids \ {d}
             /\ Early(proc[o]) => index'.accounts[proc[o].did] = index.accounts[proc[o].did]
  <2>1. proc[o].did \in Dids
    BY <1>g, RunningIsActive DEF At, Active
  <2> QED
    BY <1>a, <1>e, <1>g, <2>1, CalmIs
\* No two work on one account, and nobody is going to undo what another relies on.
<1>1. ASSUME NEW o \in Procs, NEW r \in Procs, o # r,
             proc'[o].pc # "idle", proc'[r].pc # "idle"
      PROVE  proc'[o].did # proc'[r].did
  BY <1>1, <1>f, CalmIs
<1>2. ASSUME NEW o \in Procs, NEW r \in Procs, o # r,
             proc'[o].pc # "idle", proc'[r].pc # "idle",
             Early(proc'[o]), proc'[r].pc \in Pending
      PROVE  proc'[r].copy.accounts[proc'[o].did] = index'.accounts[proc'[o].did]
  <2>1. proc[o].pc # "idle" /\ proc[r].pc # "idle" /\ proc'[o].did = proc[o].did
    BY <1>2, <1>f
  <2>2. CASE o = p
    BY <1>2, <1>c, <1>d, <2>1, <2>2, CalmIs, IdleFacts DEF Goes
  <2>3. CASE o # p /\ r = p
    BY <1>2, <1>c, <1>d, <1>g, <2>1, <2>3, CalmIs, IdleFacts DEF Goes
  <2>4. CASE o # p /\ r # p
    BY <1>2, <1>c, <1>g, <2>1, <2>4, CalmIs
  <2> QED
    BY <2>2, <2>3, <2>4
\* Every process has what it relies on.
<1>3. ASSUME NEW o \in Procs, proc'[o].pc # "idle"
      PROVE  Held(proc'[o], keyring'[proc'[o].did], index'.accounts[proc'[o].did], live',
                  expired')
  <2>1. CASE o = p
    BY <1>3, <1>b, <1>f, <2>1 DEF Onward
  <2>2. CASE o # p
    <3> DEFINE e == proc[o].did
    <3>1. proc[o].pc # "idle" /\ proc'[o] = proc[o] /\ o \in Procs \ {p}
      BY <1>3, <1>c, <2>2
    <3>2. e \in Dids \ {d} /\ (Early(proc[o]) => index.accounts[e] = index'.accounts[e])
      BY <1>g, <3>1
    <3>3. Held(proc[o], keyring[e], index.accounts[e], live, expired)
      BY <3>1, CalmIs
    <3>4. keyring'[e] = keyring[e] /\ \A g \in live : OwnedIn(issued, g, e) => g \in live'
      BY <3>2, AdvanceFrame
    <3>5. /\ OwnedIn(issued, keyring[e], e) /\ OwnedIn(issued, proc[o].session.secrets, e)
          /\ OwnedIn(issued, proc[o].own.secrets, e)
      BY <3>2, GrantsAreOwnIs DEF Honest, Carried
    <3>6. Held(proc[o], keyring[e], index'.accounts[e], live', expired)
      BY <3>2, <3>3, <3>4, <3>5, HeldKept
    <3> QED
      BY <1>c, <3>1, <3>4, <3>6
  <2> QED
    BY <2>1, <2>2
\* Some process is in step.
<1>4. ASSUME NEW o \in Procs \ {p}, proc[o].pc # "idle", InStepAt(o), index' = index
      PROVE  InStep(proc'[o], keyring'[proc'[o].did], index'.accounts[proc'[o].did], live')
  <2>1. proc[o].did \in Dids \ {d} /\ proc'[o] = proc[o]
    BY <1>4, <1>c, <1>g
  <2>2. Fits(keyring[proc[o].did], index.accounts[proc[o].did], live) =>
        Fits(keyring'[proc[o].did], index'.accounts[proc[o].did], live')
    BY <1>4, <2>1, OthersFit
  <2> QED
    BY <1>4, <2>1, <2>2 DEF InStepAt, InStep
<1>5. CASE InStepAt(p) \/ index' # index
  <2>1. InStep(proc'[p], keyring'[d], index'.accounts[d], live')
    BY <1>5, <1>b DEF Onward
  <2>2. CASE proc'[p].pc # "idle"
    BY <1>1, <1>2, <1>3, <1>f, <2>1, <2>2, CalmNext
  <2>3. CASE proc'[p].pc = "idle"
    <3>1. Fits(keyring'[d], index'.accounts[d], live')
      BY <2>1, <2>3 DEF InStep, Waiting
    <3>2. d \in AtStake
      BY <1>a, AtStakeIs DEF Claims
    <3>3. PICK o \in Procs : Claims(proc'[o], index', d)
      BY <3>1, <3>2, AtStakeIsNext
    <3>4. o # p /\ proc'[o] = proc[o] /\ proc[o].pc # "idle"
      BY <1>c, <2>3, <3>3 DEF Claims
    <3>5. proc[o].did # d
      BY <1>g, <3>4
    <3>6. proc'[o].pc \in Pending
      BY <3>3, <3>4, <3>5 DEF Claims
    <3>7. InStep(proc'[o], keyring'[proc'[o].did], index'.accounts[proc'[o].did], live')
      BY <3>6 DEF InStep, Pending, Waiting
    <3> QED
      BY <1>1, <1>2, <1>3, <3>4, <3>7, CalmNext
  <2> QED
    BY <2>2, <2>3
<1>6. CASE ~InStepAt(p) /\ index' = index
  <2>1. PICK o \in Procs : proc[o].pc # "idle" /\ InStepAt(o)
    BY CalmIs DEF InStepAt
  <2>2. o \in Procs \ {p} /\ proc'[o] = proc[o]
    BY <1>6, <1>c, <2>1
  <2>3. InStep(proc'[o], keyring'[proc'[o].did], index'.accounts[proc'[o].did], live')
    BY <1>4, <1>6, <2>1, <2>2
  <2> QED
    BY <1>1, <1>2, <1>3, <2>1, <2>2, <2>3, CalmNext
<1> QED
  BY <1>5, <1>6

\* A command for an account that nobody works on and that is not broken is in nobody's way.
LEMMA BeginCalm ==
  ASSUME TypeOK, None \notin live, NEW p \in Procs, NEW d \in Dids, Begin(p, d),
         Begun(proc'[p], d), d \notin AtStake, Calm \/ Running = {}
  PROVE  Calm'
<1>a. /\ UNCHANGED <<keyring, index, expired>> /\ live \subseteq live'
      /\ proc[p].pc = "idle"
      /\ \A o \in Procs \ {p} : proc'[o] = proc[o]
  BY BeginFrame
<1>b. /\ Fits(keyring[d], index.accounts[d], live)
      /\ \A o \in Procs : ~Claims(proc[o], index, d)
  BY AtStakeIs
<1>c. proc'[p].did = d /\ proc'[p].pc \notin Pending
  BY DEF Begun, Pending
<1>d. ASSUME Calm \/ Running = {}
      PROVE  \A o \in Procs \ {p} : proc[o].pc # "idle" => Calm
  BY <1>d DEF Running
<1>1. ASSUME NEW o \in Procs, NEW r \in Procs, o # r,
             proc'[o].pc # "idle", proc'[r].pc # "idle"
      PROVE  /\ proc'[o].did # proc'[r].did
             /\ Early(proc'[o]) /\ proc'[r].pc \in Pending =>
                  proc'[r].copy.accounts[proc'[o].did] = index'.accounts[proc'[o].did]
  <2>1. CASE o = p
    BY <1>1, <1>a, <1>b, <1>c, <2>1 DEF Claims
  <2>2. CASE r = p
    BY <1>1, <1>a, <1>b, <1>c, <2>2 DEF Claims
  <2>3. CASE o # p /\ r # p
    BY <1>1, <1>a, <1>d, <2>3, CalmIs
  <2> QED
    BY <2>1, <2>2, <2>3
<1>2. /\ Held(proc'[p], keyring'[d], index'.accounts[d], live', expired')
      /\ InStep(proc'[p], keyring'[d], index'.accounts[d], live')
  <2>1. Fits(keyring'[d], index'.accounts[d], live')
    BY <1>a, <1>b DEF Fits
  <2>2. proc'[p].cmd = "login" => Fresh \in live'
    <3>1. ASSUME NEW q, Become(p, q), q.cmd # "login" PROVE proc'[p].cmd # "login"
      BY <3>1, BecomeOnly
    <3>2. ASSUME NEW cmd \in {"publish", "logout"}, NEW n, BeginLoaded(p, cmd, d, n)
          PROVE  proc'[p].cmd # "login"
      <4>1. [Idle EXCEPT !.cmd = cmd, !.did = d, !.pc = "load", !.calls = n].cmd = cmd
        BY DEF Idle
      <4> QED
        BY <3>1, <3>2, <4>1 DEF BeginLoaded
    <3>3. [Idle EXCEPT !.cmd = "refresh", !.did = d, !.pc = "load",
                       !.refreshing = TRUE].cmd = "refresh"
      BY DEF Idle
    <3>4. [Idle EXCEPT !.cmd = "switch", !.did = d, !.pc = "select"].cmd = "switch"
      BY DEF Idle
    <3> QED
      BY <3>1, <3>2, <3>3, <3>4
         DEF Begin, BeginLogin, BeginRefresh, BeginSwitch, BeginLogout, BeginPublish
  <2> QED
    BY <2>1, <2>2 DEF Begun, Held, Early, InStep, Saveable, SessionOf
<1>3. ASSUME NEW o \in Procs, proc'[o].pc # "idle"
      PROVE  Held(proc'[o], keyring'[proc'[o].did], index'.accounts[proc'[o].did], live',
                  expired')
  <2>1. CASE o = p
    BY <1>2, <1>c, <2>1
  <2>2. CASE o # p
    <3>1. /\ proc'[o] = proc[o]
          /\ Held(proc[o], keyring[proc[o].did], index.accounts[proc[o].did], live, expired)
      BY <1>3, <1>a, <1>d, <2>2, CalmIs
    <3> QED
      BY <1>a, <3>1, HeldKept
  <2> QED
    BY <2>1, <2>2
<1> QED
  BY <1>1, <1>2, <1>3, <1>c, CalmNext DEF Begun

LEMMA ExpireCalm ==
  ASSUME None \notin live, Calm, Expire \/ UNCHANGED vars
  PROVE  Calm'
<1>1. /\ UNCHANGED <<keyring, index, live, proc>> /\ expired \subseteq expired'
  BY DEF Expire, vars
<1>2. \A p \in Procs : proc[p].pc # "idle" =>
        Held(proc[p], keyring[proc[p].did], index.accounts[proc[p].did], live, expired')
  BY <1>1, CalmIs, HeldKept
<1> QED
  BY <1>1, <1>2, CalmIs, CalmNext

-----------------------------------------------------------------------------
(* No more accounts are at stake than faults, or one more while calm.      *)

LEMMA NoneStaysDead ==
  ASSUME TypeOK, None \notin live, [Next]_vars
  PROVE  None \notin live'
<1>1. Fresh # None
  BY LenProperties DEF Fresh, None, TypeOK
<1>2. ASSUME NEW p \in Procs, Advance(p) PROVE live' \subseteq live \cup {Fresh}
  BY <1>2 DEF Advance, LoadMetadata, LoadSecrets, Rotate, RotateFails, FindPrevious,
              SaveSecrets, MergeIndex, WriteIndex, Restore, SelectAccount, Activate,
              FindAccount, EraseSecrets, DropAccount, Replace, EndCall, AcceptWithNonce,
              Challenge, Deny
<1> QED
  BY <1>1, <1>2, BeginFrame DEF Next, vars, Crash, Expire

LEMMA StakesInit == Init => Stakes
<1> SUFFICES ASSUME Init PROVE Stakes
  OBVIOUS
<1>1. \A d \in Dids : Fits(keyring[d], index.accounts[d], live)
  BY DEF Init, NoIndex, Fits
<1>2. \A p \in Procs, d \in Dids : ~Claims(proc[p], index, d)
  BY IdleFacts DEF Init, Claims
<1>3. AtStake = {}
  BY <1>1, <1>2, AtStakeIs DEF AtStake
<1> QED
  BY <1>3, FS_EmptySet DEF Stakes, Init

\* A fault makes room for one more account at stake.
LEMMA FaultyStakes ==
  ASSUME TypeOK, Stakes, None \notin live', AtStake' \subseteq AtStake, faults' = faults + 1
  PROVE  Stakes'
<1>1. IsFiniteSet(AtStake') /\ Cardinality(AtStake') <= Cardinality(AtStake)
  BY FS_Subset DEF Stakes
<1>2. Cardinality(AtStake) \in Nat /\ Cardinality(AtStake') \in Nat
  BY <1>1, FS_CardinalityType DEF Stakes
<1> QED
  BY <1>1, <1>2 DEF Stakes, TypeOK

\* Without one there is room as before, as long as the calm lasts.
LEMMA FaultlessStakes ==
  ASSUME TypeOK, Stakes, None \notin live', AtStake' \subseteq AtStake, UNCHANGED faults,
         Calm /\ AtStake' = AtStake => Calm'
  PROVE  Stakes'
<1>1. /\ IsFiniteSet(AtStake') /\ Cardinality(AtStake') <= Cardinality(AtStake)
      /\ Cardinality(AtStake') = Cardinality(AtStake) => AtStake' = AtStake
  BY FS_Subset DEF Stakes
<1>2. Cardinality(AtStake) \in Nat /\ Cardinality(AtStake') \in Nat
  BY <1>1, FS_CardinalityType DEF Stakes
<1> QED
  BY <1>1, <1>2 DEF Stakes, TypeOK

\* A command that starts takes room for one more, alone the last there is, otherwise that
\* of the fault it is to start it.
LEMMA StartedStakes ==
  ASSUME TypeOK, Stakes, None \notin live', NEW d \in Dids, AtStake' \subseteq AtStake \cup {d},
         \/ faults' = faults /\ Running = {}
         \/ faults' = faults + 1,
         d \notin AtStake /\ (Calm \/ Running = {}) => Calm'
  PROVE  Stakes'
<1> DEFINE more == AtStake \cup {d}
<1>1. /\ IsFiniteSet(AtStake) /\ IsFiniteSet(more)
      /\ Cardinality(more) = IF d \in AtStake THEN Cardinality(AtStake)
                             ELSE Cardinality(AtStake) + 1
  BY FS_AddElement DEF Stakes
<1>2. /\ IsFiniteSet(AtStake') /\ Cardinality(AtStake') <= Cardinality(more)
  BY <1>1, FS_Subset
<1>3. /\ Cardinality(AtStake) \in Nat /\ Cardinality(AtStake') \in Nat
      /\ Cardinality(more) \in Nat
  BY <1>1, <1>2, FS_CardinalityType
<1>4. Calm => Running # {}
  BY DEF Calm
<1> HIDE DEF more
<1> QED
  BY <1>1, <1>2, <1>3, <1>4 DEF Stakes, TypeOK

LEMMA StakesStep == TypeOK /\ GrantsAreOwn /\ Stakes /\ [Next]_vars => Stakes'
<1> SUFFICES ASSUME TypeOK, GrantsAreOwn, Stakes, [Next]_vars PROVE Stakes'
  OBVIOUS
<1>a. None \notin live /\ None \notin live'
  BY NoneStaysDead DEF Stakes
<1>1. ASSUME NEW p \in Procs, NEW d \in Dids, Begin(p, d) PROVE Stakes'
  <2>1. CASE Begun(proc'[p], d)
    BY <1>a, <1>1, <2>1, BeginFrame, BeginStakes, BeginCalm, StartedStakes
  <2>2. CASE ~Begun(proc'[p], d)
    BY <1>a, <1>1, <2>2, BeginFrame, BeginStakes, FaultyStakes
  <2> QED
    BY <2>1, <2>2
<1>2. ASSUME NEW p \in Procs, Advance(p) PROVE Stakes'
  BY <1>a, <1>2, AdvanceFrame, AdvanceStakes, AdvanceCalm, FaultyStakes, FaultlessStakes
<1>3. ASSUME NEW p \in Procs, Crash(p) PROVE Stakes'
  BY <1>a, <1>3, OtherStakes, FaultyStakes DEF Crash, Fault
<1>4. CASE Expire \/ UNCHANGED vars
  BY <1>a, <1>4, OtherStakes, ExpireCalm, FaultlessStakes DEF Expire, vars
<1> QED
  BY <1>1, <1>2, <1>3, <1>4 DEF Next

\* When no command runs, the accounts at stake are the broken ones.
LEMMA StakesCount == TypeOK /\ Stakes => BrokenAreFaults
<1> SUFFICES ASSUME TypeOK, Stakes, Running = {}
             PROVE  Cardinality({d \in Dids : Broken(d)}) <= faults
  BY DEF BrokenAreFaults
<1>1. ~Calm
  BY DEF Calm
<1>2. {d \in Dids : Broken(d)} \subseteq AtStake
  BY DEF AtStake
<1>3. /\ Cardinality({d \in Dids : Broken(d)}) <= Cardinality(AtStake)
      /\ IsFiniteSet({d \in Dids : Broken(d)})
  BY <1>2, FS_Subset DEF Stakes
<1>4. Cardinality({d \in Dids : Broken(d)}) \in Nat /\ Cardinality(AtStake) \in Nat
  BY <1>3, FS_CardinalityType DEF Stakes
<1> QED
  BY <1>1, <1>3, <1>4 DEF Stakes, TypeOK

\* Between commands every account can be used, save for one for each fault, be it a step
\* that failed, a command that died, an answer that was lost, or a command started while
\* another ran, however many run together and whatever fails
\* (internal/sessionstore/store.go:145-180, 268-290,
\* internal/protocol/atproto/xrpc.go:119-152, oauth_token.go:203-262).
THEOREM BrokenAlwaysFaults == Spec => []BrokenAreFaults
<1>1. Init => TypeOK /\ GrantsAreOwn /\ Stakes
  BY TypeInit, OwnInit, StakesInit
<1>2. TypeOK /\ GrantsAreOwn /\ Stakes /\ [Next]_vars => (TypeOK /\ GrantsAreOwn /\ Stakes)'
  BY TypeStep, OwnStep, StakesStep
<1>3. TypeOK /\ GrantsAreOwn /\ Stakes => BrokenAreFaults
  BY StakesCount
<1> QED
  BY <1>1, <1>2, <1>3, PTL DEF Spec

-----------------------------------------------------------------------------
(* The steps of a process, field by field.                                 *)

\* A process goes on from one step to another within the same call.
Turn(p, from, to) ==
  /\ proc[p].pc = from /\ proc'[p].pc = to
  /\ proc'[p].cmd = proc[p].cmd /\ proc'[p].did = proc[p].did
  /\ proc'[p].calls = proc[p].calls

SameSessions(p) == proc'[p].session = proc[p].session /\ proc'[p].own = proc[p].own
SamePrevious(p) == proc'[p].previous = proc[p].previous
SameFlags(p) ==
  /\ proc'[p].refreshing <=> proc[p].refreshing
  /\ proc'[p].refreshed <=> proc[p].refreshed
  /\ proc'[p].retried <=> proc[p].retried

\* A call or a command is over.
Ends(p) ==
  \/ proc'[p] = Idle
  \/ /\ proc[p].cmd = "publish" /\ (proc[p].refreshing \/ proc[p].pc \notin {"load", "secrets"})
     /\ proc[p].calls > 0
     /\ proc'[p].pc = "send" /\ proc'[p].cmd = "publish" /\ proc'[p].did = proc[p].did
     /\ proc'[p].calls = proc[p].calls - 1
     /\ proc'[p].session = proc[p].own /\ proc'[p].own = proc[p].own
     /\ ~proc'[p].refreshing /\ ~proc'[p].refreshed /\ ~proc'[p].retried

Failed(kind) == kind \in Faults /\ faults < MaxFaults /\ faults' = faults + 1

\* The steps that change neither file.
LoadTurn(p) ==
  /\ Turn(p, "load", "secrets") /\ SamePrevious(p) /\ SameFlags(p)
  /\ proc[p].did \in Known(index)
  /\ proc'[p].session = [secrets |-> None, meta |-> index.accounts[proc[p].did]]
  /\ proc'[p].own = proc[p].own
SecretsTurn(p) ==
  /\ \/ proc[p].refreshing /\ Turn(p, "secrets", "rotate") /\ proc'[p].own = proc[p].own
     \/ /\ ~proc[p].refreshing /\ proc'[p].own = proc'[p].session
        /\ \/ proc[p].cmd = "logout" /\ Turn(p, "secrets", "remove")
           \/ proc[p].cmd # "logout" /\ Turn(p, "secrets", "send")
  /\ SamePrevious(p) /\ SameFlags(p)
  /\ keyring[proc[p].did] # None
  /\ proc'[p].session = [secrets |-> keyring[proc[p].did], meta |-> proc[p].session.meta]
RotateTurn(p) ==
  /\ Turn(p, "rotate", "previous") /\ SamePrevious(p) /\ SameFlags(p)
  /\ proc'[p].session = SessionOf(Fresh) /\ proc'[p].own = proc[p].own
PreviousTurn(p) ==
  /\ Turn(p, "previous", "save") /\ SameSessions(p) /\ SameFlags(p)
  /\ \/ proc'[p].previous = keyring[proc[p].did] /\ UNCHANGED faults
     \/ proc'[p].previous = None /\ Failed("keyring")
MergeTurn(p) ==
  /\ SameSessions(p) /\ SamePrevious(p) /\ SameFlags(p)
  /\ \/ Turn(p, "merge", "write")
     \/ Turn(p, "merge", "restore") /\ Failed("disk")
CallTurn(p) ==
  /\ SameSessions(p) /\ SamePrevious(p)
  /\ \/ Turn(p, "send", "previous") /\ SameFlags(p)
     \/ /\ Turn(p, "send", "send") /\ ~proc[p].retried /\ proc'[p].retried
        /\ proc'[p].refreshing <=> proc[p].refreshing
        /\ proc'[p].refreshed <=> proc[p].refreshed
     \/ Turn(p, "send", "load") /\ ~proc[p].refreshed /\ proc'[p].refreshing
ReplaceTurn(p) ==
  /\ SamePrevious(p) /\ SameFlags(p)
  /\ Turn(p, "select", "activate") \/ Turn(p, "remove", "erase")
EndTurn(p) ==
  /\ Ends(p) /\ UNCHANGED <<keyring, index>>
  /\ proc[p].pc \notin {"merge", "write", "restore"}
  /\ proc[p].pc = "drop" => Failed("disk")

\* The steps that write to the keyring.
SaveTurn(p) ==
  /\ Turn(p, "save", "merge") /\ SameSessions(p) /\ SamePrevious(p) /\ SameFlags(p)
  /\ keyring' = [keyring EXCEPT ![proc[p].did] = proc[p].session.secrets]
RestoreTurn(p) ==
  /\ proc[p].pc = "restore" /\ Ends(p)
  /\ \/ keyring' = [keyring EXCEPT ![proc[p].did] = proc[p].previous] /\ UNCHANGED faults
     \/ UNCHANGED keyring /\ Failed("keyring")
EraseTurn(p) ==
  /\ Turn(p, "erase", "drop") /\ SamePrevious(p) /\ SameFlags(p)
  /\ keyring' = [keyring EXCEPT ![proc[p].did] = None]

\* The steps that write to the index.
WriteTurn(p) ==
  \/ Turn(p, "write", "restore") /\ SameSessions(p) /\ SamePrevious(p) /\ SameFlags(p)
     /\ Failed("disk") /\ UNCHANGED index
  \/ /\ index' = proc[p].copy
     /\ \/ proc[p].pc = "write" /\ Ends(p)
        \/ /\ Turn(p, "write", "send") /\ SameSessions(p) /\ SamePrevious(p)
           /\ proc[p].cmd = "publish" /\ proc[p].refreshing
           /\ ~proc'[p].refreshing /\ ~proc'[p].retried /\ proc'[p].refreshed
WroteTurn(p) ==
  /\ proc[p].pc \in {"activate", "drop"} /\ proc'[p] = Idle
  /\ index' = proc[p].copy

LEMMA EndsWhen ==
  ASSUME TypeOK, NEW p \in Procs, ~At(p, "idle"),
         \/ Return(p) /\ proc[p].pc \notin {"load", "secrets"}
         \/ NoLoad(p)
         \/ Stop(p)
  PROVE  Ends(p)
<1>a. proc[p] \in Active
  BY RunningIsActive
<1>1. CASE Stop(p)
  BY <1>1, BecomeOnly DEF Stop, Ends
<1>2. ASSUME Return(p), proc[p].refreshing \/ proc[p].pc \notin {"load", "secrets"}
      PROVE  Ends(p)
  <2> DEFINE q == [proc[p] EXCEPT !.pc = "send", !.calls = @ - 1,
                                  !.session = proc[p].own, !.refreshing = FALSE,
                                  !.nonce = FALSE,
                                  !.retried = FALSE, !.refreshed = FALSE]
  <2>1. /\ q.pc = "send" /\ q.own = proc[p].own /\ q.session = proc[p].own
        /\ q.cmd = proc[p].cmd /\ q.did = proc[p].did /\ q.calls = proc[p].calls - 1
        /\ ~q.refreshing /\ ~q.retried /\ ~q.refreshed
    BY <1>a DEF Active
  <2>2. Stop(p) \/ (proc[p].cmd = "publish" /\ proc[p].calls > 0 /\ Become(p, q))
    BY <1>2 DEF Return
  <2> HIDE DEF q
  <2>3. ASSUME proc[p].cmd = "publish", proc[p].calls > 0, Become(p, q) PROVE Ends(p)
    <3>1. proc'[p] = q
      BY <2>3, BecomeOnly
    <3> QED
      BY <1>2, <2>1, <2>3, <3>1 DEF Ends
  <2> QED
    BY <1>1, <2>2, <2>3
<1> QED
  BY <1>1, <1>2 DEF NoLoad

LEMMA LoadTurns ==
  ASSUME TypeOK, NEW p \in Procs, LoadMetadata(p) \/ LoadSecrets(p)
  PROVE  EndTurn(p) \/ LoadTurn(p) \/ SecretsTurn(p)
<1>a. ~At(p, "idle") /\ proc[p].pc \in {"load", "secrets"}
  BY DEF LoadMetadata, LoadSecrets, At
<1>b. proc[p] \in Active
  BY <1>a, RunningIsActive
<1>c. UNCHANGED <<keyring, index>>
  BY DEF LoadMetadata, LoadSecrets
<1>1. ASSUME NoLoad(p) \/ Stop(p) PROVE EndTurn(p)
  BY <1>1, <1>a, <1>c, EndsWhen DEF EndTurn
<1>2. CASE LoadMetadata(p)
  <2> DEFINE s == [secrets |-> None, meta |-> index.accounts[proc[p].did]]
             q == [proc[p] EXCEPT !.pc = "secrets", !.session = s]
  <2>1. NoLoad(p) \/ Stop(p) \/ (proc[p].did \in Known(index) /\ Become(p, q))
    BY <1>2 DEF LoadMetadata
  <2>2. proc[p].pc = "load"
    BY <1>2 DEF LoadMetadata, At
  <2> HIDE DEF s
  <2>3. /\ q.pc = "secrets" /\ q.session = s /\ q.own = proc[p].own
        /\ q.cmd = proc[p].cmd /\ q.did = proc[p].did /\ q.calls = proc[p].calls
        /\ q.previous = proc[p].previous /\ q.refreshing = proc[p].refreshing
        /\ q.refreshed = proc[p].refreshed /\ q.retried = proc[p].retried
    BY <1>b DEF Active
  <2> HIDE DEF q
  <2>4. ASSUME proc[p].did \in Known(index), Become(p, q) PROVE LoadTurn(p)
    <3>1. proc'[p] = q
      BY <2>4, BecomeOnly
    <3> QED
      BY <2>2, <2>3, <2>4, <3>1 DEF LoadTurn, Turn, SamePrevious, SameFlags, s
  <2> QED
    BY <1>1, <2>1, <2>4
<1>3. CASE LoadSecrets(p)
  <2> DEFINE k == keyring[proc[p].did]
             s == [proc[p].session EXCEPT !.secrets = k]
             own == IF proc[p].refreshing THEN proc[p].own ELSE s
             pc == IF proc[p].refreshing THEN "rotate"
                   ELSE IF proc[p].cmd = "logout" THEN "remove" ELSE "send"
             q == [proc[p] EXCEPT !.session = s, !.own = own, !.pc = pc]
  <2>1. NoLoad(p) \/ (k # None /\ Become(p, q)) \/ \E kind : Fault(kind) /\ NoLoad(p)
    BY <1>3 DEF LoadSecrets
  <2>2. s = [secrets |-> k, meta |-> proc[p].session.meta]
    BY <1>b DEF Active, Session
  <2>3. /\ own = IF proc[p].refreshing THEN proc[p].own ELSE s
        /\ pc = IF proc[p].refreshing THEN "rotate"
                ELSE IF proc[p].cmd = "logout" THEN "remove" ELSE "send"
    OBVIOUS
  <2>4. proc[p].pc = "secrets"
    BY <1>3 DEF LoadSecrets, At
  <2> HIDE DEF s, own, pc
  <2>5. /\ q.pc = pc /\ q.session = s /\ q.own = own
        /\ q.cmd = proc[p].cmd /\ q.did = proc[p].did /\ q.calls = proc[p].calls
        /\ q.previous = proc[p].previous /\ q.refreshing = proc[p].refreshing
        /\ q.refreshed = proc[p].refreshed /\ q.retried = proc[p].retried
    BY <1>b DEF Active
  <2> HIDE DEF q
  <2>6. ASSUME k # None, Become(p, q) PROVE SecretsTurn(p)
    <3>1. proc'[p] = q
      BY <2>6, BecomeOnly
    <3> QED
      BY <2>2, <2>3, <2>4, <2>5, <2>6, <3>1 DEF SecretsTurn, Turn, SamePrevious, SameFlags
  <2> QED
    BY <1>1, <2>1, <2>6
<1> QED
  BY <1>2, <1>3

LEMMA SaveTurns ==
  ASSUME TypeOK, NEW p \in Procs,
         \/ Rotate(p) \/ RotateFails(p) \/ FindPrevious(p) \/ SaveSecrets(p)
         \/ MergeIndex(p) \/ WriteIndex(p) \/ Restore(p)
  PROVE  \/ EndTurn(p) \/ RotateTurn(p) \/ PreviousTurn(p) \/ SaveTurn(p) \/ MergeTurn(p)
         \/ WriteTurn(p) \/ RestoreTurn(p)
<1>a. ~At(p, "idle")
  BY DEF Rotate, RotateFails, FindPrevious, SaveSecrets, MergeIndex, WriteIndex, Restore, At
<1>b. proc[p] \in Active
  BY <1>a, RunningIsActive
<1>1. ASSUME NEW pc, Goto(p, pc)
      PROVE  /\ Turn(p, proc[p].pc, pc) /\ SameSessions(p) /\ SamePrevious(p) /\ SameFlags(p)
  <2> DEFINE q == [proc[p] EXCEPT !.pc = pc]
  <2>1. /\ q.pc = pc /\ q.session = proc[p].session /\ q.own = proc[p].own
        /\ q.cmd = proc[p].cmd /\ q.did = proc[p].did /\ q.calls = proc[p].calls
        /\ q.previous = proc[p].previous /\ q.refreshing = proc[p].refreshing
        /\ q.refreshed = proc[p].refreshed /\ q.retried = proc[p].retried
    BY <1>b DEF Active
  <2>2. Become(p, q)
    BY <1>1 DEF Goto
  <2> HIDE DEF q
  <2>3. proc'[p] = q
    BY <2>2, BecomeOnly
  <2> QED
    BY <2>1, <2>3 DEF Turn, SameSessions, SamePrevious, SameFlags
<1>2. ASSUME Return(p), proc[p].pc \in {"rotate", "save", "write", "restore"}
      PROVE  Ends(p)
  BY <1>2, <1>a, EndsWhen
<1>3. CASE Rotate(p)
  <2> DEFINE s == SessionOf(Fresh)
             q == [proc[p] EXCEPT !.session = s, !.pc = "previous"]
  <2>1. /\ (Return(p) \/ Become(p, q)) /\ proc[p].pc = "rotate"
        /\ UNCHANGED <<keyring, index>>
    BY <1>3 DEF Rotate, At
  <2> HIDE DEF s
  <2>2. /\ q.pc = "previous" /\ q.session = s /\ q.own = proc[p].own
        /\ q.cmd = proc[p].cmd /\ q.did = proc[p].did /\ q.calls = proc[p].calls
        /\ q.previous = proc[p].previous /\ q.refreshing = proc[p].refreshing
        /\ q.refreshed = proc[p].refreshed /\ q.retried = proc[p].retried
    BY <1>b DEF Active
  <2> HIDE DEF q
  <2>3. ASSUME Become(p, q) PROVE RotateTurn(p)
    <3>1. proc'[p] = q
      BY <2>3, BecomeOnly
    <3> QED
      BY <2>1, <2>2, <3>1 DEF RotateTurn, Turn, SamePrevious, SameFlags, s
  <2> QED
    BY <1>2, <2>1, <2>3 DEF EndTurn
<1>4. CASE RotateFails(p)
  BY <1>2, <1>4 DEF RotateFails, At, EndTurn
<1>5. CASE FindPrevious(p)
  <2>1. PICK g : /\ Become(p, [proc[p] EXCEPT !.previous = g, !.pc = "save"])
                 /\ \/ g = keyring[proc[p].did] /\ UNCHANGED faults
                    \/ g = None /\ Failed("keyring")
    BY <1>5 DEF FindPrevious, Fault, Failed
  <2> DEFINE q == [proc[p] EXCEPT !.previous = g, !.pc = "save"]
  <2>2. /\ q.pc = "save" /\ q.session = proc[p].session /\ q.own = proc[p].own
        /\ q.cmd = proc[p].cmd /\ q.did = proc[p].did /\ q.calls = proc[p].calls
        /\ q.previous = g /\ q.refreshing = proc[p].refreshing
        /\ q.refreshed = proc[p].refreshed /\ q.retried = proc[p].retried
    BY <1>b DEF Active
  <2>3. Become(p, q) /\ proc[p].pc = "previous"
    BY <1>5, <2>1 DEF FindPrevious, At
  <2> HIDE DEF q
  <2>4. proc'[p] = q
    BY <2>3, BecomeOnly
  <2>5. PreviousTurn(p)
    BY <2>1, <2>2, <2>3, <2>4 DEF PreviousTurn, Turn, SameSessions, SameFlags
  <2> QED
    BY <2>5
<1>6. CASE SaveSecrets(p)
  <2>1. \/ Goto(p, "merge") /\ keyring' = [keyring EXCEPT ![proc[p].did] = proc[p].session.secrets]
        \/ Return(p) /\ UNCHANGED <<keyring, index>>
    BY <1>6 DEF SaveSecrets
  <2>2. proc[p].pc = "save"
    BY <1>6 DEF SaveSecrets, At
  <2> QED
    BY <1>1, <1>2, <2>1, <2>2 DEF SaveTurn, EndTurn
<1>7. CASE MergeIndex(p)
  <2> DEFINE new == Merged(p, proc[p].cmd = "login")
             q == [proc[p] EXCEPT !.copy = new, !.pc = "write"]
  <2>1. /\ Become(p, q) \/ (Goto(p, "restore") /\ Failed("disk"))
        /\ proc[p].pc = "merge"
    BY <1>7 DEF MergeIndex, Fault, Failed, At
  <2> HIDE DEF new
  <2>2. /\ q.pc = "write" /\ q.session = proc[p].session /\ q.own = proc[p].own
        /\ q.cmd = proc[p].cmd /\ q.did = proc[p].did /\ q.calls = proc[p].calls
        /\ q.previous = proc[p].previous /\ q.refreshing = proc[p].refreshing
        /\ q.refreshed = proc[p].refreshed /\ q.retried = proc[p].retried
    BY <1>b DEF Active
  <2> HIDE DEF q
  <2>3. ASSUME Become(p, q) PROVE MergeTurn(p)
    <3>1. proc'[p] = q
      BY <2>3, BecomeOnly
    <3> QED
      BY <2>1, <2>2, <3>1 DEF MergeTurn, Turn, SameSessions, SamePrevious, SameFlags
  <2>4. ASSUME Goto(p, "restore"), Failed("disk") PROVE MergeTurn(p)
    BY <1>1, <2>1, <2>4 DEF MergeTurn
  <2> QED
    BY <2>1, <2>3, <2>4
<1>8. CASE WriteIndex(p)
  <2> DEFINE q == [proc[p] EXCEPT !.pc = "send", !.refreshing = FALSE,
                                  !.retried = FALSE, !.refreshed = TRUE]
  <2>1. \/ /\ proc[p].cmd = "publish" /\ proc[p].refreshing
           /\ Become(p, q) /\ index' = proc[p].copy
        \/ Return(p) /\ index' = proc[p].copy
        \/ Goto(p, "restore") /\ UNCHANGED index /\ Failed("disk")
    BY <1>8 DEF WriteIndex, Fault, Failed
  <2>2. /\ q.pc = "send" /\ q.session = proc[p].session /\ q.own = proc[p].own
        /\ q.cmd = proc[p].cmd /\ q.did = proc[p].did /\ q.calls = proc[p].calls
        /\ q.previous = proc[p].previous /\ ~q.refreshing
        /\ q.refreshed /\ ~q.retried
    BY <1>b DEF Active
  <2>3. proc[p].pc = "write"
    BY <1>8 DEF WriteIndex, At
  <2> HIDE DEF q
  <2>4. ASSUME proc[p].cmd = "publish", proc[p].refreshing, Become(p, q),
               index' = proc[p].copy
        PROVE  WriteTurn(p)
    <3>1. proc'[p] = q
      BY <2>4, BecomeOnly
    <3> QED
      BY <2>2, <2>3, <2>4, <3>1 DEF WriteTurn, Turn, SameSessions, SamePrevious
  <2>5. ASSUME Goto(p, "restore"), UNCHANGED index, Failed("disk") PROVE WriteTurn(p)
    BY <1>1, <2>3, <2>5 DEF WriteTurn
  <2>6. ASSUME Return(p), index' = proc[p].copy PROVE WriteTurn(p)
    BY <1>2, <2>3, <2>6 DEF WriteTurn
  <2> QED
    BY <2>1, <2>4, <2>5, <2>6
<1>9. CASE Restore(p)
  <2>1. Return(p) /\ proc[p].pc = "restore"
    BY <1>9 DEF Restore, At
  <2>2. \/ keyring' = [keyring EXCEPT ![proc[p].did] = proc[p].previous] /\ UNCHANGED faults
        \/ UNCHANGED keyring /\ Failed("keyring")
    BY <1>9 DEF Restore, Fault, Failed
  <2>3. RestoreTurn(p)
    BY <1>2, <2>1, <2>2 DEF RestoreTurn
  <2> QED
    BY <2>3
<1> QED
  BY <1>3, <1>4, <1>5, <1>6, <1>7, <1>8, <1>9

LEMMA ReplaceTurns ==
  ASSUME TypeOK, NEW p \in Procs,
         \/ SelectAccount(p) \/ Activate(p)
         \/ FindAccount(p) \/ EraseSecrets(p) \/ DropAccount(p)
  PROVE  EndTurn(p) \/ ReplaceTurn(p) \/ EraseTurn(p) \/ WroteTurn(p)
<1>a. ~At(p, "idle")
  BY DEF SelectAccount, Activate, FindAccount, EraseSecrets, DropAccount, Replace, At
<1>b. proc[p] \in Active
  BY <1>a, RunningIsActive
<1>1. ASSUME Stop(p) PROVE Ends(p) /\ proc'[p] = Idle
  BY <1>1, <1>a, EndsWhen, BecomeOnly DEF Stop
<1>2. ASSUME NEW copy, NEW pc, Become(p, [proc[p] EXCEPT !.copy = copy, !.pc = pc])
      PROVE  Turn(p, proc[p].pc, pc) /\ SamePrevious(p) /\ SameFlags(p)
  <2> DEFINE q == [proc[p] EXCEPT !.copy = copy, !.pc = pc]
  <2>1. /\ q.pc = pc /\ q.cmd = proc[p].cmd /\ q.did = proc[p].did
        /\ q.calls = proc[p].calls /\ q.previous = proc[p].previous
        /\ q.refreshing = proc[p].refreshing /\ q.refreshed = proc[p].refreshed
        /\ q.retried = proc[p].retried
    BY <1>b DEF Active
  <2>2. Become(p, q)
    BY <1>2
  <2> HIDE DEF q
  <2>3. proc'[p] = q
    BY <2>2, BecomeOnly
  <2> QED
    BY <2>1, <2>3 DEF Turn, SamePrevious, SameFlags
<1>3. CASE SelectAccount(p) \/ FindAccount(p)
  <2> DEFINE chosen == [index EXCEPT !.active = proc[p].did]
             left == Without(index, proc[p].did)
  <2>1. \/ Stop(p)
        \/ /\ proc[p].pc = "select"
           /\ Become(p, [proc[p] EXCEPT !.copy = chosen, !.pc = "activate"])
        \/ /\ proc[p].pc = "remove"
           /\ Become(p, [proc[p] EXCEPT !.copy = left, !.pc = "erase"])
    BY <1>3 DEF SelectAccount, FindAccount, At
  <2> HIDE DEF chosen, left
  <2>2. proc[p].pc \in {"select", "remove"} /\ UNCHANGED <<keyring, index>>
    BY <1>3 DEF SelectAccount, FindAccount, At
  <2>3. ASSUME Stop(p) PROVE EndTurn(p)
    BY <1>1, <2>2, <2>3 DEF EndTurn
  <2>4. CASE /\ proc[p].pc = "select"
             /\ Become(p, [proc[p] EXCEPT !.copy = chosen, !.pc = "activate"])
    <3>1. Turn(p, proc[p].pc, "activate") /\ SamePrevious(p) /\ SameFlags(p)
      BY <1>2, <2>4
    <3>2. ReplaceTurn(p)
      BY <2>4, <3>1 DEF ReplaceTurn, Turn
    <3> QED
      BY <3>2
  <2>5. CASE /\ proc[p].pc = "remove"
             /\ Become(p, [proc[p] EXCEPT !.copy = left, !.pc = "erase"])
    <3>1. Turn(p, proc[p].pc, "erase") /\ SamePrevious(p) /\ SameFlags(p)
      BY <1>2, <2>5
    <3>2. ReplaceTurn(p)
      BY <2>5, <3>1 DEF ReplaceTurn, Turn
    <3> QED
      BY <3>2
  <2> QED
    BY <2>1, <2>3, <2>4, <2>5
<1>4. CASE Activate(p) \/ DropAccount(p)
  <2>1. /\ Stop(p) /\ proc[p].pc \in {"activate", "drop"}
        /\ index' = proc[p].copy \/ (UNCHANGED <<keyring, index>> /\ Failed("disk"))
    BY <1>4 DEF Activate, DropAccount, Replace, At, Fault, Failed
  <2> QED
    BY <1>1, <2>1 DEF WroteTurn, EndTurn
<1>5. CASE EraseSecrets(p)
  <2> DEFINE q == [proc[p] EXCEPT !.pc = "drop"]
  <2>1. q.pc = "drop" /\ q.cmd = proc[p].cmd /\ q.did = proc[p].did
        /\ q.calls = proc[p].calls /\ q.previous = proc[p].previous
        /\ q.refreshing = proc[p].refreshing /\ q.refreshed = proc[p].refreshed
        /\ q.retried = proc[p].retried
    BY <1>b DEF Active
  <2>2. \/ Become(p, q) /\ keyring' = [keyring EXCEPT ![proc[p].did] = None]
        \/ Stop(p) /\ UNCHANGED <<keyring, index>>
    BY <1>5 DEF EraseSecrets, Goto
  <2>3. proc[p].pc = "erase"
    BY <1>5 DEF EraseSecrets, At
  <2> HIDE DEF q
  <2>4. ASSUME Become(p, q), keyring' = [keyring EXCEPT ![proc[p].did] = None]
        PROVE  EraseTurn(p)
    <3>1. proc'[p] = q
      BY <2>4, BecomeOnly
    <3> QED
      BY <2>1, <2>3, <2>4, <3>1 DEF EraseTurn, Turn, SamePrevious, SameFlags
  <2> QED
    BY <1>1, <2>2, <2>3, <2>4 DEF EndTurn
<1> QED
  BY <1>3, <1>4, <1>5

LEMMA CallTurns ==
  ASSUME TypeOK, NEW p \in Procs,
         EndCall(p) \/ AcceptWithNonce(p) \/ Challenge(p) \/ Deny(p)
  PROVE  EndTurn(p) \/ CallTurn(p)
<1>a. ~At(p, "idle") /\ proc[p].pc = "send"
  BY DEF EndCall, AcceptWithNonce, Challenge, Deny, Sending, At
<1>b. proc[p] \in Active
  BY <1>a, RunningIsActive
<1>1. CASE EndCall(p)
  BY <1>1, <1>a, EndsWhen DEF EndCall, EndTurn
<1>2. CASE AcceptWithNonce(p)
  <2> DEFINE q == [proc[p] EXCEPT !.pc = "previous"]
  <2>1. /\ q.pc = "previous" /\ q.session = proc[p].session /\ q.own = proc[p].own
        /\ q.cmd = proc[p].cmd /\ q.did = proc[p].did /\ q.calls = proc[p].calls
        /\ q.previous = proc[p].previous /\ q.refreshing = proc[p].refreshing
        /\ q.refreshed = proc[p].refreshed /\ q.retried = proc[p].retried
    BY <1>b DEF Active
  <2>2. Become(p, q)
    BY <1>2 DEF AcceptWithNonce, Goto
  <2> HIDE DEF q
  <2>3. proc'[p] = q
    BY <2>2, BecomeOnly
  <2>4. CallTurn(p)
    BY <1>a, <2>1, <2>3 DEF CallTurn, Turn, SameSessions, SamePrevious, SameFlags
  <2> QED
    BY <2>4
<1>3. CASE Challenge(p)
  <2> DEFINE q == [proc[p] EXCEPT !.nonce = ~@, !.retried = TRUE]
  <2>1. /\ q.pc = proc[p].pc /\ q.session = proc[p].session /\ q.own = proc[p].own
        /\ q.cmd = proc[p].cmd /\ q.did = proc[p].did /\ q.calls = proc[p].calls
        /\ q.previous = proc[p].previous /\ q.refreshing = proc[p].refreshing
        /\ q.refreshed = proc[p].refreshed /\ q.retried
    BY <1>b DEF Active
  <2>2. Become(p, q) /\ ~proc[p].retried
    BY <1>3 DEF Challenge
  <2> HIDE DEF q
  <2>3. proc'[p] = q
    BY <2>2, BecomeOnly
  <2>4. CallTurn(p)
    BY <1>a, <2>1, <2>2, <2>3 DEF CallTurn, Turn, SameSessions, SamePrevious
  <2> QED
    BY <2>4
<1>4. CASE Deny(p)
  <2> DEFINE q == [proc[p] EXCEPT !.refreshing = TRUE, !.pc = "load"]
  <2>1. /\ q.pc = "load" /\ q.session = proc[p].session /\ q.own = proc[p].own
        /\ q.cmd = proc[p].cmd /\ q.did = proc[p].did /\ q.calls = proc[p].calls
        /\ q.previous = proc[p].previous /\ q.refreshing
    BY <1>b DEF Active
  <2>2. Become(p, q) /\ ~proc[p].refreshed
    BY <1>4 DEF Deny
  <2> HIDE DEF q
  <2>3. proc'[p] = q
    BY <2>2, BecomeOnly
  <2>4. CallTurn(p)
    BY <1>a, <2>1, <2>2, <2>3 DEF CallTurn, Turn, SameSessions, SamePrevious
  <2> QED
    BY <2>4
<1> QED
  BY <1>1, <1>2, <1>3, <1>4

\* What a step of a process is, whichever action it is.
LEMMA AdvanceTurns ==
  ASSUME TypeOK, NEW p \in Procs, Advance(p)
  PROVE  /\ \/ EndTurn(p) \/ LoadTurn(p) \/ SecretsTurn(p) \/ RotateTurn(p)
            \/ PreviousTurn(p) \/ MergeTurn(p) \/ CallTurn(p) \/ ReplaceTurn(p)
            \/ SaveTurn(p) \/ RestoreTurn(p) \/ EraseTurn(p)
            \/ WriteTurn(p) \/ WroteTurn(p)
         /\ UNCHANGED keyring \/ SaveTurn(p) \/ RestoreTurn(p) \/ EraseTurn(p)
         /\ UNCHANGED index \/ WriteTurn(p) \/ WroteTurn(p)
         /\ faults' = faults \/ faults' = faults + 1
<1>1. \/ EndTurn(p) \/ LoadTurn(p) \/ SecretsTurn(p) \/ RotateTurn(p)
      \/ PreviousTurn(p) \/ MergeTurn(p) \/ CallTurn(p) \/ ReplaceTurn(p)
      \/ SaveTurn(p) \/ RestoreTurn(p) \/ EraseTurn(p)
      \/ WriteTurn(p) \/ WroteTurn(p)
  BY LoadTurns, SaveTurns, ReplaceTurns, CallTurns DEF Advance
<1>2. /\ UNCHANGED keyring \/ proc[p].pc \in {"save", "restore", "erase"}
      /\ UNCHANGED index \/ proc[p].pc \in {"write", "activate", "drop"}
      /\ faults' = faults \/ faults' = faults + 1
  BY DEF Advance, LoadMetadata, LoadSecrets, Rotate, RotateFails, FindPrevious,
         SaveSecrets, MergeIndex, WriteIndex, Restore, SelectAccount, Activate, FindAccount,
         EraseSecrets, DropAccount, Replace, EndCall, AcceptWithNonce, Challenge, Deny, At,
         Fault
<1>3. /\ LoadTurn(p) => proc[p].pc = "load"
      /\ SecretsTurn(p) => proc[p].pc = "secrets"
      /\ RotateTurn(p) => proc[p].pc = "rotate"
      /\ PreviousTurn(p) => proc[p].pc = "previous"
      /\ MergeTurn(p) => proc[p].pc = "merge"
      /\ CallTurn(p) => proc[p].pc = "send"
      /\ ReplaceTurn(p) => proc[p].pc \in {"select", "remove"}
      /\ SaveTurn(p) => proc[p].pc = "save"
      /\ RestoreTurn(p) => proc[p].pc = "restore"
      /\ EraseTurn(p) => proc[p].pc = "erase"
      /\ WriteTurn(p) => proc[p].pc = "write"
      /\ WroteTurn(p) => proc[p].pc \in {"activate", "drop"}
      /\ EndTurn(p) => UNCHANGED <<keyring, index>>
  BY DEF LoadTurn, SecretsTurn, RotateTurn, PreviousTurn, MergeTurn, CallTurn, ReplaceTurn,
         SaveTurn, RestoreTurn, EraseTurn, WriteTurn, WroteTurn, EndTurn, Turn
<1> QED
  BY <1>1, <1>2, <1>3

-----------------------------------------------------------------------------
(* The number of steps.                                                     *)

\* A session is refreshed before a call is sent again, not while it is sent.
Sent(q) == q.pc = "send" => ~q.refreshing
AllSent == \A p \in Procs : Sent(proc[p])

LEMMA AdvanceSent ==
  ASSUME TypeOK, NEW p \in Procs, Advance(p), Sent(proc[p])
  PROVE  Sent(proc'[p])
<1>1. Idle.pc = "idle"
  BY IdleFacts
<1>2. Ends(p) => Sent(proc'[p])
  BY <1>1 DEF Ends, Sent
<1> QED
  BY <1>1, <1>2, AdvanceTurns
     DEF Sent, EndTurn, LoadTurn, SecretsTurn, RotateTurn, PreviousTurn, MergeTurn, CallTurn,
         ReplaceTurn, SaveTurn, RestoreTurn, EraseTurn, WriteTurn, WroteTurn, Turn, SameFlags

LEMMA SentStep == TypeOK /\ AllSent /\ [Next]_vars => AllSent'
<1> SUFFICES ASSUME TypeOK, AllSent, [Next]_vars, NEW o \in Procs
             PROVE  Sent(proc'[o])
  BY DEF AllSent
<1>1. Sent(proc[o])
  BY DEF AllSent
<1>2. ASSUME NEW p \in Procs, NEW d \in Dids, Begin(p, d) PROVE Sent(proc'[o])
  <2>1. \A q : Begun(q, d) => Sent(q)
    BY DEF Begun, Sent
  <2> QED
    BY <1>1, <1>2, <2>1, BeginOnly
<1>3. ASSUME NEW p \in Procs, Advance(p) PROVE Sent(proc'[o])
  BY <1>1, <1>3, AdvanceSent, AdvanceOthers
<1>4. ASSUME NEW p \in Procs, Crash(p) PROVE Sent(proc'[o])
  <2>1. Sent(Idle)
    BY IdleFacts DEF Sent
  <2> QED
    BY <1>1, <1>4, <2>1, BecomeOnly DEF Crash, Stop
<1> QED
  BY <1>1, <1>2, <1>3, <1>4 DEF Next, Expire, vars

\* A running process has steps to take, an idle one has none.
LEMMA StepsAhead ==
  /\ StepsLeft(Idle) = 0
  /\ \A q \in Active : CallSteps(q) \in Nat \ {0}
<1>1. CallSteps(Idle) = 0 /\ Idle.calls = 0
  BY DEF Idle, CallSteps, Ahead
<1>2. ASSUME NEW q \in Active PROVE CallSteps(q) \in Nat \ {0}
  <2>1. q.pc \in Step
    BY DEF Active
  <2>2. CASE q.pc = "send"
    BY <2>2 DEF CallSteps
  <2>3. CASE q.pc # "send"
    <3>1. Ahead(q.pc) \in Nat \ {0}
      BY <2>1, <2>3 DEF Step, Ahead
    <3> HIDE DEF Ahead
    <3> QED
      BY <2>3, <3>1 DEF CallSteps
  <2> QED
    BY <2>2, <2>3
<1> QED
  BY <1>1, <1>2 DEF StepsLeft

\* Within a call its steps become fewer; when it ends the calls do.
LEMMA AdvanceShortens ==
  ASSUME TypeOK, NEW p \in Procs, Advance(p), Sent(proc[p])
  PROVE  StepsLeft(proc'[p]) < StepsLeft(proc[p])
<1>a. proc[p] \in Active
  <2>1. ~At(p, "idle")
    BY DEF Advance, LoadMetadata, LoadSecrets, Rotate, RotateFails, FindPrevious,
           SaveSecrets, MergeIndex, WriteIndex, Restore, SelectAccount, Activate, FindAccount,
           EraseSecrets, DropAccount, Replace, EndCall, AcceptWithNonce, Challenge, Deny,
           Sending, At
  <2> QED
    BY <2>1, RunningIsActive
<1>b. proc[p].calls \in Nat /\ CallSteps(proc[p]) \in Nat \ {0}
  BY <1>a, StepsAhead DEF Active
<1>1. CASE Ends(p)
  <2>1. CASE proc'[p] = Idle
    BY <1>b, <2>1, StepsAhead DEF StepsLeft
  <2>2. CASE /\ proc'[p].calls = proc[p].calls - 1 /\ proc'[p].pc = "send"
             /\ ~proc'[p].refreshed /\ ~proc'[p].retried
    <3>1. CallSteps(proc'[p]) = 17
      BY <2>2 DEF CallSteps
    <3> QED
      BY <1>b, <2>2, <3>1 DEF StepsLeft
  <2> QED
    BY <1>1, <2>1, <2>2 DEF Ends
<1>2. CASE /\ proc'[p].calls = proc[p].calls
           /\ CallSteps(proc'[p]) \in Nat /\ CallSteps(proc'[p]) < CallSteps(proc[p])
  BY <1>b, <1>2 DEF StepsLeft
<1>3. CASE \/ LoadTurn(p) \/ SecretsTurn(p) \/ RotateTurn(p) \/ PreviousTurn(p)
           \/ SaveTurn(p) \/ MergeTurn(p)
  <2>1. /\ proc'[p].calls = proc[p].calls
        /\ CallSteps(proc'[p]) \in Nat /\ CallSteps(proc'[p]) < CallSteps(proc[p])
    BY <1>3 DEF LoadTurn, SecretsTurn, RotateTurn, PreviousTurn, SaveTurn, MergeTurn, Turn,
                SameFlags, CallSteps, Ahead
  <2> QED
    BY <1>2, <2>1
<1>4. CASE CallTurn(p) \/ ReplaceTurn(p) \/ EraseTurn(p)
  <2>1. /\ proc'[p].calls = proc[p].calls
        /\ CallSteps(proc'[p]) \in Nat /\ CallSteps(proc'[p]) < CallSteps(proc[p])
    BY <1>4 DEF CallTurn, ReplaceTurn, EraseTurn, Turn, SameFlags, CallSteps, Ahead, Sent
  <2> QED
    BY <1>2, <2>1
<1>5. CASE WriteTurn(p)
  <2>1. CASE ~Ends(p)
    <3>1. /\ proc'[p].calls = proc[p].calls
          /\ CallSteps(proc'[p]) \in Nat /\ CallSteps(proc'[p]) < CallSteps(proc[p])
      BY <1>5, <2>1 DEF WriteTurn, Turn, SameFlags, CallSteps, Ahead
    <3> QED
      BY <1>2, <3>1
  <2> QED
    BY <1>1, <2>1
<1> QED
  BY <1>1, <1>3, <1>4, <1>5, AdvanceTurns DEF EndTurn, RestoreTurn, WroteTurn, Ends

\* No command goes on for ever: each step leaves it fewer to take, whatever fails,
\* however many commands overlap and however often the servers challenge and deny
\* (internal/protocol/atproto/xrpc.go:131-143).
THEOREM StepsAlwaysBounded == Spec => StepsAreBounded
<1>1. Init => AllSent
  BY IdleFacts DEF Init, AllSent, Sent
<1>2. TypeOK /\ AllSent /\ [Next]_vars => AllSent'
  BY SentStep
<1>3. TypeOK /\ AllSent =>
        \A p \in Procs : Advance(p) => StepsLeft(proc'[p]) < StepsLeft(proc[p])
  BY AdvanceShortens DEF AllSent
<1> QED
  BY <1>1, <1>2, <1>3, TypeInit, TypeStep, PTL DEF Spec, StepsAreBounded

=============================================================================
