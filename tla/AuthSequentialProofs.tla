------------------------- MODULE AuthSequentialProofs -------------------------
(***************************************************************************)
(* Theorems about AuthStore when commands run one at a time.  What a       *)
(* command read of the index is then still there when it writes, so that   *)
(* every write of the index is one operation of AccountRegistry.           *)
(***************************************************************************)
EXTENDS AuthStoreProofs

OneAtATime == \A p, o \in Procs : At(p, "idle") \/ At(o, "idle") \/ p = o

\* A session is loaded, rotated, saved or used only for an account that the
\* index lists, unless a login is what adds it.
Listed(idx, q) ==
  /\ q.pc \in {"secrets", "rotate", "previous", "save", "merge", "write", "send"}
       /\ q.cmd # "login" => q.did \in Known(idx)
  /\ q.cmd = "publish" /\ (q.refreshing \/ q.pc \notin {"load", "secrets"}) =>
       q.did \in Known(idx)

\* What a process is about to write is one change away from the index.
Current(idx, q) ==
  /\ q.pc = "write" =>
       q.copy = [active   |-> IF q.cmd = "login" THEN q.did ELSE idx.active,
                 accounts |-> [idx.accounts EXCEPT ![q.did] = q.session.meta]]
  /\ q.pc \in {"select", "activate"} => q.cmd = "switch"
  /\ q.pc = "activate" =>
       q.did \in Known(idx) /\ q.copy = [idx EXCEPT !.active = q.did]
  /\ q.pc \in {"remove", "erase", "drop"} => q.cmd = "logout"
  /\ q.pc \in {"erase", "drop"} =>
       q.did \in Known(idx) /\ q.copy = Without(idx, q.did)

SequentialInv ==
  /\ TypeOK /\ Sessions /\ ActiveIsKnown
  /\ OneAtATime
  /\ \A p \in Procs : Listed(index, proc[p]) /\ Current(index, proc[p])

-----------------------------------------------------------------------------
(* The steps of one process.                                               *)

LEMMA IdleIsCurrent == \A idx : Listed(idx, Idle) /\ Current(idx, Idle)
BY DEF Idle, Listed, Current

LEMMA IdleIsIdle ==
  ASSUME TypeOK, NEW p \in Procs, At(p, "idle")
  PROVE  proc[p] = Idle
BY DEF TypeOK, Process, Active, Step, At

\* A call or a command that ends leaves nothing to write.
LEMMA ReturnCurrent ==
  ASSUME TypeOK, NEW p \in Procs, ~At(p, "idle"), NEW idx, Listed(idx, proc[p]),
         \/ Return(p) /\ proc[p].pc \notin {"load", "secrets"}
         \/ NoLoad(p)
         \/ Stop(p)
  PROVE  Listed(idx, proc'[p]) /\ Current(idx, proc'[p])
<1>a. proc[p] \in Active
  BY RunningIsActive
<1>1. CASE Stop(p)
  BY <1>1, BecomeOnly, IdleIsCurrent DEF Stop
<1>2. ASSUME Return(p), proc[p].refreshing \/ proc[p].pc \notin {"load", "secrets"}
      PROVE  Listed(idx, proc'[p]) /\ Current(idx, proc'[p])
  <2> DEFINE q == [proc[p] EXCEPT !.pc = "send", !.calls = @ - 1,
                                  !.session = proc[p].own, !.refreshing = FALSE,
                                  !.nonce = FALSE,
                                  !.retried = FALSE, !.refreshed = FALSE]
  <2>1. q.pc = "send" /\ q.did = proc[p].did
    BY <1>a DEF Active
  <2>2. Stop(p) \/ (proc[p].cmd = "publish" /\ Become(p, q))
    BY <1>2 DEF Return
  <2> HIDE DEF q
  <2>3. proc[p].cmd = "publish" => proc[p].did \in Known(idx)
    BY <1>2 DEF Listed
  <2>4. proc[p].cmd = "publish" => Listed(idx, q) /\ Current(idx, q)
    BY <2>1, <2>3 DEF Listed, Current
  <2> QED
    BY <1>1, <2>2, <2>4, BecomeOnly
<1> QED
  BY <1>1, <1>2 DEF NoLoad

\* A step that only moves on, between steps that write nothing.
LEMMA GotoCurrent ==
  ASSUME TypeOK, NEW p \in Procs, ~At(p, "idle"), NEW pc, Goto(p, pc), UNCHANGED index,
         Listed(index, proc[p]), Current(index, proc[p]),
         \/ pc \in {"previous", "save", "merge"}
            /\ proc[p].pc \in {"previous", "save", "merge", "send"}
         \/ pc = "restore" /\ proc[p].pc \in {"merge", "write"}
         \/ pc = "drop" /\ proc[p].pc = "erase"
  PROVE  Listed(index', proc'[p]) /\ Current(index', proc'[p])
<1> DEFINE q == [proc[p] EXCEPT !.pc = pc]
<1>1. proc[p] \in Active
  BY RunningIsActive
<1>2. /\ q.pc = pc /\ q.cmd = proc[p].cmd /\ q.did = proc[p].did
      /\ q.copy = proc[p].copy /\ q.refreshing = proc[p].refreshing
      /\ q.session = proc[p].session
  BY <1>1 DEF Active
<1>3. Become(p, q)
  BY DEF Goto
<1> HIDE DEF q
<1>4. proc'[p] = q
  BY <1>3, BecomeOnly
<1> QED
  BY <1>2, <1>4 DEF Listed, Current

\* A save leaves the index with the account it is for.
LEMMA WriteLists ==
  ASSUME TypeOK, NEW p \in Procs, ~At(p, "idle"), HasSession(proc[p]),
         Current(index, proc[p]), At(p, "write"), index' = proc[p].copy
  PROVE  proc[p].did \in Known(index') /\ Known(index') = Known(index) \cup {proc[p].did}
<1>1. proc[p] \in Active /\ index \in Index
  BY RunningIsActive DEF TypeOK
<1>2. index'.accounts = [index.accounts EXCEPT ![proc[p].did] = proc[p].session.meta]
  BY DEF Current, At
<1>3. proc[p].did \in Dids /\ proc[p].session.meta # None
  BY <1>1 DEF Active, HasSession, At
<1> QED
  BY <1>1, <1>2, <1>3 DEF Known, Index

LEMMA AdvanceCurrent ==
  ASSUME TypeOK, NEW p \in Procs, Advance(p), HasSession(proc[p]),
         Listed(index, proc[p]), Current(index, proc[p])
  PROVE  Listed(index', proc'[p]) /\ Current(index', proc'[p])
<1>a. ~At(p, "idle")
  BY DEF Advance, LoadMetadata, LoadSecrets, Rotate, RotateFails, FindPrevious,
         SaveSecrets, MergeIndex, WriteIndex, Restore, SelectAccount, Activate, FindAccount,
         EraseSecrets, DropAccount, Replace, EndCall, AcceptWithNonce, Challenge, Deny,
         Sending, At
<1>b. proc[p] \in Active
  BY <1>a, RunningIsActive
<1>1. CASE LoadMetadata(p)
  <2> DEFINE s == [secrets |-> None, meta |-> index.accounts[proc[p].did]]
             q == [proc[p] EXCEPT !.pc = "secrets", !.session = s]
  <2>1. UNCHANGED index /\ proc[p].pc = "load"
    BY <1>1 DEF LoadMetadata, At
  <2>2. NoLoad(p) \/ Stop(p) \/ (proc[p].did \in Known(index) /\ Become(p, q))
    BY <1>1 DEF LoadMetadata
  <2> HIDE DEF s
  <2>3. q.pc = "secrets" /\ q.did = proc[p].did
    BY <1>b DEF Active
  <2> HIDE DEF q
  <2>4. proc[p].did \in Known(index) => Listed(index, q) /\ Current(index, q)
    BY <2>3 DEF Listed, Current
  <2> QED
    BY <1>a, <2>1, <2>2, <2>4, ReturnCurrent, BecomeOnly
<1>2. CASE LoadSecrets(p)
  <2> DEFINE s == [proc[p].session EXCEPT !.secrets = keyring[proc[p].did]]
             own == IF proc[p].refreshing THEN proc[p].own ELSE s
             pc == IF proc[p].refreshing THEN "rotate"
                   ELSE IF proc[p].cmd = "logout" THEN "remove" ELSE "send"
             q == [proc[p] EXCEPT !.session = s, !.own = own, !.pc = pc]
  <2>1. UNCHANGED index /\ proc[p].pc = "secrets"
    BY <1>2 DEF LoadSecrets, At
  <2>2. NoLoad(p) \/ Become(p, q)
    BY <1>2 DEF LoadSecrets
  <2>3. pc \in {"rotate", "send"} \/ (pc = "remove" /\ proc[p].cmd = "logout")
    OBVIOUS
  <2> HIDE DEF s, own, pc
  <2>4. q.pc = pc /\ q.did = proc[p].did /\ q.cmd = proc[p].cmd
    BY <1>b DEF Active
  <2> HIDE DEF q
  <2>5. Listed(index, q) /\ Current(index, q)
    BY <2>1, <2>3, <2>4 DEF Listed, Current
  <2> QED
    BY <1>a, <2>1, <2>2, <2>5, ReturnCurrent, BecomeOnly
<1>3. CASE Rotate(p)
  <2> DEFINE s == SessionOf(Fresh)
             q == [proc[p] EXCEPT !.session = s, !.pc = "previous"]
  <2>1. UNCHANGED index /\ proc[p].pc = "rotate" /\ (Return(p) \/ Become(p, q))
    BY <1>3 DEF Rotate, At
  <2> HIDE DEF s
  <2>2. q.pc = "previous" /\ q.did = proc[p].did /\ q.cmd = proc[p].cmd
    BY <1>b DEF Active
  <2> HIDE DEF q
  <2>3. Listed(index, q) /\ Current(index, q)
    BY <2>1, <2>2 DEF Listed, Current
  <2> QED
    BY <1>a, <2>1, <2>3, ReturnCurrent, BecomeOnly
<1>4. CASE FindPrevious(p)
  <2>1. UNCHANGED index /\ proc[p].pc = "previous"
    BY <1>4 DEF FindPrevious, At
  <2>2. PICK g : Become(p, [proc[p] EXCEPT !.previous = g, !.pc = "save"])
    BY <1>4 DEF FindPrevious
  <2> DEFINE q == [proc[p] EXCEPT !.previous = g, !.pc = "save"]
  <2>3. q.pc = "save" /\ q.did = proc[p].did /\ q.cmd = proc[p].cmd
    BY <1>b DEF Active
  <2>4. Become(p, q)
    BY <2>2
  <2> HIDE DEF q
  <2>5. Listed(index, q) /\ Current(index, q)
    BY <2>1, <2>3 DEF Listed, Current
  <2> QED
    BY <2>1, <2>4, <2>5, BecomeOnly
<1>5. CASE MergeIndex(p)
  <2> DEFINE new == Merged(p, proc[p].cmd = "login")
             q == [proc[p] EXCEPT !.copy = new, !.pc = "write"]
  <2>1. UNCHANGED index /\ proc[p].pc = "merge" /\ (Goto(p, "restore") \/ Become(p, q))
    BY <1>5 DEF MergeIndex, At
  <2>2. new = [active   |-> IF proc[p].cmd = "login" THEN proc[p].did ELSE index.active,
               accounts |-> [index.accounts EXCEPT ![proc[p].did] = proc[p].session.meta]]
    BY DEF Merged
  <2> HIDE DEF new
  <2>3. /\ q.pc = "write" /\ q.did = proc[p].did /\ q.cmd = proc[p].cmd
        /\ q.copy = new /\ q.session = proc[p].session
    BY <1>b DEF Active
  <2> HIDE DEF q
  <2>4. Listed(index, q)
    BY <2>1, <2>3 DEF Listed
  <2>5. Current(index, q)
    BY <2>2, <2>3 DEF Current
  <2> QED
    BY <1>a, <2>1, <2>4, <2>5, GotoCurrent, BecomeOnly
<1>6. CASE WriteIndex(p)
  <2> DEFINE q == [proc[p] EXCEPT !.pc = "send", !.refreshing = FALSE,
                                  !.retried = FALSE, !.refreshed = TRUE]
  <2>1. proc[p].pc = "write"
    BY <1>6 DEF WriteIndex, At
  <2>2. \/ index' = proc[p].copy /\ (Become(p, q) \/ Return(p))
        \/ UNCHANGED index /\ Goto(p, "restore")
    BY <1>6 DEF WriteIndex
  <2>3. q.pc = "send" /\ q.did = proc[p].did
    BY <1>b DEF Active
  <2> HIDE DEF q
  <2>4. ASSUME index' = proc[p].copy
        PROVE  Listed(index', q) /\ Current(index', q) /\ Listed(index', proc[p])
    <3>1. proc[p].did \in Known(index')
      BY <1>a, <2>1, <2>4, WriteLists DEF At
    <3> QED
      BY <2>3, <3>1 DEF Listed, Current
  <2> QED
    BY <1>a, <2>1, <2>2, <2>4, ReturnCurrent, GotoCurrent, BecomeOnly
<1>7. CASE SelectAccount(p)
  <2> DEFINE new == [index EXCEPT !.active = proc[p].did]
             q == [proc[p] EXCEPT !.copy = new, !.pc = "activate"]
  <2>1. UNCHANGED index /\ proc[p].pc = "select"
    BY <1>7 DEF SelectAccount, At
  <2>2. Stop(p) \/ (proc[p].did \in Known(index) /\ Become(p, q))
    BY <1>7 DEF SelectAccount
  <2> HIDE DEF new
  <2>3. /\ q.pc = "activate" /\ q.did = proc[p].did /\ q.cmd = proc[p].cmd
        /\ q.copy = new
    BY <1>b DEF Active
  <2> HIDE DEF q
  <2>4. proc[p].did \in Known(index) => Listed(index, q) /\ Current(index, q)
    BY <2>1, <2>3 DEF Listed, Current, new
  <2> QED
    BY <1>a, <2>1, <2>2, <2>4, ReturnCurrent, BecomeOnly
<1>8. CASE FindAccount(p)
  <2> DEFINE new == Without(index, proc[p].did)
             q == [proc[p] EXCEPT !.copy = new, !.pc = "erase"]
  <2>1. UNCHANGED index /\ proc[p].pc = "remove"
    BY <1>8 DEF FindAccount, At
  <2>2. Stop(p) \/ (proc[p].did \in Known(index) /\ Become(p, q))
    BY <1>8 DEF FindAccount
  <2> HIDE DEF new
  <2>3. /\ q.pc = "erase" /\ q.did = proc[p].did /\ q.cmd = proc[p].cmd
        /\ q.copy = new
    BY <1>b DEF Active
  <2> HIDE DEF q
  <2>4. proc[p].did \in Known(index) => Listed(index, q) /\ Current(index, q)
    BY <2>1, <2>3 DEF Listed, Current, new
  <2> QED
    BY <1>a, <2>1, <2>2, <2>4, ReturnCurrent, BecomeOnly
<1>9. CASE Activate(p) \/ DropAccount(p)
  BY <1>9, BecomeOnly, IdleIsCurrent DEF Activate, DropAccount, Replace, Stop
<1>10. CASE RotateFails(p) \/ Restore(p) \/ EndCall(p)
  <2>1. Return(p) /\ UNCHANGED index /\ proc[p].pc \notin {"load", "secrets"}
    BY <1>10 DEF RotateFails, Restore, EndCall, Sending, At
  <2> QED
    BY <1>a, <2>1, ReturnCurrent
<1>11. CASE SaveSecrets(p)
  BY <1>a, <1>11, ReturnCurrent, GotoCurrent DEF SaveSecrets, At
<1>12. CASE EraseSecrets(p)
  BY <1>a, <1>12, ReturnCurrent, GotoCurrent DEF EraseSecrets, At
<1>13. CASE AcceptWithNonce(p)
  BY <1>a, <1>13, GotoCurrent DEF AcceptWithNonce, Sending, At
<1>14. CASE Challenge(p)
  <2> DEFINE q == [proc[p] EXCEPT !.nonce = ~@, !.retried = TRUE]
  <2>1. UNCHANGED index /\ proc[p].pc = "send" /\ Become(p, q)
    BY <1>14 DEF Challenge, Sending, At
  <2>2. q.pc = proc[p].pc /\ q.did = proc[p].did /\ q.cmd = proc[p].cmd
    BY <1>b DEF Active
  <2> HIDE DEF q
  <2>3. Listed(index, q) /\ Current(index, q)
    BY <2>1, <2>2 DEF Listed, Current
  <2> QED
    BY <2>1, <2>3, BecomeOnly
<1>15. CASE Deny(p)
  <2> DEFINE q == [proc[p] EXCEPT !.refreshing = TRUE, !.pc = "load"]
  <2>1. UNCHANGED index /\ proc[p].pc = "send" /\ Become(p, q)
    BY <1>15 DEF Deny, Sending, At
  <2>2. q.pc = "load" /\ q.did = proc[p].did /\ q.cmd = proc[p].cmd
    BY <1>b DEF Active
  <2> HIDE DEF q
  <2>3. Listed(index, q) /\ Current(index, q)
    BY <2>1, <2>2 DEF Listed, Current
  <2> QED
    BY <2>1, <2>3, BecomeOnly
<1> QED
  BY <1>1, <1>2, <1>3, <1>4, <1>5, <1>6, <1>7, <1>8, <1>9, <1>10, <1>11, <1>12, <1>13,
     <1>14, <1>15 DEF Advance

LEMMA BeginCurrent ==
  ASSUME NEW q, NEW d \in Dids, Begun(q, d), NEW idx
  PROVE  Listed(idx, q) /\ Current(idx, q)
BY DEF Begun, Listed, Current

-----------------------------------------------------------------------------
(* One command at a time.                                                  *)

LEMMA BeginsAlone ==
  ASSUME MaxRunning = 1, NEW p \in Procs, CanBegin(p)
  PROVE  \A o \in Procs : At(o, "idle")
<1>1. IsFiniteSet(Running)
  BY AuthAssumption, FS_Subset DEF Running
<1>2. Cardinality(Running) = 0
  BY <1>1, FS_CardinalityType DEF CanBegin
<1>3. Running = {}
  BY <1>1, <1>2, FS_EmptySet
<1> QED
  BY <1>3 DEF Running, At

LEMMA SequentialInit == Init => SequentialInv
<1> SUFFICES ASSUME Init PROVE SequentialInv
  OBVIOUS
<1>1. TypeOK /\ Sessions /\ ActiveIsKnown
  BY TypeInit, SessionsInit, ActiveInit
<1>2. \A p \in Procs : proc[p] = Idle
  BY DEF Init
<1> QED
  BY <1>1, <1>2, IdleFacts, IdleIsCurrent DEF SequentialInv, OneAtATime, At

LEMMA SequentialStep ==
  ASSUME MaxRunning = 1, SequentialInv, [Next]_vars
  PROVE  SequentialInv'
<1>1. TypeOK' /\ Sessions' /\ ActiveIsKnown'
  BY TypeStep, SessionsStep, ActiveStep DEF SequentialInv
<1>2. CASE UNCHANGED proc /\ UNCHANGED index
  BY <1>1, <1>2 DEF SequentialInv, OneAtATime, At
\* One process moves, and the others are idle.
<1>3. ASSUME NEW p \in Procs, \A o \in Procs \ {p} : proc'[o] = proc[o] /\ At(o, "idle"),
             Listed(index', proc'[p]), Current(index', proc'[p])
      PROVE  SequentialInv'
  <2>1. \A o \in Procs \ {p} : proc'[o] = Idle
    BY <1>3, IdleIsIdle DEF SequentialInv
  <2>2. \A o \in Procs : Listed(index', proc'[o]) /\ Current(index', proc'[o])
    BY <1>3, <2>1, IdleIsCurrent
  <2>3. OneAtATime'
    BY <2>1, IdleFacts DEF OneAtATime, At
  <2> QED
    BY <1>1, <2>2, <2>3 DEF SequentialInv
<1>4. ASSUME NEW p \in Procs, ~At(p, "idle") PROVE \A o \in Procs \ {p} : At(o, "idle")
  BY <1>4 DEF SequentialInv, OneAtATime
<1>5. ASSUME NEW p \in Procs, \A o \in Procs \ {p} : proc'[o] = proc[o], Advance(p)
      PROVE  SequentialInv'
  <2>1. ~At(p, "idle")
    BY <1>5
       DEF Advance, LoadMetadata, LoadSecrets, Rotate, RotateFails, FindPrevious,
           SaveSecrets, MergeIndex, WriteIndex, Restore, SelectAccount, Activate,
           FindAccount, EraseSecrets, DropAccount, Replace, EndCall, AcceptWithNonce,
           Challenge, Deny, Sending, At
  <2>2. HasSession(proc[p])
    BY DEF SequentialInv, Sessions
  <2>3. Listed(index', proc'[p]) /\ Current(index', proc'[p])
    BY <1>5, <2>2, AdvanceCurrent DEF SequentialInv
  <2> QED
    BY <1>3, <1>4, <1>5, <2>1, <2>3
<1>6. ASSUME NEW p \in Procs, NEW d \in Dids, Begin(p, d)
      PROVE  SequentialInv'
  <2>1. \A o \in Procs : At(o, "idle")
    BY <1>6, BeginsAlone DEF Begin, BeginLogin, BeginRefresh, BeginSwitch, BeginLogout,
                             BeginPublish, BeginLoaded
  <2>2. \A o \in Procs \ {p} : proc'[o] = proc[o]
    BY <1>6, BeginOnly DEF SequentialInv
  <2>3. proc'[p] = proc[p] \/ Begun(proc'[p], d)
    BY <1>6, BeginOnly DEF SequentialInv
  <2>4. Listed(index', proc'[p]) /\ Current(index', proc'[p])
    BY <2>1, <2>3, IdleIsIdle, IdleIsCurrent, BeginCurrent DEF SequentialInv
  <2> QED
    BY <1>3, <2>1, <2>2, <2>4
<1>7. ASSUME NEW p \in Procs, Crash(p)
      PROVE  SequentialInv'
  <2>1. ~At(p, "idle") /\ proc'[p] = Idle /\ \A o \in Procs \ {p} : proc'[o] = proc[o]
    BY <1>7, BecomeOnly DEF Crash, Stop, SequentialInv
  <2> QED
    BY <1>3, <1>4, <2>1, IdleIsCurrent
<1> QED
  BY <1>2, <1>5, <1>6, <1>7, OthersKept DEF SequentialInv

LEMMA SequentialInvariant ==
  ASSUME MaxRunning = 1 PROVE Spec => []SequentialInv
<1>1. SequentialInv /\ [Next]_vars => SequentialInv'
  BY SequentialStep
<1> QED
  BY <1>1, SequentialInit, PTL DEF Spec

-----------------------------------------------------------------------------
(* What a write of the index is.                                           *)

\* Every change of the index is a login, a switch or a logout of the process
\* that writes it, or a save that only changes the metadata of a listed account.
LEMMA IndexStep ==
  ASSUME SequentialInv, [Next]_vars
  PROVE  \/ UNCHANGED <<Known(index), index.active>>
         \/ \E p \in Procs :
              /\ proc[p].did \in Dids
              /\ \/ /\ proc[p].cmd = "login"
                    /\ index'.active = proc[p].did
                    /\ Known(index') = Known(index) \cup {proc[p].did}
                 \/ /\ proc[p].cmd = "switch"
                    /\ proc[p].did \in Known(index)
                    /\ index'.active = proc[p].did
                    /\ Known(index') = Known(index)
                 \/ /\ proc[p].cmd = "logout"
                    /\ proc[p].did \in Known(index)
                    /\ index' = Without(index, proc[p].did)
<1>1. CASE UNCHANGED index
  BY <1>1 DEF Known
<1>2. ASSUME NEW p \in Procs, Advance(p), index' # index
      PROVE  \/ UNCHANGED <<Known(index), index.active>>
             \/ /\ proc[p].did \in Dids
                /\ \/ /\ proc[p].cmd = "login"
                      /\ index'.active = proc[p].did
                      /\ Known(index') = Known(index) \cup {proc[p].did}
                   \/ /\ proc[p].cmd = "switch"
                      /\ proc[p].did \in Known(index)
                      /\ index'.active = proc[p].did
                      /\ Known(index') = Known(index)
                   \/ /\ proc[p].cmd = "logout"
                      /\ proc[p].did \in Known(index)
                      /\ index' = Without(index, proc[p].did)
  <2>1. /\ index' = proc[p].copy
        /\ At(p, "write") \/ At(p, "activate") \/ At(p, "drop")
    BY <1>2, IndexWrites
  <2>2. proc[p] \in Active /\ proc[p].did \in Dids /\ ~At(p, "idle")
    BY <2>1, RunningIsActive DEF SequentialInv, At, Active
  <2>3. HasSession(proc[p]) /\ Listed(index, proc[p]) /\ Current(index, proc[p])
    BY DEF SequentialInv, Sessions
  <2>4. CASE At(p, "write")
    <3>1. Known(index') = Known(index) \cup {proc[p].did}
      BY <2>1, <2>2, <2>3, <2>4, WriteLists DEF SequentialInv
    <3>2. index'.active = IF proc[p].cmd = "login" THEN proc[p].did ELSE index.active
      BY <2>1, <2>3, <2>4 DEF Current, At
    <3>3. proc[p].cmd = "login" \/ proc[p].did \in Known(index)
      BY <2>3, <2>4 DEF Listed, At
    <3> QED
      BY <2>2, <3>1, <3>2, <3>3
  <2>5. CASE At(p, "activate")
    <3>1. /\ proc[p].cmd = "switch" /\ proc[p].did \in Known(index)
          /\ index' = [index EXCEPT !.active = proc[p].did]
      BY <2>1, <2>3, <2>5 DEF Current, At
    <3>2. index'.active = proc[p].did /\ Known(index') = Known(index)
      BY <3>1 DEF SequentialInv, TypeOK, Index, Known
    <3> QED
      BY <2>2, <3>1, <3>2
  <2>6. CASE At(p, "drop")
    BY <2>1, <2>2, <2>3, <2>6 DEF Current, At
  <2> QED
    BY <2>1, <2>4, <2>5, <2>6
<1>3. \/ UNCHANGED index
      \/ \E p \in Procs : Advance(p)
  BY BeginCopies DEF SequentialInv, Next, vars, Crash, Expire
<1> QED
  BY <1>1, <1>2, <1>3

\* The active account changes only by a login, a switch, or the logout of the
\* active account; a refresh or a new nonce leaves it alone, whatever fails
\* (internal/sessionstore/store.go:160-162, 272-274).
THEOREM SequentialActivation ==
  ASSUME MaxRunning = 1 PROVE Spec => ActivationIsExplicit
<1>1. ASSUME SequentialInv, [Next]_vars, index'.active # index.active
      PROVE  \E p \in Procs :
               \/ proc[p].cmd \in {"login", "switch"} /\ index'.active = proc[p].did
               \/ proc[p].cmd = "logout" /\ index.active = proc[p].did
  <2>1. \A d : index' = Without(index, d) => d = index.active
    BY <1>1 DEF Without
  <2> QED
    BY <1>1, <2>1, IndexStep
<1>2. SequentialInv /\ [Next]_vars =>
        [index'.active # index.active =>
           \E p \in Procs :
             \/ proc[p].cmd \in {"login", "switch"} /\ index'.active = proc[p].did
             \/ proc[p].cmd = "logout" /\ index.active = proc[p].did]_vars
  BY <1>1
<1> QED
  BY <1>2, SequentialInvariant, PTL DEF Spec, ActivationIsExplicit

LEMMA RegistryNext ==
  ASSUME SequentialInv, [Next]_vars
  PROVE  [Registry!Next]_(Registry!vars)
<1>a. index \in Index
  BY DEF SequentialInv, TypeOK
<1>1. CASE UNCHANGED <<Known(index), index.active>>
  BY <1>1 DEF Registry!vars
<1>2. ASSUME NEW p \in Procs, proc[p].did \in Dids,
             index'.active = proc[p].did,
             \/ Known(index') = Known(index) \cup {proc[p].did}
             \/ proc[p].did \in Known(index) /\ Known(index') = Known(index)
      PROVE  Registry!Next
  BY <1>2 DEF Registry!Next, Registry!Login, Registry!Activate
<1>3. ASSUME NEW d \in Dids, d \in Known(index), index' = Without(index, d)
      PROVE  Registry!Next
  <2> DEFINE left == Known(index) \ {d}
  <2>1. Known(index') = left /\ left \in SUBSET Dids
    BY <1>a, <1>3, WithoutKeepsActive DEF Known
  <2>2. index'.active = IF index.active # d THEN index.active
                        ELSE IF left = {} THEN None ELSE Smallest(left)
    BY <1>3 DEF Without
  <2>3. left # {} => Smallest(left) \in left /\ \A e \in left : Smallest(left) <= e
    BY <2>1, SmallestIsLeast
  <2> HIDE DEF left
  <2>4. Registry!Remove(d)
    BY <1>3, <2>1, <2>2, <2>3 DEF Registry!Remove, Registry!None, None, left
  <2> QED
    BY <2>4 DEF Registry!Next
<1> QED
  BY <1>1, <1>2, <1>3, IndexStep

\* One command at a time, accounts.json is the registry: whatever step of a save
\* or of a logout fails, the index goes from one set of accounts with an active
\* one to another by a single login, switch or logout.
THEOREM SequentialImplementsRegistry ==
  ASSUME MaxRunning = 1 PROVE Spec => ImplementsRegistry
<1>1. Init => Registry!Init
  BY DEF Init, Registry!Init, NoIndex, Known, Registry!None, None
<1> QED
  BY <1>1, RegistryNext, SequentialInvariant, PTL
     DEF Spec, ImplementsRegistry, Registry!Spec

-----------------------------------------------------------------------------
(* What is left of an account when a step fails.                           *)

\* The metadata m of an account describes its secrets k, if there are any.
Described(k, m) == k # None => m = k

\* A publish that has loaded its session and makes calls with it.
Called(q) == q.cmd = "publish" /\ (q.refreshing \/ q.pc \notin {"load", "secrets"})

\* What a process leaves behind of an account, whatever step fails: until it saves the
\* secrets, and again when it has written the index, the account is described; and what
\* it would restore is described by the index as it is.
Entry(q, k, m) ==
  q.pc # "idle" =>
    /\ q.pc = "secrets" => q.session.meta = m
    /\ q.pc \in {"previous", "save", "merge", "write", "send"} =>
         q.session.secrets = q.session.meta
    /\ Called(q) => q.own.secrets = q.own.meta
    /\ q.pc \in {"merge", "write"} => k = q.session.secrets
    /\ q.pc \in {"save", "merge", "write", "restore"} => Described(q.previous, m)
    /\ q.pc \notin {"merge", "write", "restore"} => Described(k, m)
    /\ q.pc = "drop" => k = None

EntriesInv ==
  /\ \A p \in Procs :
       /\ Entry(proc[p], keyring[proc[p].did], index.accounts[proc[p].did])
       /\ At(p, "restore") => faults > 0 /\ "disk" \in Faults
  /\ \A d \in Dids : (\A p \in Procs : At(p, "idle") \/ proc[p].did # d) =>
                       Described(keyring[d], index.accounts[d])

\* What a process may lose of an account with secrets k and metadata m after f faults.
Recovers(q, k, m, f) ==
  q.pc # "idle" =>
    /\ q.pc \in {"previous", "save", "merge", "write", "send"} => q.session.secrets # None
    /\ Called(q) => q.own.secrets # None
    /\ q.pc \in {"merge", "write"} => k # None
    /\ q.pc \in {"save", "merge", "write"} /\ q.previous = None => f > 0 \/ m = None
    /\ q.pc = "restore" => f > 0 /\ (q.previous = None => m = None)
    /\ f = 0 /\ q.pc # "drop" /\ m # None => k # None

RecoversInv ==
  /\ \A p \in Procs :
       Recovers(proc[p], keyring[proc[p].did], index.accounts[proc[p].did], faults)
  /\ \A d \in Dids : (\A p \in Procs : At(p, "idle") \/ proc[p].did # d) =>
                       (faults = 0 /\ index.accounts[d] # None => keyring[d] # None)

LEMMA IdleEntry == \A k, m, f : Entry(Idle, k, m) /\ Recovers(Idle, k, m, f)
BY IdleFacts DEF Entry, Recovers

\* A process changes nothing of the accounts of others.
LEMMA OthersSame ==
  ASSUME SequentialInv, NEW p \in Procs, Advance(p), NEW e \in Dids \ {proc[p].did}
  PROVE  keyring'[e] = keyring[e] /\ index'.accounts[e] = index.accounts[e]
<1>1. keyring'[e] = keyring[e]
  BY DEF SequentialInv, TypeOK, Advance, LoadMetadata, LoadSecrets, Rotate, RotateFails,
         FindPrevious, SaveSecrets, MergeIndex, WriteIndex, Restore, SelectAccount, Activate,
         FindAccount, EraseSecrets, DropAccount, Replace, EndCall, AcceptWithNonce,
         Challenge, Deny
<1>2. index \in Index /\ Current(index, proc[p])
  BY DEF SequentialInv, TypeOK
<1>3. CASE index' # index
  <2>1. index' = proc[p].copy /\ proc[p].pc \in {"write", "activate", "drop"}
    BY <1>3, IndexWrites DEF At
  <2>2. index'.accounts = [index.accounts EXCEPT ![proc[p].did] = index'.accounts[proc[p].did]]
    BY <1>2, <2>1 DEF Current, Index, Without
  <2> QED
    BY <1>1, <1>2, <2>2 DEF Index
<1> QED
  BY <1>1, <1>3

\* What a write of the index leaves of the account.
LEMMA WrittenIs ==
  ASSUME SequentialInv, NEW p \in Procs, proc[p].pc \in {"write", "activate", "drop"},
         index' = proc[p].copy
  PROVE  /\ At(p, "write") => index'.accounts[proc[p].did] = proc[p].session.meta
         /\ At(p, "activate") => index'.accounts[proc[p].did] = index.accounts[proc[p].did]
         /\ At(p, "drop") => index'.accounts[proc[p].did] = None
<1>1. index \in Index /\ Current(index, proc[p])
  BY DEF SequentialInv, TypeOK
<1>2. proc[p].did \in Dids
  BY RunningIsActive DEF SequentialInv, At, Active
<1> QED
  BY <1>1, <1>2 DEF Current, Index, Without, At

\* Entry is kept by the process, which leaves the account described when it ends.
LEMMA EntryStep ==
  ASSUME SequentialInv, NEW p \in Procs, Advance(p),
         Entry(proc[p], keyring[proc[p].did], index.accounts[proc[p].did]),
         At(p, "restore") => faults > 0 /\ "disk" \in Faults,
         MaxFaults <= 1 \/ ~({"disk", "keyring"} \subseteq Faults)
  PROVE  /\ Entry(proc'[p], keyring'[proc[p].did], index'.accounts[proc[p].did])
         /\ proc'[p].pc = "idle" =>
              Described(keyring'[proc[p].did], index'.accounts[proc[p].did])
         /\ proc'[p].pc # "idle" => proc'[p].did = proc[p].did
         /\ proc'[p].pc = "restore" => faults' > 0 /\ "disk" \in Faults
<1> DEFINE d == proc[p].did
           k == keyring[d]
           m == index.accounts[d]
           l == keyring'[d]
           n == index'.accounts[d]
<1>a. TypeOK /\ proc[p].pc # "idle" /\ faults \in Nat
  BY AdvanceRuns DEF SequentialInv, TypeOK
<1>b. proc[p] \in Active /\ d \in Dids
  BY <1>a, RunningIsActive DEF At, Active
<1>c. Entry(proc[p], k, m) /\ Idle.pc = "idle"
  BY IdleFacts
<1>d. /\ \/ EndTurn(p) \/ LoadTurn(p) \/ SecretsTurn(p) \/ RotateTurn(p)
         \/ PreviousTurn(p) \/ MergeTurn(p) \/ CallTurn(p) \/ ReplaceTurn(p)
         \/ SaveTurn(p) \/ RestoreTurn(p) \/ EraseTurn(p)
         \/ WriteTurn(p) \/ WroteTurn(p)
      /\ l = k \/ SaveTurn(p) \/ RestoreTurn(p) \/ EraseTurn(p)
      /\ n = m \/ WriteTurn(p) \/ WroteTurn(p)
  BY <1>a, AdvanceTurns
<1>e. \A g : keyring' = [keyring EXCEPT ![d] = g] => l = g
  BY <1>a, <1>b DEF TypeOK
<1>f. index' = proc[p].copy =>
        /\ proc[p].pc = "write" => n = proc[p].session.meta
        /\ proc[p].pc = "activate" => n = m
        /\ proc[p].pc = "drop" => n = None
  BY WrittenIs DEF At
<1>g. proc[p].pc = "restore" => ~Failed("keyring")
  BY <1>a, AuthAssumption DEF Failed, At
<1>h. proc[p].cmd = "publish" => proc[p].pc \notin {"activate", "drop"}
  BY DEF SequentialInv, Current
<1>i. (l = k /\ n = m) \/ proc[p].pc \in {"save", "restore", "erase", "write", "activate", "drop"}
  BY <1>d DEF SaveTurn, RestoreTurn, EraseTurn, WriteTurn, WroteTurn, Turn
<1> HIDE DEF k, m, l, n
<1> DEFINE Goal == /\ Entry(proc'[p], l, n)
                   /\ proc'[p].pc = "idle" => Described(l, n)
                   /\ proc'[p].pc # "idle" => proc'[p].did = proc[p].did
                   /\ proc'[p].pc = "restore" => faults' > 0 /\ "disk" \in Faults
<1> SUFFICES Goal
  BY DEF k, m, l, n
\* A process ends, or goes on with the next call, where the account is described.
<1>1. ASSUME Ends(p), Described(l, n), proc[p].pc # "idle" PROVE Goal
  BY <1>1, <1>c, IdleEntry DEF Ends, Entry, Called
<1>2. CASE EndTurn(p)
  <2>1. Described(k, m)
    BY <1>2, <1>a, <1>c DEF Entry, EndTurn
  <2> QED
    BY <1>1, <1>2, <1>a, <2>1 DEF EndTurn, k, l, m, n
<1>3. CASE LoadTurn(p) \/ SecretsTurn(p) \/ RotateTurn(p)
  <2>1. l = k /\ n = m
    BY <1>3, <1>i DEF LoadTurn, SecretsTurn, RotateTurn, Turn
  <2>2. CASE LoadTurn(p)
    BY <2>1, <2>2, <1>c DEF LoadTurn, Turn, SameFlags, SamePrevious, Entry, Called, m
  <2>3. CASE SecretsTurn(p)
    BY <2>1, <2>3, <1>c DEF SecretsTurn, Turn, SameFlags, SamePrevious, Entry, Called, Described, k
  <2>4. CASE RotateTurn(p)
    BY <2>1, <2>4, <1>c DEF RotateTurn, Turn, SameFlags, SamePrevious, Entry, Called, SessionOf
  <2> QED
    BY <1>3, <2>2, <2>3, <2>4
<1>4. CASE PreviousTurn(p) \/ MergeTurn(p)
  <2>1. l = k /\ n = m
    BY <1>4, <1>i DEF PreviousTurn, MergeTurn, Turn
  <2>2. CASE PreviousTurn(p)
    BY <2>1, <2>2, <1>c DEF PreviousTurn, Turn, SameFlags, SameSessions, Entry, Called, Described, k
  <2>3. CASE MergeTurn(p)
    BY <1>a, <2>1, <2>3, <1>c
       DEF MergeTurn, Turn, SameFlags, SameSessions, SamePrevious, Entry, Called, Failed
  <2> QED
    BY <1>4, <2>2, <2>3
<1>5. CASE CallTurn(p) \/ ReplaceTurn(p)
  <2>1. l = k /\ n = m
    BY <1>5, <1>i DEF CallTurn, ReplaceTurn, Turn
  <2>2. CASE CallTurn(p)
    BY <2>1, <2>2, <1>c DEF CallTurn, Turn, SameFlags, SameSessions, SamePrevious, Entry, Called
  <2>3. CASE ReplaceTurn(p)
    <3>1. proc[p].cmd # "publish"
      BY <2>3 DEF ReplaceTurn, Turn, SequentialInv, Current
    <3> QED
      BY <2>1, <2>3, <3>1, <1>c DEF ReplaceTurn, Turn, SamePrevious, Entry, Called
  <2> QED
    BY <1>5, <2>2, <2>3
<1>6. CASE SaveTurn(p)
  <2>1. l = proc[p].session.secrets /\ n = m
    BY <1>6, <1>d, <1>e DEF SaveTurn, Turn, WriteTurn, WroteTurn, n, m, l
  <2> QED
    BY <1>6, <2>1, <1>c DEF SaveTurn, Turn, SameFlags, SameSessions, SamePrevious, Entry, Called
<1>7. CASE RestoreTurn(p)
  <2>1. l = proc[p].previous /\ n = m
    BY <1>7, <1>d, <1>e, <1>g DEF RestoreTurn, Turn, WriteTurn, WroteTurn, n, m, l
  <2>2. Described(l, n)
    BY <1>7, <2>1, <1>c DEF RestoreTurn, Entry
  <2> QED
    BY <1>1, <1>7, <1>a, <2>2 DEF RestoreTurn
<1>8. CASE EraseTurn(p)
  <2>1. l = None /\ n = m
    BY <1>8, <1>d, <1>e DEF EraseTurn, Turn, WriteTurn, WroteTurn, n, m, l
  <2>2. proc[p].cmd # "publish"
    BY <1>8 DEF EraseTurn, Turn, SequentialInv, Current
  <2> QED
    BY <1>8, <2>1, <2>2, <1>c DEF EraseTurn, Turn, SamePrevious, Entry, Called, Described
<1>9. CASE WriteTurn(p)
  <2>1. proc[p].pc = "write" /\ l = k
    BY <1>9, <1>d DEF WriteTurn, Turn, SaveTurn, RestoreTurn, EraseTurn, l, k
  <2>2. CASE /\ index' = proc[p].copy
             /\ \/ Ends(p)
                \/ /\ Turn(p, "write", "send") /\ SameSessions(p) /\ SamePrevious(p)
                   /\ proc[p].refreshing
    <3>1. Described(l, n) /\ l = proc[p].session.secrets /\ n = proc[p].session.meta
      BY <2>1, <2>2, <1>c, <1>f DEF Entry, Described
    <3>2. CASE Ends(p)
      BY <1>1, <1>a, <3>1, <3>2
    <3>3. CASE /\ Turn(p, "write", "send") /\ SameSessions(p) /\ SamePrevious(p)
               /\ proc[p].refreshing
      BY <2>1, <3>1, <3>3, <1>c DEF Turn, SameSessions, SamePrevious, Entry, Called
    <3> QED
      BY <2>2, <3>2, <3>3
  <2>3. CASE /\ Turn(p, "write", "restore") /\ SameSessions(p) /\ SamePrevious(p)
             /\ SameFlags(p) /\ Failed("disk") /\ UNCHANGED index
    BY <1>a, <1>c, <2>1, <2>3
       DEF Turn, SameSessions, SamePrevious, SameFlags, Entry, Called, Failed, m, n
  <2> QED
    BY <1>9, <2>2, <2>3 DEF WriteTurn
<1>10. CASE WroteTurn(p)
  <2>1. l = k /\ proc[p].pc \in {"activate", "drop"} /\ index' = proc[p].copy
    BY <1>10, <1>d DEF WroteTurn, Turn, SaveTurn, RestoreTurn, EraseTurn, l, k
  <2>2. Described(l, n)
    BY <2>1, <1>c, <1>f DEF Entry, Described
  <2> QED
    BY <1>1, <1>10, <1>a, <2>2 DEF WroteTurn, Ends
<1>11. Goal
  BY <1>d, <1>2, <1>3, <1>4, <1>5, <1>6, <1>7, <1>8, <1>9, <1>10
<1> QED
  BY <1>11 DEF l, n

LEMMA EntriesInit == Init => EntriesInv
BY IdleFacts, IdleEntry DEF Init, EntriesInv, Described, At

\* One process moves, on the account d.
LEMMA EntriesMoved ==
  ASSUME NEW p \in Procs, NEW d \in Dids,
         \A o \in Procs \ {p} : proc'[o] = Idle,
         \A e \in Dids \ {d} : /\ keyring'[e] = keyring[e]
                               /\ index'.accounts[e] = index.accounts[e]
                               /\ Described(keyring[e], index.accounts[e]),
         Entry(proc'[p], keyring'[d], index'.accounts[d]),
         IF proc'[p].pc = "idle" THEN Described(keyring'[d], index'.accounts[d])
                                 ELSE proc'[p].did = d,
         proc'[p].pc = "restore" => faults' > 0 /\ "disk" \in Faults
  PROVE  EntriesInv'
<1>1. ASSUME NEW o \in Procs
      PROVE  /\ Entry(proc'[o], keyring'[proc'[o].did], index'.accounts[proc'[o].did])
             /\ proc'[o].pc = "restore" => faults' > 0 /\ "disk" \in Faults
  <2>1. CASE o = p /\ proc'[p].pc # "idle"
    BY <2>1
  <2>2. CASE o = p /\ proc'[p].pc = "idle"
    BY <2>2 DEF Entry
  <2>3. CASE o # p
    BY <2>3, IdleFacts, IdleEntry
  <2> QED
    BY <2>1, <2>2, <2>3
<1>2. ASSUME NEW e \in Dids, \A o \in Procs : proc'[o].pc = "idle" \/ proc'[o].did # e
      PROVE  Described(keyring'[e], index'.accounts[e])
  BY <1>2
<1> QED
  BY <1>1, <1>2 DEF EntriesInv, At

LEMMA EntriesStep ==
  ASSUME MaxRunning = 1, "crash" \notin Faults,
         MaxFaults <= 1 \/ ~({"disk", "keyring"} \subseteq Faults),
         SequentialInv, EntriesInv, [Next]_vars
  PROVE  EntriesInv'
<1>a. TypeOK /\ OneAtATime
  BY DEF SequentialInv
<1>1. CASE UNCHANGED <<proc, keyring, index, faults>>
  BY <1>1 DEF EntriesInv, At
<1>2. ASSUME NEW p \in Procs, Advance(p), \A o \in Procs \ {p} : proc'[o] = proc[o]
      PROVE  EntriesInv'
  <2> DEFINE d == proc[p].did
  <2>1. ~At(p, "idle")
    BY <1>a, <1>2, AdvanceRuns DEF At
  <2>2. d \in Dids
    BY <1>a, <2>1, RunningIsActive DEF Active
  <2>3. \A o \in Procs \ {p} : proc[o] = Idle /\ At(o, "idle")
    BY <1>a, <2>1, IdleIsIdle DEF OneAtATime
  <2>4. \A e \in Dids \ {d} : /\ keyring'[e] = keyring[e]
                              /\ index'.accounts[e] = index.accounts[e]
                              /\ Described(keyring[e], index.accounts[e])
    BY <1>2, <2>3, OthersSame DEF EntriesInv
  <2>5. /\ Entry(proc'[p], keyring'[d], index'.accounts[d])
        /\ proc'[p].pc = "idle" => Described(keyring'[d], index'.accounts[d])
        /\ proc'[p].pc # "idle" => proc'[p].did = d
        /\ proc'[p].pc = "restore" => faults' > 0 /\ "disk" \in Faults
    BY <1>2, EntryStep DEF EntriesInv
  <2> HIDE DEF d
  <2> QED
    BY <1>2, <2>2, <2>3, <2>4, <2>5, EntriesMoved
<1>3. ASSUME NEW p \in Procs, NEW d \in Dids, Begin(p, d)
      PROVE  EntriesInv'
  <2>1. \A o \in Procs : At(o, "idle") /\ proc[o] = Idle
    BY <1>a, <1>3, BeginsAlone, IdleIsIdle
       DEF Begin, BeginLogin, BeginRefresh, BeginSwitch, BeginLogout, BeginPublish, BeginLoaded
  <2>2. UNCHANGED <<keyring, index>>
    BY <1>3 DEF Begin, BeginLogin, BeginRefresh, BeginSwitch, BeginLogout, BeginPublish,
                BeginLoaded
  <2>3. \A e \in Dids : Described(keyring[e], index.accounts[e])
    BY <2>1 DEF EntriesInv
  <2>4. \A o \in Procs \ {p} : proc'[o] = Idle
    BY <1>a, <1>3, <2>1, BeginOnly
  <2>5. proc'[p] = Idle \/ Begun(proc'[p], d)
    BY <1>a, <1>3, <2>1, BeginOnly
  <2>6. \A q, k, m : Begun(q, d) /\ Described(k, m) =>
                       Entry(q, k, m) /\ q.did = d /\ q.pc \notin {"idle", "restore"}
    BY DEF Begun, Entry, Called, SessionOf
  <2>7. /\ Entry(proc'[p], keyring'[d], index'.accounts[d])
        /\ proc'[p].pc # "idle" => proc'[p].did = d
        /\ proc'[p].pc # "restore"
    BY <2>2, <2>3, <2>5, <2>6, IdleFacts, IdleEntry
  <2> QED
    BY <2>2, <2>3, <2>4, <2>7, EntriesMoved
<1>4. \A p \in Procs : ~Crash(p)
  BY DEF Crash, Fault
<1> QED
  BY <1>a, <1>1, <1>2, <1>3, <1>4, OthersKept DEF Next, vars, Expire

\* Between commands the index lists every account that has secrets, and its metadata
\* describes the very grant the secrets are of, whatever step of a command fails
\* (internal/sessionstore/store.go:145-166, 183-245).  Only a process that dies between
\* its two writes, or a lost write of the index whose repair of the keyring fails as
\* well, leaves it otherwise.
THEOREM SecretsAlwaysDescribed ==
  ASSUME MaxRunning = 1, "crash" \notin Faults,
         MaxFaults <= 1 \/ ~({"disk", "keyring"} \subseteq Faults)
  PROVE  Spec => []SecretsAreDescribed
<1>1. SequentialInv /\ EntriesInv /\ [Next]_vars => EntriesInv'
  BY EntriesStep
<1>2. EntriesInv => SecretsAreDescribed
  BY DEF EntriesInv, SecretsAreDescribed, Described, Running, At
<1> QED
  BY <1>1, <1>2, EntriesInit, SequentialInvariant, PTL DEF Spec

\* Recovers is kept by the process, which takes the secrets of a listed account only
\* for a logout.
LEMMA RecoversStep ==
  ASSUME SequentialInv, NEW p \in Procs, Advance(p), MaxFaults <= 1,
         Recovers(proc[p], keyring[proc[p].did], index.accounts[proc[p].did], faults)
  PROVE  /\ Recovers(proc'[p], keyring'[proc[p].did], index'.accounts[proc[p].did], faults')
         /\ proc'[p].pc = "idle" =>
              (faults' = 0 /\ index'.accounts[proc[p].did] # None =>
                 keyring'[proc[p].did] # None)
         /\ proc'[p].pc # "idle" => proc'[p].did = proc[p].did
         /\ index.accounts[proc[p].did] # None /\ keyring[proc[p].did] # None /\
            keyring'[proc[p].did] = None => proc[p].cmd = "logout"
<1> DEFINE d == proc[p].did
           k == keyring[d]
           m == index.accounts[d]
           l == keyring'[d]
           n == index'.accounts[d]
           f == faults
           g == faults'
<1>a. TypeOK /\ proc[p].pc # "idle"
  BY AdvanceRuns DEF SequentialInv
<1>b. proc[p] \in Active /\ d \in Dids
  BY <1>a, RunningIsActive DEF At, Active
<1>c. Recovers(proc[p], k, m, f) /\ Idle.pc = "idle"
  BY IdleFacts
<1>d. /\ \/ EndTurn(p) \/ LoadTurn(p) \/ SecretsTurn(p) \/ RotateTurn(p)
         \/ PreviousTurn(p) \/ MergeTurn(p) \/ CallTurn(p) \/ ReplaceTurn(p)
         \/ SaveTurn(p) \/ RestoreTurn(p) \/ EraseTurn(p)
         \/ WriteTurn(p) \/ WroteTurn(p)
      /\ l = k \/ SaveTurn(p) \/ RestoreTurn(p) \/ EraseTurn(p)
      /\ n = m \/ WriteTurn(p) \/ WroteTurn(p)
  BY <1>a, AdvanceTurns
<1>e. \A h : keyring' = [keyring EXCEPT ![d] = h] => l = h
  BY <1>a, <1>b DEF TypeOK
<1>f. index' = proc[p].copy =>
        /\ proc[p].pc = "write" => n = proc[p].session.meta
        /\ proc[p].pc = "activate" => n = m
        /\ proc[p].pc = "drop" => n = None
  BY WrittenIs DEF At
<1>g. /\ f \in Nat /\ g \in Nat /\ (g = 0 => f = 0)
      /\ \A kind : Failed(kind) => g > 0 /\ f = 0
  <2>1. faults' = faults \/ faults' = faults + 1
    BY <1>a, AdvanceTurns
  <2>2. faults \in Nat /\ MaxFaults \in Nat
    BY <1>a, AuthAssumption DEF TypeOK
  <2> QED
    BY <2>1, <2>2 DEF Failed
<1>h. /\ proc[p].cmd = "publish" => proc[p].pc \notin {"activate", "drop"}
      /\ proc[p].pc = "erase" => proc[p].cmd = "logout"
  BY DEF SequentialInv, Current
<1>i. (l = k /\ n = m) \/ proc[p].pc \in {"save", "restore", "erase", "write", "activate", "drop"}
  BY <1>d DEF SaveTurn, RestoreTurn, EraseTurn, WriteTurn, WroteTurn, Turn
<1> DEFINE Goal == /\ Recovers(proc'[p], l, n, g)
                   /\ proc'[p].pc = "idle" => (g = 0 /\ n # None => l # None)
                   /\ proc'[p].pc # "idle" => proc'[p].did = proc[p].did
                   /\ m # None /\ k # None /\ l = None => proc[p].cmd = "logout"
<1> HIDE DEF k, m, l, n, f, g
<1> SUFFICES Goal
  BY DEF k, m, l, n, f, g
\* A process ends, or goes on with the next call.
<1>1. ASSUME Ends(p), g = 0 /\ n # None => l # None,
             m # None /\ k # None => l # None
      PROVE  Goal
  BY <1>1, <1>a, <1>c, IdleEntry DEF Ends, Recovers, Called
<1>2. CASE EndTurn(p)
  <2>1. l = k /\ n = m /\ (g = 0 /\ m # None => k # None)
    BY <1>2, <1>a, <1>c, <1>g DEF Recovers, EndTurn, k, l, m, n
  <2> QED
    BY <1>1, <1>2, <2>1 DEF EndTurn
<1>3. CASE LoadTurn(p) \/ SecretsTurn(p) \/ RotateTurn(p)
  <2>1. l = k /\ n = m
    BY <1>3, <1>i DEF LoadTurn, SecretsTurn, RotateTurn, Turn
  <2>2. CASE LoadTurn(p)
    BY <2>1, <2>2, <1>c, <1>g DEF LoadTurn, Turn, SameFlags, SamePrevious, Recovers, Called
  <2>3. CASE SecretsTurn(p)
    BY <2>1, <2>3, <1>c, <1>g
       DEF SecretsTurn, Turn, SameFlags, SamePrevious, Recovers, Called, k
  <2>4. CASE RotateTurn(p)
    <3>1. Fresh # None
      BY <1>a DEF TypeOK, Fresh, None
    <3> QED
      BY <2>1, <2>4, <3>1, <1>c, <1>g
         DEF RotateTurn, Turn, SameFlags, SamePrevious, Recovers, Called, SessionOf
  <2> QED
    BY <1>3, <2>2, <2>3, <2>4
<1>4. CASE PreviousTurn(p) \/ MergeTurn(p)
  <2>1. l = k /\ n = m
    BY <1>4, <1>i DEF PreviousTurn, MergeTurn, Turn
  <2>2. CASE PreviousTurn(p)
    <3>1. proc'[p].previous = k \/ g > 0
      BY <2>2, <1>g DEF PreviousTurn, k
    <3> QED
      BY <2>1, <2>2, <3>1, <1>c, <1>g
         DEF PreviousTurn, Turn, SameFlags, SameSessions, Recovers, Called
  <2>3. CASE MergeTurn(p)
    <3>1. CASE Turn(p, "merge", "write")
      BY <2>1, <2>3, <3>1, <1>c, <1>g
         DEF MergeTurn, Turn, SameFlags, SameSessions, SamePrevious, Recovers, Called
    <3>2. CASE Turn(p, "merge", "restore") /\ g > 0 /\ f = 0
      BY <2>1, <2>3, <3>2, <1>c, <1>g
         DEF MergeTurn, Turn, SameFlags, SameSessions, SamePrevious, Recovers, Called
    <3> QED
      BY <2>3, <3>1, <3>2, <1>g DEF MergeTurn
  <2> QED
    BY <1>4, <2>2, <2>3
<1>5. CASE CallTurn(p) \/ ReplaceTurn(p)
  <2>1. l = k /\ n = m
    BY <1>5, <1>i DEF CallTurn, ReplaceTurn, Turn
  <2>2. CASE CallTurn(p)
    BY <2>1, <2>2, <1>c, <1>g
       DEF CallTurn, Turn, SameFlags, SameSessions, SamePrevious, Recovers, Called
  <2>3. CASE ReplaceTurn(p)
    <3>1. proc[p].cmd # "publish"
      BY <2>3 DEF ReplaceTurn, Turn, SequentialInv, Current
    <3> QED
      BY <2>1, <2>3, <3>1, <1>c, <1>g DEF ReplaceTurn, Turn, SamePrevious, Recovers, Called
  <2> QED
    BY <1>5, <2>2, <2>3
<1>6. CASE SaveTurn(p)
  <2>1. l = proc[p].session.secrets /\ n = m
    BY <1>6, <1>d, <1>e DEF SaveTurn, Turn, WriteTurn, WroteTurn
  <2> QED
    BY <1>6, <2>1, <1>c, <1>g
       DEF SaveTurn, Turn, SameFlags, SameSessions, SamePrevious, Recovers, Called
<1>7. CASE RestoreTurn(p)
  <2>1. (l = proc[p].previous \/ l = k) /\ n = m
    BY <1>7, <1>d, <1>e DEF RestoreTurn, Turn, WriteTurn, WroteTurn, l, k
  <2>2. g > 0 /\ (m # None /\ k # None => l # None)
    BY <1>7, <2>1, <1>c, <1>g DEF RestoreTurn, Recovers
  <2> QED
    BY <1>1, <1>7, <1>g, <2>2 DEF RestoreTurn
<1>8. CASE EraseTurn(p)
  <2>1. l = None /\ n = m
    BY <1>8, <1>d, <1>e DEF EraseTurn, Turn, WriteTurn, WroteTurn
  <2>2. proc[p].cmd = "logout"
    BY <1>8, <1>h DEF EraseTurn, Turn
  <2> QED
    BY <1>8, <2>1, <2>2, <1>c DEF EraseTurn, Turn, SamePrevious, Recovers, Called
<1>9. CASE WriteTurn(p)
  <2>1. proc[p].pc = "write" /\ l = k /\ k # None
    BY <1>9, <1>c, <1>d DEF WriteTurn, Turn, SaveTurn, RestoreTurn, EraseTurn, Recovers
  <2>2. CASE Ends(p)
    BY <1>1, <2>1, <2>2
  <2>3. CASE /\ Turn(p, "write", "send") /\ SameSessions(p) /\ SamePrevious(p)
             /\ proc[p].refreshing
    BY <2>1, <2>3, <1>c DEF Turn, SameSessions, SamePrevious, Recovers, Called
  <2>4. CASE /\ Turn(p, "write", "restore") /\ SameSessions(p) /\ SamePrevious(p)
             /\ SameFlags(p) /\ Failed("disk") /\ UNCHANGED index
    BY <1>c, <1>g, <2>1, <2>4
       DEF Turn, SameSessions, SamePrevious, SameFlags, Recovers, Called, m, n
  <2> QED
    BY <1>9, <2>2, <2>3, <2>4 DEF WriteTurn
<1>10. CASE WroteTurn(p)
  <2>1. l = k /\ proc[p].pc \in {"activate", "drop"} /\ index' = proc[p].copy
    BY <1>10, <1>d DEF WroteTurn, Turn, SaveTurn, RestoreTurn, EraseTurn
  <2>2. g = 0 /\ n # None => l # None
    BY <2>1, <1>c, <1>f, <1>g DEF Recovers
  <2> QED
    BY <1>1, <1>10, <2>1, <2>2 DEF WroteTurn, Ends
<1>11. Goal
  BY <1>d, <1>2, <1>3, <1>4, <1>5, <1>6, <1>7, <1>8, <1>9, <1>10
<1> QED
  BY <1>11

LEMMA RecoversInit == Init => RecoversInv
BY IdleFacts, IdleEntry DEF Init, RecoversInv, NoIndex, None, At

\* One process moves, on the account d.
LEMMA RecoversMoved ==
  ASSUME NEW p \in Procs, NEW d \in Dids,
         \A o \in Procs \ {p} : proc'[o] = Idle,
         \A e \in Dids \ {d} :
           faults' = 0 /\ index'.accounts[e] # None => keyring'[e] # None,
         Recovers(proc'[p], keyring'[d], index'.accounts[d], faults'),
         IF proc'[p].pc = "idle"
           THEN faults' = 0 /\ index'.accounts[d] # None => keyring'[d] # None
           ELSE proc'[p].did = d
  PROVE  RecoversInv'
<1>1. ASSUME NEW o \in Procs
      PROVE  Recovers(proc'[o], keyring'[proc'[o].did], index'.accounts[proc'[o].did], faults')
  <2>1. CASE o = p /\ proc'[p].pc # "idle"
    BY <2>1
  <2>2. CASE o = p /\ proc'[p].pc = "idle"
    BY <2>2 DEF Recovers
  <2>3. CASE o # p
    BY <2>3, IdleFacts, IdleEntry
  <2> QED
    BY <2>1, <2>2, <2>3
<1>2. ASSUME NEW e \in Dids, \A o \in Procs : proc'[o].pc = "idle" \/ proc'[o].did # e
      PROVE  faults' = 0 /\ index'.accounts[e] # None => keyring'[e] # None
  BY <1>2
<1> QED
  BY <1>1, <1>2 DEF RecoversInv, At

\* Every step keeps RecoversInv, and takes the secrets of a listed account only for its
\* logout.
LEMMA RecoversKept ==
  ASSUME MaxRunning = 1, MaxFaults <= 1, SequentialInv, RecoversInv, [Next]_vars
  PROVE  /\ RecoversInv'
         /\ \A e \in Known(index) :
              keyring[e] # None /\ keyring'[e] = None =>
                \E p \in Procs : proc[p].cmd = "logout" /\ proc[p].did = e
<1> DEFINE Survive == \A e \in Known(index) :
                        keyring[e] # None /\ keyring'[e] = None =>
                          \E p \in Procs : proc[p].cmd = "logout" /\ proc[p].did = e
<1>a. TypeOK /\ OneAtATime /\ faults \in Nat
  BY DEF SequentialInv, TypeOK
<1>b. UNCHANGED keyring => Survive
  OBVIOUS
<1> HIDE DEF Survive
<1>1. ASSUME UNCHANGED <<proc, keyring, index, faults>> PROVE RecoversInv' /\ Survive
  BY <1>1, <1>b DEF RecoversInv, At, Survive
<1>2. ASSUME NEW p \in Procs, Advance(p), \A o \in Procs \ {p} : proc'[o] = proc[o]
      PROVE  RecoversInv' /\ Survive
  <2> DEFINE d == proc[p].did
  <2>1. ~At(p, "idle")
    BY <1>2, AdvanceRuns DEF At
  <2>2. d \in Dids
    BY <1>a, <2>1, RunningIsActive DEF Active
  <2>3. \A o \in Procs \ {p} : proc[o] = Idle /\ At(o, "idle")
    BY <1>a, <2>1, IdleIsIdle DEF OneAtATime
  <2>4. faults' = 0 => faults = 0
    BY <1>a, <1>2, AdvanceTurns
  <2>5. \A e \in Dids \ {d} : keyring'[e] = keyring[e] /\ index'.accounts[e] = index.accounts[e]
    BY <1>2, OthersSame
  <2>6. \A e \in Dids \ {d} :
          faults' = 0 /\ index'.accounts[e] # None => keyring'[e] # None
    BY <2>3, <2>4, <2>5 DEF RecoversInv
  <2>7. /\ Recovers(proc'[p], keyring'[d], index'.accounts[d], faults')
        /\ proc'[p].pc = "idle" =>
             (faults' = 0 /\ index'.accounts[d] # None => keyring'[d] # None)
        /\ proc'[p].pc # "idle" => proc'[p].did = d
        /\ index.accounts[d] # None /\ keyring[d] # None /\ keyring'[d] = None =>
             proc[p].cmd = "logout"
    BY <1>2, RecoversStep DEF RecoversInv
  <2>8. Survive
    BY <2>5, <2>7 DEF Survive, Known
  <2> HIDE DEF d
  <2>9. RecoversInv'
    BY <1>2, <2>2, <2>3, <2>6, <2>7, RecoversMoved
  <2> QED
    BY <2>8, <2>9
<1>3. ASSUME NEW p \in Procs, NEW d \in Dids, Begin(p, d)
      PROVE  RecoversInv' /\ Survive
  <2>1. \A o \in Procs : At(o, "idle") /\ proc[o] = Idle
    BY <1>a, <1>3, BeginsAlone, IdleIsIdle
       DEF Begin, BeginLogin, BeginRefresh, BeginSwitch, BeginLogout, BeginPublish, BeginLoaded
  <2>2. /\ UNCHANGED <<keyring, index>>
        /\ faults' = faults \/ faults' = faults + 1
    BY <1>3 DEF Begin, BeginLogin, BeginRefresh, BeginSwitch, BeginLogout, BeginPublish,
                BeginLoaded, Overlap, Fault
  <2>3. \A e \in Dids : faults' = 0 /\ index'.accounts[e] # None => keyring'[e] # None
    BY <1>a, <2>1, <2>2 DEF RecoversInv
  <2>4. \A o \in Procs \ {p} : proc'[o] = Idle
    BY <1>a, <1>3, <2>1, BeginOnly
  <2>5. proc'[p] = Idle \/ Begun(proc'[p], d)
    BY <1>a, <1>3, <2>1, BeginOnly
  <2>6. Fresh # None
    BY <1>a DEF TypeOK, Fresh, None
  <2>7. \A q, k, m, f : Begun(q, d) /\ (f = 0 /\ m # None => k # None) =>
                          Recovers(q, k, m, f) /\ q.did = d /\ q.pc # "idle"
    BY <2>6 DEF Begun, Recovers, Called, SessionOf
  <2>8. /\ Recovers(proc'[p], keyring'[d], index'.accounts[d], faults')
        /\ proc'[p].pc # "idle" => proc'[p].did = d
    BY <2>3, <2>5, <2>7, IdleFacts, IdleEntry
  <2>9. RecoversInv'
    BY <2>3, <2>4, <2>8, RecoversMoved
  <2> QED
    BY <1>b, <2>2, <2>9
<1>4. ASSUME NEW p \in Procs, Crash(p)
      PROVE  RecoversInv' /\ Survive
  <2>1. \A o \in Procs : proc'[o] = Idle
    BY <1>a, <1>4, BecomeOnly, IdleIsIdle DEF Crash, Stop, OneAtATime
  <2>2. UNCHANGED keyring /\ faults' # 0
    BY <1>a, <1>4 DEF Crash, Fault
  <2> QED
    BY <1>b, <2>1, <2>2, IdleEntry DEF RecoversInv
<1>5. \A p \in Procs : Advance(p) => RecoversInv' /\ Survive
  BY <1>a, <1>2, AdvanceOthers
<1>6. RecoversInv' /\ Survive
  BY <1>1, <1>3, <1>4, <1>5 DEF Next, vars, Expire
<1> QED
  BY <1>6 DEF Survive

\* No failure of a save, and no process that dies in the middle of one, costs a listed
\* account its secrets; only a logout takes them (internal/sessionstore/store.go:145-166,
\* 268-290).  One fault is the most: with two, a locked keyring that FindPrevious takes
\* for an empty one and a lost write of the index delete what was there.
THEOREM SecretsAlwaysSurvive ==
  ASSUME MaxRunning = 1, MaxFaults <= 1 PROVE Spec => SecretsSurvive
<1>1. SequentialInv /\ RecoversInv /\ [Next]_vars => RecoversInv'
  BY RecoversKept
<1>2. SequentialInv /\ RecoversInv /\ [Next]_vars =>
        [\A d \in Known(index) :
           keyring[d] # None /\ keyring'[d] = None =>
             \E p \in Procs : proc[p].cmd = "logout" /\ proc[p].did = d]_vars
  BY RecoversKept
<1> QED
  BY <1>1, <1>2, RecoversInit, SequentialInvariant, PTL DEF Spec, SecretsSurvive

=============================================================================
