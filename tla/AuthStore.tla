------------------------------- MODULE AuthStore -------------------------------
(***************************************************************************)
(* The session store (internal/sessionstore) and the XRPC client that uses *)
(* it (internal/protocol/atproto/xrpc.go).  A session is kept in two       *)
(* places: its secrets in the keyring of the operating system, what is not *)
(* secret in the index accounts.json, which also names the active account. *)
(* Every command is a process of its own; there is no lock.  A process     *)
(* replaces the index as a whole and atomically (temporary file, rename).  *)
(*                                                                         *)
(* A grant is what one answer of the authorization server gives: an access *)
(* token, a refresh token, a scope, an expiry.  Grants are numbered as     *)
(* they are issued; 0 is no grant.  Refreshing consumes the refresh token  *)
(* of the old grant; its access token is accepted until it expires.        *)
(***************************************************************************)
EXTENDS Naturals, Sequences, FiniteSets

CONSTANTS Dids,        \* accounts, ordered as the program orders their DIDs
          Procs,       \* slots for running commands
          Faults,      \* kinds of faults that can happen
          MaxRunning,  \* bound: commands that run at the same time
          MaxGrants,   \* bound: grants ever issued
          MaxCalls,    \* bound: XRPC calls one publish makes
          MaxFaults    \* bound: faults in a behaviour

\* "crash": a process dies between two steps.  "disk": reading or writing the
\* index fails.  "keyring": the keyring is locked or not available.  "reply":
\* the authorization server grants, but the client sees an error (connection
\* lost, or an answer refreshAccessToken refuses).  "denial": the server of the
\* account denies a token that has not expired.  "overlap": a command is started while
\* another runs.
FaultKind == {"crash", "disk", "keyring", "reply", "denial", "overlap"}

ASSUME AuthAssumption ==
  /\ Dids \subseteq Nat \ {0}
  /\ IsFiniteSet(Procs)
  /\ Faults \subseteq FaultKind
  /\ {MaxRunning, MaxGrants, MaxCalls, MaxFaults} \subseteq Nat

VARIABLES keyring,  \* the grant whose secrets the keyring holds, per account
          index,    \* accounts.json
          issued,   \* the account of each grant
          live,     \* grants whose refresh token the server accepts
          expired,  \* grants whose access token the server rejects
          proc,     \* the process in each slot
          faults    \* faults so far

vars == <<keyring, index, issued, live, expired, proc, faults>>

None == 0
Grants == 1..Len(issued)

\* metadataIndex: the active account, and per account the grant its metadata
\* (scope, nonce, expiry) describes, None for an account it does not list.
Index == [active : Dids \cup {None}, accounts : [Dids -> Nat]]
NoIndex == [active |-> None, accounts |-> [d \in Dids |-> None]]

Known(idx) == {d \in Dids : idx.accounts[d] # None}

\* atproto.Session: secrets of one grant with the metadata of one.
Session == [secrets : Nat, meta : Nat]
NoSession == [secrets |-> None, meta |-> None]
SessionOf(g) == [secrets |-> g, meta |-> g]

Command == {"login", "refresh", "switch", "logout", "publish"}
Step == {"load", "secrets", "rotate", "previous", "save", "merge", "write", "restore",
         "select", "activate", "remove", "erase", "drop", "send"}

\* A process: the command, its account and where it is; the session publish
\* was given (own) and the one in use; what SaveSession found in the keyring;
\* its copy of the index; the calls it has still to make; and of the call being
\* made, the nonce it is sent with (two values: what matters is that a challenge
\* changes it), whether that was retried and whether its session was refreshed.
Active ==
  [cmd : Command, did : Dids, pc : Step, own : Session, session : Session,
   previous : Nat, copy : Index, calls : Nat,
   refreshing : BOOLEAN, nonce : BOOLEAN, retried : BOOLEAN, refreshed : BOOLEAN]

Idle == [cmd |-> "none", did |-> None, pc |-> "idle", own |-> NoSession,
         session |-> NoSession, previous |-> None, copy |-> NoIndex, calls |-> 0,
         refreshing |-> FALSE, nonce |-> FALSE, retried |-> FALSE,
         refreshed |-> FALSE]

Process == Active \cup {Idle}

Running == {p \in Procs : proc[p].pc # "idle"}

TypeOK ==
  /\ keyring \in [Dids -> Nat]
  /\ index \in Index
  /\ issued \in Seq(Dids)
  /\ live \subseteq Nat
  /\ expired \subseteq Nat
  /\ proc \in [Procs -> Process]
  /\ faults \in Nat

Init ==
  /\ keyring = [d \in Dids |-> None]
  /\ index = NoIndex
  /\ issued = << >>
  /\ live = {}
  /\ expired = {}
  /\ proc = [p \in Procs |-> Idle]
  /\ faults = 0

Fault(kind) ==
  /\ kind \in Faults
  /\ faults < MaxFaults
  /\ faults' = faults + 1

Become(p, q) == proc' = [proc EXCEPT ![p] = q]
Stop(p) == Become(p, Idle)
At(p, pc) == proc[p].pc = pc
Goto(p, pc) == Become(p, [proc[p] EXCEPT !.pc = pc])

\* Mutant: one call more than there are.
ReturnOnce(p) ==
  IF proc[p].cmd = "publish"
    THEN Become(p, [proc[p] EXCEPT !.pc = "send", !.calls = @ - 1])
    ELSE Stop(p)

\* The call a publish makes is over, well or badly: it goes on with the next,
\* using the session it was given at first.  Any other command ends.
Return(p) ==
  IF proc[p].cmd = "publish" /\ proc[p].calls > 0
    THEN Become(p, [proc[p] EXCEPT !.pc = "send", !.calls = @ - 1,
                                   !.session = proc[p].own, !.refreshing = FALSE, !.nonce = FALSE,
                                   !.retried = FALSE, !.refreshed = FALSE])
    ELSE Stop(p)

\* LoadSession fails: a publish or a logout ends, a refresh within a call fails
\* the call.
NoLoad(p) == IF proc[p].refreshing THEN Return(p) ELSE Stop(p)

Issue(d) == issued' = Append(issued, d)
Fresh == Len(issued) + 1

-----------------------------------------------------------------------------
(* Starting a command.                                                     *)

CanBegin(p) == At(p, "idle") /\ Cardinality(Running) < MaxRunning
Overlap == IF Running = {} THEN UNCHANGED faults ELSE Fault("overlap")

\* pdg atproto login, or the authorization inside pdg add: the grant is
\* issued, and saved with makeActive.
BeginLogin(p, d) ==
  /\ CanBegin(p)
  /\ Fresh <= MaxGrants
  /\ Issue(d)
  /\ live' = live \cup {Fresh}
  /\ \/ /\ Become(p, [Idle EXCEPT !.cmd = "login", !.did = d, !.pc = "previous",
                                  !.session = SessionOf(Fresh)])
        /\ Overlap
     \/ Fault("reply") /\ UNCHANGED proc
  /\ UNCHANGED <<keyring, index, expired>>

\* pdg atproto auth refresh.  Its first load of the session only decides
\* whether there is one, as the load of RefreshSession does again.
BeginRefresh(p, d) ==
  /\ CanBegin(p)
  /\ Become(p, [Idle EXCEPT !.cmd = "refresh", !.did = d, !.pc = "load",
                            !.refreshing = TRUE])
  /\ Overlap
  /\ UNCHANGED <<keyring, index, issued, live, expired>>

BeginSwitch(p, d) ==
  /\ CanBegin(p)
  /\ Become(p, [Idle EXCEPT !.cmd = "switch", !.did = d, !.pc = "select"])
  /\ Overlap
  /\ UNCHANGED <<keyring, index, issued, live, expired>>

\* pdg atproto logout, and publish or post: both load the session first.
BeginLoaded(p, cmd, d, calls) ==
  /\ CanBegin(p)
  /\ Become(p, [Idle EXCEPT !.cmd = cmd, !.did = d, !.pc = "load", !.calls = calls])
  /\ Overlap
  /\ UNCHANGED <<keyring, index, issued, live, expired>>

BeginLogout(p, d) == BeginLoaded(p, "logout", d, 0)
BeginPublish(p, d) == \E n \in 0..MaxCalls - 1 : BeginLoaded(p, "publish", d, n)

Crash(p) ==
  /\ ~At(p, "idle")
  /\ Fault("crash")
  /\ Stop(p)
  /\ UNCHANGED <<keyring, index, issued, live, expired>>

-----------------------------------------------------------------------------
(* LoadSession: the metadata, then the secrets.                            *)

LoadMetadata(p) ==
  /\ At(p, "load")
  /\ \/ /\ proc[p].did \in Known(index)
        /\ Become(p, [proc[p] EXCEPT
             !.pc = "secrets",
             !.session = [secrets |-> None, meta |-> index.accounts[proc[p].did]]])
        /\ UNCHANGED faults
     \/ proc[p].did \notin Known(index) /\ NoLoad(p) /\ UNCHANGED faults
     \/ Fault("disk") /\ NoLoad(p)
  /\ UNCHANGED <<keyring, index, issued, live, expired>>

\* A refresh goes on with the rotation, a logout with the deletion.  A publish
\* keeps the session as its own and makes its first call.
LoadSecrets(p) ==
  LET loaded == [proc[p].session EXCEPT !.secrets = keyring[proc[p].did]]  IN
  /\ At(p, "secrets")
  /\ \/ /\ keyring[proc[p].did] # None
        /\ Become(p, [proc[p] EXCEPT
             !.session = loaded,
             !.own = IF proc[p].refreshing THEN @ ELSE loaded,
             !.pc = IF proc[p].refreshing THEN "rotate"
                    ELSE IF proc[p].cmd = "logout" THEN "remove" ELSE "send"])
        /\ UNCHANGED faults
     \/ keyring[proc[p].did] = None /\ NoLoad(p) /\ UNCHANGED faults
     \/ Fault("keyring") /\ NoLoad(p)
  /\ UNCHANGED <<keyring, index, issued, live, expired>>

-----------------------------------------------------------------------------
(* RefreshSession at the authorization server.                             *)

Rotate(p) ==
  LET old == proc[p].session.secrets  IN
  /\ At(p, "rotate")
  /\ old \in live
  /\ Fresh <= MaxGrants
  /\ Issue(proc[p].did)
  /\ live' = (live \ {old}) \cup {Fresh}
  /\ \/ /\ Become(p, [proc[p] EXCEPT !.session = SessionOf(Fresh), !.pc = "previous"])
        /\ UNCHANGED faults
     \/ Fault("reply") /\ Return(p)
  /\ UNCHANGED <<keyring, index, expired>>

\* The refresh token is refused, or the server is not reached.
RotateFails(p) ==
  /\ At(p, "rotate")
  /\ Return(p)
  /\ UNCHANGED <<keyring, index, issued, live, expired, faults>>

-----------------------------------------------------------------------------
(* SaveSession: remember what the keyring holds, put the new secrets there, *)
(* then write the index, or else put back what was there.                   *)

\* Mutant: what the keyring holds is not remembered.
PreviousIgnored(p) ==
  /\ At(p, "previous")
  /\ Become(p, [proc[p] EXCEPT !.previous = None, !.pc = "save"])
  /\ UNCHANGED <<keyring, index, issued, live, expired, faults>>

\* An error of the keyring passes for "nothing was there".
FindPrevious(p) ==
  /\ At(p, "previous")
  /\ \/ /\ Become(p, [proc[p] EXCEPT !.previous = keyring[proc[p].did], !.pc = "save"])
        /\ UNCHANGED faults
     \/ /\ Become(p, [proc[p] EXCEPT !.previous = None, !.pc = "save"])
        /\ Fault("keyring")
  /\ UNCHANGED <<keyring, index, issued, live, expired>>

\* Mutant: the secrets are stored under the active account.
SaveUnderActive(p) ==
  LET d == IF index.active = None THEN proc[p].did ELSE index.active  IN
  /\ At(p, "save")
  /\ keyring' = [keyring EXCEPT ![d] = proc[p].session.secrets]
  /\ Goto(p, "merge")
  /\ UNCHANGED <<index, issued, live, expired, faults>>

SaveSecrets(p) ==
  /\ At(p, "save")
  /\ \/ /\ keyring' = [keyring EXCEPT ![proc[p].did] = proc[p].session.secrets]
        /\ Goto(p, "merge")
        /\ UNCHANGED faults
     \/ Fault("keyring") /\ Return(p) /\ UNCHANGED keyring
  /\ UNCHANGED <<index, issued, live, expired>>

\* The index with the account of process p, active when a login asks for it.
Merged(p, activate) ==
  [active   |-> IF activate THEN proc[p].did ELSE index.active,
   accounts |-> [index.accounts EXCEPT ![proc[p].did] = proc[p].session.meta]]

\* Mutant: makeActive is taken for true.
MergeActivates(p) ==
  /\ At(p, "merge")
  /\ Become(p, [proc[p] EXCEPT !.copy = Merged(p, TRUE), !.pc = "write"])
  /\ UNCHANGED <<keyring, index, issued, live, expired, faults>>

MergeIndex(p) ==
  /\ At(p, "merge")
  /\ \/ /\ Become(p, [proc[p] EXCEPT !.copy = Merged(p, proc[p].cmd = "login"),
                                     !.pc = "write"])
        /\ UNCHANGED faults
     \/ Fault("disk") /\ Goto(p, "restore")
  /\ UNCHANGED <<keyring, index, issued, live, expired>>

\* After a refresh within a call the request is sent again; after a new nonce,
\* or for any other command, the call is over.
WriteIndex(p) ==
  /\ At(p, "write")
  /\ \/ /\ index' = proc[p].copy
        /\ IF proc[p].cmd = "publish" /\ proc[p].refreshing
             THEN Become(p, [proc[p] EXCEPT !.pc = "send", !.refreshing = FALSE,
                                            !.retried = FALSE, !.refreshed = TRUE])
             ELSE Return(p)
        /\ UNCHANGED faults
     \/ Fault("disk") /\ Goto(p, "restore") /\ UNCHANGED index
  /\ UNCHANGED <<keyring, issued, live, expired>>

\* Mutant: secrets that were not there before are left behind.
RestoreLeaves(p) ==
  /\ At(p, "restore")
  /\ keyring' = [keyring EXCEPT ![proc[p].did] =
                   IF proc[p].previous = None THEN @ ELSE proc[p].previous]
  /\ Return(p)
  /\ UNCHANGED <<index, issued, live, expired, faults>>

\* restorePrevious; its own errors are ignored.
Restore(p) ==
  /\ At(p, "restore")
  /\ \/ /\ keyring' = [keyring EXCEPT ![proc[p].did] = proc[p].previous]
        /\ UNCHANGED faults
     \/ Fault("keyring") /\ UNCHANGED keyring
  /\ Return(p)
  /\ UNCHANGED <<index, issued, live, expired>>

-----------------------------------------------------------------------------
(* SetActive.                                                              *)

\* Mutant: an account that is not in the index can be made active.
SelectUnchecked(p) ==
  /\ At(p, "select")
  /\ Become(p, [proc[p] EXCEPT !.copy = [index EXCEPT !.active = proc[p].did],
                               !.pc = "activate"])
  /\ UNCHANGED <<keyring, index, issued, live, expired, faults>>

SelectAccount(p) ==
  /\ At(p, "select")
  /\ \/ /\ proc[p].did \in Known(index)
        /\ Become(p, [proc[p] EXCEPT !.copy = [index EXCEPT !.active = proc[p].did],
                                     !.pc = "activate"])
        /\ UNCHANGED faults
     \/ proc[p].did \notin Known(index) /\ Stop(p) /\ UNCHANGED faults
     \/ Fault("disk") /\ Stop(p)
  /\ UNCHANGED <<keyring, index, issued, live, expired>>

\* The last step of a switch and of a logout: write the copy.
Replace(p, pc) ==
  /\ At(p, pc)
  /\ \/ index' = proc[p].copy /\ UNCHANGED faults
     \/ Fault("disk") /\ UNCHANGED index
  /\ Stop(p)
  /\ UNCHANGED <<keyring, issued, live, expired>>

Activate(p) == Replace(p, "activate")

-----------------------------------------------------------------------------
(* DeleteSession: the secrets first, then the account.                     *)

Smallest(S) == CHOOSE d \in S : \A e \in S : d <= e

\* Mutant: the account stays the active one.
WithoutMoving(idx, d) == [idx EXCEPT !.accounts[d] = None]

\* nextActiveDID: if it was active, the first account left becomes so.
Without(idx, d) ==
  LET left == Known(idx) \ {d}  IN
  [active   |-> IF idx.active # d THEN idx.active
                ELSE IF left = {} THEN None ELSE Smallest(left),
   accounts |-> [idx.accounts EXCEPT ![d] = None]]

FindAccount(p) ==
  /\ At(p, "remove")
  /\ \/ /\ proc[p].did \in Known(index)
        /\ Become(p, [proc[p] EXCEPT !.copy = Without(index, proc[p].did), !.pc = "erase"])
        /\ UNCHANGED faults
     \/ proc[p].did \notin Known(index) /\ Stop(p) /\ UNCHANGED faults
     \/ Fault("disk") /\ Stop(p)
  /\ UNCHANGED <<keyring, index, issued, live, expired>>

EraseSecrets(p) ==
  /\ At(p, "erase")
  /\ \/ /\ keyring' = [keyring EXCEPT ![proc[p].did] = None]
        /\ Goto(p, "drop")
        /\ UNCHANGED faults
     \/ Fault("keyring") /\ Stop(p) /\ UNCHANGED keyring
  /\ UNCHANGED <<index, issued, live, expired>>

DropAccount(p) == Replace(p, "drop")

-----------------------------------------------------------------------------
(* An XRPC call (XRPCClient.do).                                           *)

Sending(p) == At(p, "send")

\* The server accepts the call and sets no new nonce, or the call fails: the
\* server is not reached, refuses, challenges a second time, or denies the
\* refreshed token.
EndCall(p) ==
  /\ Sending(p)
  /\ Return(p)
  /\ UNCHANGED <<keyring, index, issued, live, expired, faults>>

\* Mutant: the nonce is saved with the session publish was given at first.
AcceptWithOwn(p) ==
  /\ Sending(p)
  /\ proc[p].session.secrets \notin expired
  /\ Become(p, [proc[p] EXCEPT !.session = proc[p].own, !.pc = "previous"])
  /\ UNCHANGED <<keyring, index, issued, live, expired, faults>>

\* The server accepts the call and sets a new nonce: the session is saved.
AcceptWithNonce(p) ==
  /\ Sending(p)
  /\ proc[p].session.secrets \notin expired
  /\ Goto(p, "previous")
  /\ UNCHANGED <<keyring, index, issued, live, expired, faults>>

\* Mutant: every challenge is answered by a retry.
ChallengeAgain(p) ==
  /\ Sending(p)
  /\ Become(p, [proc[p] EXCEPT !.nonce = ~@, !.retried = TRUE])
  /\ UNCHANGED <<keyring, index, issued, live, expired, faults>>

Challenge(p) ==
  /\ Sending(p)
  /\ ~proc[p].retried
  /\ Become(p, [proc[p] EXCEPT !.nonce = ~@, !.retried = TRUE])
  /\ UNCHANGED <<keyring, index, issued, live, expired, faults>>

\* Mutant: a call is sent again after every refresh.
DenyAgain(p) ==
  /\ Sending(p)
  /\ proc[p].session.secrets \in expired
  /\ Become(p, [proc[p] EXCEPT !.refreshing = TRUE, !.pc = "load"])
  /\ UNCHANGED <<keyring, index, issued, live, expired, faults>>

\* The access token is denied: refresh what the store holds, once per call.  One that
\* has not expired may be accepted again, in a later call of the same publish.
Deny(p) ==
  /\ Sending(p)
  /\ ~proc[p].refreshed
  /\ \/ proc[p].session.secrets \in expired /\ UNCHANGED faults
     \/ proc[p].session.secrets \notin expired /\ Fault("denial")
  /\ Become(p, [proc[p] EXCEPT !.refreshing = TRUE, !.pc = "load"])
  /\ UNCHANGED <<keyring, index, issued, live, expired>>

\* An access token expires.
Expire ==
  /\ \E g \in Grants \ expired : expired' = expired \cup {g}
  /\ UNCHANGED <<keyring, index, issued, live, proc, faults>>

-----------------------------------------------------------------------------
Advance(p) ==
  \/ LoadMetadata(p) \/ LoadSecrets(p) \/ Rotate(p) \/ RotateFails(p)
  \/ FindPrevious(p) \/ SaveSecrets(p) \/ MergeIndex(p) \/ WriteIndex(p) \/ Restore(p)
  \/ SelectAccount(p) \/ Activate(p)
  \/ FindAccount(p) \/ EraseSecrets(p) \/ DropAccount(p)
  \/ EndCall(p) \/ AcceptWithNonce(p) \/ Challenge(p) \/ Deny(p)

Begin(p, d) ==
  \/ BeginLogin(p, d) \/ BeginRefresh(p, d) \/ BeginSwitch(p, d)
  \/ BeginLogout(p, d) \/ BeginPublish(p, d)

Next ==
  \/ \E p \in Procs : (\E d \in Dids : Begin(p, d)) \/ Advance(p) \/ Crash(p)
  \/ Expire

Spec == Init /\ [][Next]_vars

\* The operating system runs every process, and a request is answered or fails;
\* nothing else is assumed of the user or of the servers, which may challenge and
\* deny every call.
FairSpec == Spec /\ \A p \in Procs : WF_vars(Advance(p))

-----------------------------------------------------------------------------
(* Safety, whatever runs together and whatever fails.                      *)

\* The active account is one the index lists, so that `pdg atproto auth status`
\* finds its session: in the file, and in every copy that is going to replace
\* it, however stale (internal/sessionstore/store.go:160, 253, 272).
ActiveIsKnown ==
  \A idx \in {index} \cup {proc[p].copy : p \in Procs} :
    idx.active # None => idx.active \in Known(idx)

Owned(g, d) == g # None => g \in Grants /\ issued[g] = d

\* Secrets and metadata kept for an account, or carried by a command that works
\* on it, were issued to this very account: no save, restore or refresh puts a
\* session under another account's DID (internal/sessionstore/store.go:145-166).
GrantsAreOwn ==
  /\ \A d \in Dids : Owned(keyring[d], d) /\ Owned(index.accounts[d], d)
  /\ \A p \in Procs :
       /\ \A d \in Dids : Owned(proc[p].copy.accounts[d], d)
       /\ \A g \in {proc[p].session.secrets, proc[p].session.meta, proc[p].previous,
                   proc[p].own.secrets, proc[p].own.meta} : Owned(g, proc[p].did)

\* An account the store knows something of cannot be used: its secrets are gone,
\* or are not of the grant its metadata describes, or their refresh token is one
\* the server has consumed.
Broken(d) ==
  /\ keyring[d] # None \/ d \in Known(index)
  /\ keyring[d] # index.accounts[d] \/ keyring[d] \notin live

\* Between commands every account can be used, save for one for each fault, be it
\* a step that failed, an answer that was lost, or a command started while another
\* ran (internal/sessionstore/store.go:145-180, 268-290,
\* internal/protocol/atproto/xrpc.go:119-152, oauth_token.go:203-262).
BrokenAreFaults == Running = {} => Cardinality({d \in Dids : Broken(d)}) <= faults

\* A bound on the steps a process has still to take.  Those of a call depend on
\* whether it can still be challenged, and its session still be refreshed; a call that
\* is yet to come takes no more than 18.
Ahead(pc) ==
  CASE pc = "load" -> 8 [] pc = "secrets" -> 7 [] pc = "rotate" -> 6
    [] pc = "previous" -> 5 [] pc = "save" -> 4
    [] pc \in {"merge", "remove"} -> 3
    [] pc \in {"write", "select", "erase"} -> 2
    [] pc \in {"restore", "activate", "drop"} -> 1
    [] OTHER -> 0

CallSteps(q) ==
  IF q.pc = "send"
    THEN (IF q.refreshed THEN 6 ELSE 16) + (IF q.retried THEN 0 ELSE 1)
    ELSE Ahead(q.pc) + (IF q.refreshing THEN 7
                        ELSE IF q.pc \in {"load", "secrets"} THEN 11 ELSE 0)

StepsLeft(q) == 18 * q.calls + CallSteps(q)

\* Each step of a command leaves it fewer to take, whatever fails and however often
\* the servers challenge and deny: a call is sent at most twice with each of two
\* sessions, and a publish takes at most 18 steps for each of its calls, and one more
\* (internal/protocol/atproto/xrpc.go:131-143).
StepsAreBounded ==
  [][\A p \in Procs : Advance(p) => StepsLeft(proc'[p]) < StepsLeft(proc[p])]_vars

-----------------------------------------------------------------------------
(* Safety of commands that run one at a time (MaxRunning = 1).             *)

\* Between commands the refresh token the keyring holds is one the server still
\* accepts: "RefreshSession refreshes and persists the selected session atomically
\* at the application level" (internal/sessionstore/store.go:170).
StoredTokensLive ==
  Running = {} => \A d \in Dids : keyring[d] # None => keyring[d] \in live

\* Between commands the index lists every account that has secrets, and its
\* metadata describes the very grant the secrets are of: what the two-step save
\* and its compensation leave behind when any one step of them fails.
SecretsAreDescribed ==
  Running = {} =>
    \A d \in Dids : keyring[d] # None => index.accounts[d] = keyring[d]

\* No failure of a save costs a listed account its secrets; only a logout takes
\* them (with two faults it can: FindPrevious takes a locked keyring for an
\* empty one, and Restore then deletes what was there).
SecretsSurvive ==
  [][\A d \in Known(index) :
       keyring[d] # None /\ keyring'[d] = None =>
         \E p \in Procs : proc[p].cmd = "logout" /\ proc[p].did = d]_vars

\* The active account changes only by a login, a switch, or the logout of the
\* active account; a refresh or a new nonce leaves it alone
\* (internal/sessionstore/store.go:160-162, 272-274).
ActivationIsExplicit ==
  [][index'.active # index.active =>
       \E p \in Procs : \/ proc[p].cmd \in {"login", "switch"} /\ index'.active = proc[p].did
                        \/ proc[p].cmd = "logout" /\ index.active = proc[p].did]_vars

\* What the index promises a reader: a set of accounts, one of them active.
Registry == INSTANCE AccountRegistry WITH
              known <- Known(index), active <- index.active

\* The index implements the registry.
ImplementsRegistry == Registry!Spec

-----------------------------------------------------------------------------
(* Liveness.                                                               *)

\* Every command ends, although the servers may challenge and deny every call.
CommandsEnd == \A p \in Procs : ~At(p, "idle") ~> At(p, "idle")

=============================================================================
