------------------------------ MODULE OAuthLogin ------------------------------
(***************************************************************************)
(* The OAuth login (internal/protocol/atproto/client.go, oauth_*.go): each *)
(* login is a process that starts a callback server on a port of its own,  *)
(* pushes an authorization request, shows a URL to the user, waits for the *)
(* user's Enter and then for a callback, and exchanges the code for tokens.*)
(* The callback server runs a handler for every request beside it.         *)
(*                                                                         *)
(* The state parameter, the code verifier and the DPoP key of a login are  *)
(* random, so the login itself stands for all three.  The browser keeps    *)
(* every URL it was redirected to and may load one again, also when the    *)
(* port has meanwhile gone over to another login.                          *)
(***************************************************************************)
EXTENDS Naturals, Sequences

CONSTANTS Logins,     \* runs of pdg atproto login (or of the login within pdg add)
          Accounts,   \* ATProto identities
          Ports,      \* ports of the loopback interface
          MaxVisits   \* bound: callbacks that the browser makes

ASSUME LoginAssumption == MaxVisits \in Nat

VARIABLES login,     \* the process of each login
          result,    \* its result channel, which has a buffer of one
          visits,    \* the callbacks that have reached a server, in order
          request,   \* the pushed request of each login, at the server
          codes,     \* the authorization codes issued by the server, in order
          urls       \* the redirects that the browser has been given

vars == <<login, result, visits, request, codes, urls>>

None == 0

\* A redirect: to which port, with which state parameter, and with which code.
\* Without a code it reports an error, such as a refusal.
Url == [port : Ports, state : Logins, code : Nat]

Place == {"idle", "push", "confirm", "wait", "exchange", "done", "failed"}
Process == [pc : Place, did : Accounts, port : Ports, code : Nat, retried : BOOLEAN]
Visit == [to : Logins, url : Url, at : {"new", "answered", "ended"}]
Code == [request : Logins, subject : Accounts, redeemed : BOOLEAN]
Capacity == 1

TypeOK ==
  /\ login \in [Logins -> Process]
  /\ result \in [Logins -> Seq(Url)] /\ \A l \in Logins : Len(result[l]) <= Capacity
  /\ visits \in Seq(Visit)
  /\ request \in [Logins -> {"none", "shown", "answered"}]
  /\ codes \in Seq(Code)
  /\ urls \subseteq Url

\* Which identity a login is for, and which port it will get, is open until it starts.
Init ==
  /\ \E did \in [Logins -> Accounts], port \in [Logins -> Ports] :
       login = [l \in Logins |-> [pc |-> "idle", did |-> did[l], port |-> port[l],
                                 code |-> None, retried |-> FALSE]]
  /\ result = [l \in Logins |-> << >>]
  /\ visits = << >>
  /\ request = [l \in Logins |-> "none"]
  /\ codes = << >>
  /\ urls = {}

At(l, pc) == login[l].pc = pc
Ended(l) == login[l].pc \in {"done", "failed"}
Running(l) == login[l].pc \notin {"idle", "done", "failed"}

\* The server is shut down as soon as authorize returns.
Listening(l) == login[l].pc \in {"push", "confirm", "wait"}

Become(l, q) == login' = [login EXCEPT ![l] = q]
Go(l, pc) == Become(l, [login[l] EXCEPT !.pc = pc])

-----------------------------------------------------------------------------
(* The process of a login.                                                 *)

\* authorize, up to the start of the callback server.
Begin(l) ==
  /\ At(l, "idle")
  /\ \A k \in Logins : Listening(k) => login[k].port # login[l].port
  /\ Go(l, "push")
  /\ UNCHANGED <<result, visits, request, codes, urls>>

\* A request is refused or lost, the terminal is closed, the user interrupts.
Fail(l) ==
  /\ Running(l)
  /\ Go(l, "failed")
  /\ UNCHANGED <<result, visits, request, codes, urls>>

\* The server accepts the request, and the user is shown the URL to visit.
Push(l) ==
  /\ At(l, "push")
  /\ request' = [request EXCEPT ![l] = "shown"]
  /\ Go(l, "confirm")
  /\ UNCHANGED <<result, visits, codes, urls>>

\* use_dpop_nonce: each of the two requests is repeated once.
Retry(l) ==
  /\ IF login[l].retried THEN Go(l, "failed") ELSE Become(l, [login[l] EXCEPT !.retried = TRUE])
  /\ UNCHANGED <<result, visits, request, codes, urls>>

ChallengePush(l) == At(l, "push") /\ Retry(l)
ChallengeExchange(l) == At(l, "exchange") /\ Retry(l)

\* The user presses Enter; a callback may have come before that.
Confirm(l) ==
  /\ At(l, "confirm")
  /\ Go(l, "wait")
  /\ UNCHANGED <<result, visits, request, codes, urls>>

\* What authorize returns, or fails with, when wait has given it a callback.
Accept(l, callback, good) ==
  IF good
    THEN Become(l, [login[l] EXCEPT !.pc = "exchange", !.code = callback.code, !.retried = FALSE])
    ELSE Go(l, "failed")

\* Mutant: the state parameter is not compared.
ReceiveAny(l) ==
  /\ At(l, "wait")
  /\ result[l] # << >>
  /\ result' = [result EXCEPT ![l] = Tail(@)]
  /\ Accept(l, Head(result[l]), Head(result[l]).code # None)
  /\ UNCHANGED <<visits, request, codes, urls>>

\* wait, and the comparison of the state parameter.
Receive(l) ==
  /\ At(l, "wait")
  /\ result[l] # << >>
  /\ result' = [result EXCEPT ![l] = Tail(@)]
  /\ Accept(l, Head(result[l]), Head(result[l]).code # None /\ Head(result[l]).state = l)
  /\ UNCHANGED <<visits, request, codes, urls>>

\* The server honours a code once, and for the verifier of its request.
Honours(l) ==
  /\ login[l].code \in 1..Len(codes)
  /\ codes[login[l].code].request = l
  /\ ~codes[login[l].code].redeemed

\* Mutant: the subject of the tokens is not compared.
ExchangeForAnyone(l) ==
  /\ At(l, "exchange")
  /\ Honours(l)
  /\ codes' = [codes EXCEPT ![login[l].code].redeemed = TRUE]
  /\ \E pc \in {"done", "failed"} : Go(l, pc)
  /\ UNCHANGED <<result, visits, request, urls>>

\* exchangeAuthorizationCode: the tokens must be for the identity of the login.
Exchange(l) ==
  /\ At(l, "exchange")
  /\ Honours(l)
  /\ codes' = [codes EXCEPT ![login[l].code].redeemed = TRUE]
  /\ \E pc \in {"done", "failed"} :
       /\ pc = "done" => codes[login[l].code].subject = login[l].did
       /\ Go(l, pc)
  /\ UNCHANGED <<result, visits, request, urls>>

-----------------------------------------------------------------------------
(* The callback server.                                                    *)

Handling(n) == n \in 1..Len(visits) /\ Running(visits[n].to)

\* The browser gets its page first.
Answer(n) ==
  /\ Handling(n)
  /\ visits[n].at = "new"
  /\ visits' = [visits EXCEPT ![n].at = "answered"]
  /\ UNCHANGED <<login, result, request, codes, urls>>

\* The handler of a visit is over; what it found goes into the channel if there is room.
Deliver(n, room) ==
  /\ Handling(n)
  /\ visits[n].at = "answered"
  /\ visits' = [visits EXCEPT ![n].at = "ended"]
  /\ result' = [result EXCEPT ![visits[n].to] = IF room THEN Append(@, visits[n].url) ELSE @]
  /\ UNCHANGED <<login, request, codes, urls>>

\* Mutant: the channel has no buffer, so only a waiting login gets the callback.
SendUnbuffered(n) ==
  Deliver(n, Len(result[visits[n].to]) < Capacity /\ At(visits[n].to, "wait"))

\* Mutant: every callback is queued.
SendAlways(n) == Deliver(n, TRUE)

\* sendResult: what finds the channel full is dropped.
SendResult(n) == Deliver(n, Len(result[visits[n].to]) < Capacity)

-----------------------------------------------------------------------------
(* The authorization server, the user and the browser.                     *)

Redirect(l, code) ==
  /\ request[l] = "shown"
  /\ request' = [request EXCEPT ![l] = "answered"]
  /\ urls' = urls \cup {[port |-> login[l].port, state |-> l, code |-> code]}
  /\ UNCHANGED <<login, result, visits>>

\* The user signs in, with any account, and approves.
Approve(l, account) ==
  /\ Redirect(l, Len(codes) + 1)
  /\ codes' = Append(codes, [request |-> l, subject |-> account, redeemed |-> FALSE])

Deny(l) == Redirect(l, None) /\ UNCHANGED codes

\* The browser loads a URL, or loads it again.
Load(url, l) ==
  /\ url \in urls
  /\ Listening(l) /\ login[l].port = url.port
  /\ Len(visits) < MaxVisits
  /\ visits' = Append(visits, [to |-> l, url |-> url, at |-> "new"])
  /\ UNCHANGED <<login, result, request, codes, urls>>

-----------------------------------------------------------------------------
Work(l) ==
  \/ Push(l) \/ ChallengePush(l) \/ Confirm(l) \/ Receive(l)
  \/ Exchange(l) \/ ChallengeExchange(l)

Handle(n) == Answer(n) \/ SendResult(n)

Next ==
  \/ \E l \in Logins :
       \/ Begin(l) \/ Work(l) \/ Fail(l)
       \/ \E account \in Accounts : Approve(l, account)
       \/ Deny(l)
       \/ \E url \in urls : Load(url, l)
  \/ \E n \in 1..Len(visits) : Handle(n)

Spec == Init /\ [][Next]_vars

\* The process and its handlers run, requests are answered and the user presses
\* Enter, as asked to.  Nothing is assumed of what the user does in the browser.
FairSpec ==
  /\ Spec
  /\ \A l \in Logins : WF_vars(Work(l))
  /\ \A n \in 1..MaxVisits : WF_vars(Handle(n))

-----------------------------------------------------------------------------
(* Properties.                                                             *)

\* The code a login exchanges was issued for its own request: a page of another
\* login that the browser loads again, on a port that was taken over, can spoil a
\* login but not put its code into it (oauth_authorization.go:253-259).
CodesAreOwn ==
  \A l \in Logins : At(l, "exchange") \/ At(l, "done") =>
    /\ login[l].code \in 1..Len(codes)
    /\ codes[login[l].code].request = l

\* A login succeeds only with tokens of the identity it was started for, whatever
\* account the user signed in with, and no approval yields two sessions
\* (oauth_token.go:204-213).
SessionsAreOwn ==
  \A l \in Logins : At(l, "done") =>
    /\ codes[login[l].code].subject = login[l].did
    /\ codes[login[l].code].redeemed
    /\ \A k \in Logins \ {l} : At(k, "done") => login[k].code # login[l].code

\* A login whose callback the browser was given a page for comes to an end: the
\* callback is not lost, though it may come before the user presses Enter or while
\* another one is handled (oauth_callback.go:40, 146-153).
AnsweredLoginsEnd ==
  \A l \in Logins :
    (\E n \in 1..Len(visits) : visits[n].to = l /\ visits[n].at # "new") ~> Ended(l)

=============================================================================
