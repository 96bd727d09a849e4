--------------------------- MODULE OAuthLoginProofs ----------------------------
(***************************************************************************)
(* Theorems about OAuthLogin, for any number of logins, identities, ports  *)
(* and callbacks: no login exchanges a code that was issued for another,   *)
(* and none succeeds with the tokens of another identity.                  *)
(***************************************************************************)
EXTENDS OAuthLogin, SequenceTheorems, TLAPS

\* The redirects that carry a code name the request it was issued for.
Genuine ==
  \A u \in urls : u.code # None => u.code \in 1..Len(codes) /\ codes[u.code].request = u.state

\* Every callback is of a redirect that the browser was given.
Given ==
  /\ \A n \in 1..Len(visits) : visits[n].url \in urls
  /\ \A l \in Logins : \A i \in 1..Len(result[l]) : result[l][i] \in urls

IInv == TypeOK /\ Genuine /\ Given /\ CodesAreOwn /\ SessionsAreOwn

-----------------------------------------------------------------------------
(* What the steps have in common.                                          *)

\* A login that goes on stays a process.
LEMMA GoType ==
  ASSUME TypeOK, NEW l \in Logins, NEW pc \in Place, Go(l, pc)
  PROVE  login' \in [Logins -> Process]
<1>1. login[l] \in Process
  BY DEF TypeOK
<1>2. [login[l] EXCEPT !.pc = pc] \in Process
  BY <1>1 DEF Process
<1> QED
  BY <1>2 DEF TypeOK, Go, Become

\* What a login holds, other than its place, is not changed by going on.
LEMMA GoKeeps ==
  ASSUME TypeOK, NEW l \in Logins, NEW pc \in Place, Go(l, pc)
  PROVE  /\ login'[l].pc = pc
         /\ \A k \in Logins : login'[k].code = login[k].code /\ login'[k].did = login[k].did
         /\ \A k \in Logins \ {l} : login'[k] = login[k]
<1>1. login[l] \in Process /\ login \in [Logins -> Process]
  BY DEF TypeOK
<1>2. /\ [login[l] EXCEPT !.pc = pc].pc = pc
      /\ [login[l] EXCEPT !.pc = pc].code = login[l].code
      /\ [login[l] EXCEPT !.pc = pc].did = login[l].did
  BY <1>1 DEF Process
<1> QED
  BY <1>1, <1>2 DEF Go, Become

\* A sequence of one element has an empty tail.
LEMMA AtMostOne ==
  ASSUME NEW S, NEW s \in Seq(S), s # << >>, Len(s) <= 1
  PROVE  1..Len(Tail(s)) = {}
<1> DEFINE n == Len(s)
<1>1. n \in Nat /\ Len(Tail(s)) = n - 1
  BY HeadTailProperties, LenProperties
<1> HIDE DEF n
<1> QED
  BY <1>1 DEF n

\* The actions, one by one.
LEMMA NextCases ==
  ASSUME Next
  PROVE  \/ \E l \in Logins : Begin(l) \/ Fail(l) \/ Push(l) \/ ChallengePush(l) \/ Confirm(l)
                              \/ Receive(l) \/ Exchange(l) \/ ChallengeExchange(l)
         \/ \E l \in Logins, account \in Accounts : Approve(l, account)
         \/ \E l \in Logins : Deny(l)
         \/ \E l \in Logins, url \in urls : Load(url, l)
         \/ \E n \in 1..Len(visits) : Answer(n) \/ SendResult(n)
BY DEF Next, Work, Handle

\* A challenge ends the login or is remembered in its flag: its code stays.
LEMMA RetryKeeps ==
  ASSUME TypeOK, NEW l \in Logins, Retry(l)
  PROVE  /\ login' \in [Logins -> Process]
         /\ \A k \in Logins : login'[k].code = login[k].code /\ login'[k].did = login[k].did
         /\ \A k \in Logins : login'[k].pc \in {login[k].pc, "failed"}
<1>1. CASE login[l].retried
  <2>1. Go(l, "failed") /\ "failed" \in Place
    BY <1>1 DEF Retry, Place
  <2> QED
    BY <2>1, GoType, GoKeeps
<1>2. CASE ~login[l].retried
  <2>1. login' = [login EXCEPT ![l] = [login[l] EXCEPT !.retried = TRUE]]
    BY <1>2 DEF Retry, Become
  <2>2. login[l] \in Process /\ login \in [Logins -> Process]
    BY DEF TypeOK
  <2>3. /\ [login[l] EXCEPT !.retried = TRUE] \in Process
        /\ [login[l] EXCEPT !.retried = TRUE].code = login[l].code
        /\ [login[l] EXCEPT !.retried = TRUE].did = login[l].did
        /\ [login[l] EXCEPT !.retried = TRUE].pc = login[l].pc
    BY <2>2 DEF Process
  <2> QED
    BY <2>1, <2>2, <2>3
<1> QED
  BY <1>1, <1>2

\* A login that receives a callback holds its code if the state parameter is its own,
\* and has failed otherwise.
LEMMA ReceiveKeeps ==
  ASSUME TypeOK, NEW l \in Logins, Receive(l)
  PROVE  /\ login' \in [Logins -> Process]
         /\ \A k \in Logins \ {l} : login'[k] = login[k]
         /\ \/ login'[l].pc = "failed"
            \/ /\ login'[l].pc = "exchange"
               /\ login'[l].code = result[l][1].code
               /\ result[l][1].code # None /\ result[l][1].state = l
<1> DEFINE c == Head(result[l])
           q == [login[l] EXCEPT !.pc = "exchange", !.code = c.code, !.retried = FALSE]
<1>1. login[l] \in Process /\ login \in [Logins -> Process]
  BY DEF TypeOK
<1>2. result[l] \in Seq(Url) /\ result[l] # << >>
  BY DEF TypeOK, Receive
<1>3. c \in Url /\ c = result[l][1]
  BY <1>2
<1>4. c.code \in Nat
  BY <1>3 DEF Url
<1>5. CASE c.code # None /\ c.state = l
  <2>1. login' = [login EXCEPT ![l] = q]
    BY <1>5 DEF Receive, Accept, Become
  <2>2. q \in Process /\ q.pc = "exchange" /\ q.code = c.code
    BY <1>1, <1>4 DEF Process, Place
  <2> QED
    BY <1>1, <1>3, <1>5, <2>1, <2>2
<1>6. CASE ~(c.code # None /\ c.state = l)
  <2>1. Go(l, "failed") /\ "failed" \in Place
    BY <1>6 DEF Receive, Accept, Place
  <2> QED
    BY <2>1, GoType, GoKeeps
<1> QED
  BY <1>5, <1>6

Redeem(n) == codes' = [codes EXCEPT ![n].redeemed = TRUE]

\* Redeeming a code changes neither its request nor its subject.
LEMMA RedeemKeeps ==
  ASSUME TypeOK, NEW n \in 1..Len(codes), Redeem(n)
  PROVE  /\ codes' \in Seq(Code) /\ Len(codes') = Len(codes)
         /\ codes'[n].redeemed
         /\ \A i \in 1..Len(codes) : /\ codes'[i].request = codes[i].request
                                     /\ codes'[i].subject = codes[i].subject
                                     /\ codes[i].redeemed => codes'[i].redeemed
<1>1. codes \in Seq(Code)
  BY DEF TypeOK
<1>2. codes[n] \in Code
  BY <1>1
<1> DEFINE c == [codes[n] EXCEPT !.redeemed = TRUE]
<1>3. c \in Code /\ c.redeemed /\ c.request = codes[n].request /\ c.subject = codes[n].subject
  BY <1>2 DEF Code
<1>4. codes' = [codes EXCEPT ![n] = c]
  BY DEF Redeem
<1> HIDE DEF c
<1>5. codes' \in Seq(Code) /\ Len(codes') = Len(codes)
  <2>1. c \in Code
    BY <1>3
  <2> QED
    BY <1>1, <1>4, <2>1
<1>5a. codes'[n] = c
  BY <1>1, <1>4
<1>5b. \A i \in 1..Len(codes) : i = n \/ codes'[i] = codes[i]
  BY <1>1, <1>4
<1>6. \A i \in 1..Len(codes) : /\ codes'[i].request = codes[i].request
                              /\ codes'[i].subject = codes[i].subject
  BY <1>3, <1>5a, <1>5b
<1>7. \A i \in 1..Len(codes) : codes[i].redeemed => codes'[i].redeemed
  BY <1>3, <1>5a, <1>5b, Zenon
<1>8. codes'[n].redeemed
  BY <1>3, <1>5a, <1>5b, Zenon
<1> QED
  BY <1>5, <1>6, <1>7, <1>8

\* A redirect leads to the port of the login, with its state parameter.
LEMMA RedirectType ==
  ASSUME TypeOK, NEW l \in Logins, NEW code \in Nat, Redirect(l, code)
  PROVE  /\ request' \in [Logins -> {"none", "shown", "answered"}]
         /\ urls' = urls \cup {[port |-> login[l].port, state |-> l, code |-> code]}
         /\ urls' \subseteq Url
<1>1. login[l].port \in Ports
  BY DEF TypeOK, Process
<1>2. request' \in [Logins -> {"none", "shown", "answered"}]
  BY DEF TypeOK, Redirect
<1>3. urls' = urls \cup {[port |-> login[l].port, state |-> l, code |-> code]}
  BY DEF Redirect
<1>4. [port |-> login[l].port, state |-> l, code |-> code] \in Url
  BY <1>1 DEF Url
<1> QED
  BY <1>2, <1>3, <1>4 DEF TypeOK

\* The channel of a login has its old content, or one redirect more if it was empty.
LEMMA DeliverType ==
  ASSUME TypeOK, NEW n \in 1..Len(visits), SendResult(n)
  PROVE  /\ visits' \in Seq(Visit) /\ Len(visits') = Len(visits)
         /\ \A i \in 1..Len(visits) : visits'[i].url = visits[i].url
         /\ result' \in [Logins -> Seq(Url)]
         /\ \A l \in Logins : Len(result'[l]) <= Capacity
         /\ \A l \in Logins : \A i \in 1..Len(result'[l]) :
              result'[l][i] = visits[n].url \/ (i \in 1..Len(result[l]) /\ result'[l][i] = result[l][i])
<1> DEFINE v == visits[n]
           w == [v EXCEPT !.at = "ended"]
<1>1. visits \in Seq(Visit) /\ v \in Visit
  BY DEF TypeOK
<1>2. w \in Visit /\ w.url = v.url
  BY <1>1 DEF Visit
<1>3. visits' = [visits EXCEPT ![n] = w]
  BY DEF SendResult, Deliver
<1>4. v.url \in Url /\ v.to \in Logins
  BY <1>1 DEF Visit
<1>5. result' = [result EXCEPT ![v.to] = IF Len(result[v.to]) < Capacity
                                            THEN Append(result[v.to], v.url) ELSE result[v.to]]
  BY DEF SendResult, Deliver
<1> HIDE DEF v, w
<1>6. /\ visits' \in Seq(Visit) /\ Len(visits') = Len(visits)
      /\ \A i \in 1..Len(visits) : visits'[i].url = visits[i].url
  BY <1>1, <1>2, <1>3 DEF v
<1>7. result \in [Logins -> Seq(Url)] /\ \A l \in Logins : Len(result[l]) <= 1
  BY DEF TypeOK, Capacity
<1>8. CASE Len(result[v.to]) < Capacity
  <2>1. result' = [result EXCEPT ![v.to] = Append(result[v.to], v.url)]
    BY <1>5, <1>8
  <2>2. Append(result[v.to], v.url) \in Seq(Url) /\ Len(Append(result[v.to], v.url)) <= 1
    BY <1>4, <1>7, <1>8 DEF Capacity
  <2>3. \A i \in 1..Len(Append(result[v.to], v.url)) :
          \/ Append(result[v.to], v.url)[i] = v.url
          \/ i \in 1..Len(result[v.to]) /\ Append(result[v.to], v.url)[i] = result[v.to][i]
    BY <1>4, <1>7
  <2> QED
    BY <1>4, <1>6, <1>7, <2>1, <2>2, <2>3 DEF v, Capacity
<1>9. CASE ~(Len(result[v.to]) < Capacity)
  <2>1. result' = result
    BY <1>5, <1>7, <1>9
  <2> QED
    BY <1>6, <1>7, <2>1 DEF Capacity
<1> QED
  BY <1>8, <1>9

\* An answer is given in the handler; the redirect is the same.
LEMMA AnswerType ==
  ASSUME TypeOK, NEW n \in 1..Len(visits), Answer(n)
  PROVE  /\ visits' \in Seq(Visit) /\ Len(visits') = Len(visits)
         /\ \A i \in 1..Len(visits) : visits'[i].url = visits[i].url
<1> DEFINE w == [visits[n] EXCEPT !.at = "answered"]
<1>1. visits \in Seq(Visit) /\ visits[n] \in Visit
  BY DEF TypeOK
<1>2. w \in Visit /\ w.url = visits[n].url
  BY <1>1 DEF Visit
<1>3. visits' = [visits EXCEPT ![n] = w]
  BY DEF Answer
<1> HIDE DEF w
<1> QED
  BY <1>1, <1>2, <1>3
-----------------------------------------------------------------------------
(* Each part of the invariant is kept by every step.                       *)

\* A login that begins was idle; all else stays.
LEMMA TypeStep ==
  ASSUME TypeOK, Next
  PROVE  TypeOK'
<1> USE DEF Place
<1>1. ASSUME NEW l \in Logins, Begin(l) \/ Fail(l) \/ Confirm(l) PROVE TypeOK'
  <2>1. \E pc \in Place : Go(l, pc)
    BY <1>1 DEF Begin, Fail, Confirm
  <2>2. UNCHANGED <<result, visits, request, codes, urls>>
    BY <1>1 DEF Begin, Fail, Confirm
  <2> QED
    BY <2>1, <2>2, GoType DEF TypeOK
<1>2. ASSUME NEW l \in Logins, Push(l) PROVE TypeOK'
  <2>1. Go(l, "confirm") /\ UNCHANGED <<result, visits, codes, urls>>
        /\ request' = [request EXCEPT ![l] = "shown"]
    BY <1>2 DEF Push
  <2>2. login' \in [Logins -> Process]
    BY <2>1, GoType
  <2> QED
    BY <2>1, <2>2 DEF TypeOK
<1>3. ASSUME NEW l \in Logins, ChallengePush(l) \/ ChallengeExchange(l) PROVE TypeOK'
  <2>1. Retry(l) /\ UNCHANGED <<result, visits, request, codes, urls>>
    BY <1>3 DEF ChallengePush, ChallengeExchange, Retry
  <2> QED
    BY <2>1, RetryKeeps DEF TypeOK
<1>4. ASSUME NEW l \in Logins, Receive(l) PROVE TypeOK'
  <2>1. login' \in [Logins -> Process] /\ UNCHANGED <<visits, request, codes, urls>>
    BY <1>4, ReceiveKeeps DEF Receive
  <2>2. result' = [result EXCEPT ![l] = Tail(result[l])] /\ result[l] # << >>
    BY <1>4 DEF Receive
  <2>3. Tail(result[l]) \in Seq(Url) /\ Len(Tail(result[l])) <= Capacity
    BY <2>2 DEF TypeOK, Capacity
  <2> QED
    BY <2>1, <2>2, <2>3 DEF TypeOK
<1>5. ASSUME NEW l \in Logins, Exchange(l) PROVE TypeOK'
  <2>1. Redeem(login[l].code) /\ login[l].code \in 1..Len(codes)
    BY <1>5 DEF Exchange, Honours, Redeem
  <2>2. codes' \in Seq(Code)
    BY <2>1, RedeemKeeps
  <2>3. \E pc \in Place : Go(l, pc)
    BY <1>5 DEF Exchange
  <2>4. login' \in [Logins -> Process]
    BY <2>3, GoType
  <2> QED
    BY <1>5, <2>2, <2>4 DEF Exchange, TypeOK
<1>6. ASSUME NEW l \in Logins, NEW account \in Accounts, Approve(l, account) PROVE TypeOK'
  <2>1. Redirect(l, Len(codes) + 1) /\ Len(codes) + 1 \in Nat
    BY <1>6 DEF Approve, TypeOK
  <2>2. request' \in [Logins -> {"none", "shown", "answered"}] /\ urls' \subseteq Url
    BY <2>1, RedirectType
  <2>3. [request |-> l, subject |-> account, redeemed |-> FALSE] \in Code
    BY DEF Code
  <2>4. codes' \in Seq(Code)
    BY <1>6, <2>3 DEF Approve, TypeOK
  <2> QED
    BY <2>1, <2>2, <2>4 DEF Redirect, TypeOK
<1>7. ASSUME NEW l \in Logins, Deny(l) PROVE TypeOK'
  <2>1. Redirect(l, None) /\ None \in Nat
    BY <1>7 DEF Deny, None
  <2>2. request' \in [Logins -> {"none", "shown", "answered"}] /\ urls' \subseteq Url
    BY <2>1, RedirectType
  <2> QED
    BY <1>7, <2>1, <2>2 DEF Deny, Redirect, TypeOK
<1>8. ASSUME NEW l \in Logins, NEW url \in urls, Load(url, l) PROVE TypeOK'
  <2>1. [to |-> l, url |-> url, at |-> "new"] \in Visit
    BY DEF TypeOK, Visit
  <2>2. visits' \in Seq(Visit)
    BY <1>8, <2>1 DEF Load, TypeOK
  <2> QED
    BY <1>8, <2>2 DEF Load, TypeOK
<1>9. ASSUME NEW n \in 1..Len(visits), Answer(n) PROVE TypeOK'
  <2>1. visits' \in Seq(Visit)
    BY <1>9, AnswerType
  <2> QED
    BY <1>9, <2>1 DEF Answer, TypeOK
<1>10. ASSUME NEW n \in 1..Len(visits), SendResult(n) PROVE TypeOK'
  <2>1. visits' \in Seq(Visit) /\ result' \in [Logins -> Seq(Url)]
        /\ \A l \in Logins : Len(result'[l]) <= Capacity
    BY <1>10, DeliverType
  <2>2. UNCHANGED <<login, request, codes, urls>>
    BY <1>10 DEF SendResult, Deliver
  <2> QED
    BY <2>1, <2>2 DEF TypeOK, Capacity
<1> QED
  BY <1>1, <1>2, <1>3, <1>4, <1>5, <1>6, <1>7, <1>8, <1>9, <1>10, NextCases

\* The codes and the redirects only grow; a code keeps its request.
LEMMA GenuineStep ==
  ASSUME TypeOK, Genuine, Next
  PROVE  Genuine'
<1>1. CASE UNCHANGED <<codes, urls>>
  BY <1>1 DEF Genuine
<1>2. ASSUME NEW l \in Logins, Exchange(l) PROVE Genuine'
  <2>1. Redeem(login[l].code) /\ login[l].code \in 1..Len(codes)
    BY <1>2 DEF Exchange, Honours, Redeem
  <2>2. Len(codes') = Len(codes) /\ \A i \in 1..Len(codes) : codes'[i].request = codes[i].request
    BY <2>1, RedeemKeeps
  <2>3. urls' = urls
    BY <1>2 DEF Exchange
  <2> QED
    BY <2>2, <2>3 DEF Genuine
<1>3. ASSUME NEW l \in Logins, NEW account \in Accounts, Approve(l, account) PROVE Genuine'
  <2> DEFINE n == Len(codes) + 1
             c == [request |-> l, subject |-> account, redeemed |-> FALSE]
             r == [port |-> login[l].port, state |-> l, code |-> n]
  <2>1. Len(codes) \in Nat /\ codes \in Seq(Code) /\ c \in Code
    BY DEF TypeOK, Code
  <2>2. codes' = Append(codes, c) /\ urls' = urls \cup {r}
    BY <1>3 DEF Approve, Redirect
  <2>3. c.request = l /\ r.state = l /\ r.code = n
    OBVIOUS
  <2> HIDE DEF c, r
  <2>4. Len(codes') = n /\ codes'[n] = c /\ \A i \in 1..Len(codes) : codes'[i] = codes[i]
    BY <2>1, <2>2
  <2>5. \A u \in urls : u.code # None =>
          u.code \in 1..Len(codes') /\ codes'[u.code].request = u.state
    BY <2>1, <2>4 DEF Genuine
  <2>6. r.code \in 1..Len(codes') /\ codes'[r.code].request = r.state
    BY <2>1, <2>3, <2>4
  <2> QED
    BY <2>2, <2>5, <2>6 DEF Genuine
<1>4. ASSUME NEW l \in Logins, Deny(l) PROVE Genuine'
  <2>1. codes' = codes /\ urls' = urls \cup {[port |-> login[l].port, state |-> l, code |-> None]}
    BY <1>4 DEF Deny, Redirect
  <2> QED
    BY <2>1 DEF Genuine
<1> QED
  BY <1>1, <1>2, <1>3, <1>4, NextCases
     DEF Begin, Fail, Push, ChallengePush, Retry, Confirm, Receive, ChallengeExchange, Load, Answer,
         SendResult, Deliver

\* The redirects only grow; a callback comes from the browser and goes into its channel.
LEMMA GivenStep ==
  ASSUME TypeOK, Given, Next
  PROVE  Given'
<1>1. urls \subseteq urls'
  BY NextCases
     DEF Begin, Fail, Push, ChallengePush, Retry, Confirm, Receive, Exchange, ChallengeExchange,
         Approve, Deny, Redirect, Load, Answer, SendResult, Deliver
<1>2. CASE UNCHANGED <<visits, result>>
  BY <1>1, <1>2 DEF Given
<1>3. ASSUME NEW l \in Logins, Receive(l) PROVE Given'
  <2>1. result' = [result EXCEPT ![l] = Tail(result[l])] /\ result[l] # << >> /\ visits' = visits
    BY <1>3 DEF Receive
  <2>2. result \in [Logins -> Seq(Url)] /\ Len(result[l]) <= 1
    BY DEF TypeOK, Capacity
  <2>3. 1..Len(Tail(result[l])) = {}
    BY <2>1, <2>2, AtMostOne
  <2> QED
    BY <1>1, <2>1, <2>2, <2>3 DEF Given
<1>4. ASSUME NEW l \in Logins, NEW url \in urls, Load(url, l) PROVE Given'
  <2> DEFINE v == [to |-> l, url |-> url, at |-> "new"]
  <2>1. visits' = Append(visits, v) /\ UNCHANGED <<result, urls>> /\ v.url = url
    BY <1>4 DEF Load
  <2>2. visits \in Seq(Visit) /\ v \in Visit
    BY DEF TypeOK, Visit
  <2> HIDE DEF v
  <2>3. \A n \in 1..Len(visits') : visits'[n] = v \/ (n \in 1..Len(visits) /\ visits'[n] = visits[n])
    BY <2>1, <2>2
  <2> QED
    BY <2>1, <2>3 DEF Given
<1>5. ASSUME NEW n \in 1..Len(visits), Answer(n) PROVE Given'
  <2>1. Len(visits') = Len(visits) /\ \A i \in 1..Len(visits) : visits'[i].url = visits[i].url
    BY <1>5, AnswerType
  <2>2. UNCHANGED <<result, urls>>
    BY <1>5 DEF Answer
  <2> QED
    BY <2>1, <2>2 DEF Given
<1>6. ASSUME NEW n \in 1..Len(visits), SendResult(n) PROVE Given'
  <2>1. /\ Len(visits') = Len(visits)
        /\ \A i \in 1..Len(visits) : visits'[i].url = visits[i].url
        /\ \A l \in Logins : \A i \in 1..Len(result'[l]) :
             result'[l][i] = visits[n].url \/ (i \in 1..Len(result[l]) /\ result'[l][i] = result[l][i])
    BY <1>6, DeliverType
  <2> QED
    BY <1>1, <2>1 DEF Given
<1> QED
  BY <1>2, <1>3, <1>4, <1>5, <1>6, NextCases
     DEF Begin, Fail, Push, ChallengePush, Retry, Confirm, Exchange, ChallengeExchange,
         Approve, Deny, Redirect

\* A code enters a login through Receive, which compares the state parameter, and
\* the redirect that was received is a genuine one.
LEMMA CodesStep ==
  ASSUME TypeOK, Genuine, Given, CodesAreOwn, Next
  PROVE  CodesAreOwn'
<1> USE DEF Place
<1>1. \A i \in 1..Len(codes) : i \in 1..Len(codes') /\ codes'[i].request = codes[i].request
  <2>1. CASE UNCHANGED codes
    BY <2>1
  <2>2. ASSUME NEW l \in Logins, Exchange(l)
        PROVE  \A i \in 1..Len(codes) : i \in 1..Len(codes') /\ codes'[i].request = codes[i].request
    <3>1. Redeem(login[l].code) /\ login[l].code \in 1..Len(codes)
      BY <2>2 DEF Exchange, Honours, Redeem
    <3> QED
      BY <3>1, RedeemKeeps
  <2>3. ASSUME NEW l \in Logins, NEW account \in Accounts, Approve(l, account)
        PROVE  \A i \in 1..Len(codes) : i \in 1..Len(codes') /\ codes'[i].request = codes[i].request
    <3> DEFINE c == [request |-> l, subject |-> account, redeemed |-> FALSE]
    <3>1. codes \in Seq(Code) /\ c \in Code /\ codes' = Append(codes, c)
      BY <2>3 DEF TypeOK, Code, Approve
    <3> HIDE DEF c
    <3> QED
      BY <3>1
  <2> QED
    BY <2>1, <2>2, <2>3, NextCases
       DEF Begin, Fail, Push, ChallengePush, Retry, Confirm, Receive, ChallengeExchange, Deny,
           Redirect, Load, Answer, SendResult, Deliver
\* It is enough that a login which now holds a code held it before, or received it.
<1>2. SUFFICES \A l \in Logins : At(l, "exchange")' \/ At(l, "done")' =>
        \/ (At(l, "exchange") \/ At(l, "done")) /\ login'[l].code = login[l].code
        \/ login'[l].code \in 1..Len(codes) /\ codes[login'[l].code].request = l
  BY <1>1, <1>2 DEF CodesAreOwn
<1> DEFINE Held(l) ==
      At(l, "exchange")' \/ At(l, "done")' =>
        \/ (At(l, "exchange") \/ At(l, "done")) /\ login'[l].code = login[l].code
        \/ login'[l].code \in 1..Len(codes) /\ codes[login'[l].code].request = l
<1>3. CASE UNCHANGED login
  BY <1>3 DEF At
<1>4. ASSUME NEW l \in Logins, Begin(l) \/ Fail(l) \/ Push(l) \/ Confirm(l)
      PROVE  \A k \in Logins : Held(k)
  <2>1. \E pc \in {"push", "failed", "confirm", "wait"} : Go(l, pc)
    BY <1>4 DEF Begin, Fail, Push, Confirm
  <2>2. login'[l].pc \in {"push", "failed", "confirm", "wait"}
        /\ \A k \in Logins \ {l} : login'[k] = login[k]
    BY <2>1, GoKeeps
  <2> QED
    BY <2>2 DEF At
<1>5. ASSUME NEW l \in Logins, Exchange(l) PROVE \A k \in Logins : Held(k)
  <2>1. \E pc \in {"done", "failed"} : Go(l, pc)
    BY <1>5 DEF Exchange
  <2>2. /\ \A k \in Logins : login'[k].code = login[k].code
        /\ \A k \in Logins \ {l} : login'[k] = login[k]
    BY <2>1, GoKeeps
  <2>3. At(l, "exchange")
    BY <1>5 DEF Exchange
  <2> QED
    BY <2>2, <2>3 DEF At
<1>6. ASSUME NEW l \in Logins, ChallengePush(l) \/ ChallengeExchange(l)
      PROVE  \A k \in Logins : Held(k)
  <2>1. Retry(l)
    BY <1>6 DEF ChallengePush, ChallengeExchange
  <2> QED
    BY <2>1, RetryKeeps DEF At
<1>7. ASSUME NEW l \in Logins, Receive(l) PROVE \A k \in Logins : Held(k)
  <2>1. result[l][1] \in urls
    <3>1. result[l] \in Seq(Url) /\ result[l] # << >>
      BY <1>7 DEF TypeOK, Receive
    <3>2. Len(result[l]) # 0
      BY <3>1, EmptySeq
    <3>3. 1 \in 1..Len(result[l])
      BY <3>1, <3>2
    <3> QED
      BY <3>3 DEF Given
  <2>2. result[l][1].code # None /\ result[l][1].state = l =>
          result[l][1].code \in 1..Len(codes) /\ codes[result[l][1].code].request = l
    BY <2>1 DEF Genuine
  <2> QED
    BY <1>7, <2>2, ReceiveKeeps DEF At
<1> QED
  BY <1>3, <1>4, <1>5, <1>6, <1>7, NextCases
     DEF Approve, Deny, Redirect, Load, Answer, SendResult, Deliver

\* A login succeeds in Exchange only, with a code for its identity that it redeems;
\* two logins never hold one code, as the code names its request.
LEMMA SessionsStep ==
  ASSUME TypeOK, CodesAreOwn, CodesAreOwn', SessionsAreOwn, Next
  PROVE  SessionsAreOwn'
<1> USE DEF Place
<1> DEFINE Good(l) == codes[login[l].code].subject = login[l].did /\ codes[login[l].code].redeemed
<1>1. SUFFICES \A l \in Logins : At(l, "done")' => Good(l)'
  BY <1>1 DEF SessionsAreOwn, CodesAreOwn
<1>2. \A l \in Logins : At(l, "done") => Good(l) /\ login[l].code \in 1..Len(codes)
  BY DEF SessionsAreOwn, CodesAreOwn
<1>3. ASSUME UNCHANGED codes,
             \A l \in Logins : At(l, "done")' =>
               At(l, "done") /\ login'[l].code = login[l].code /\ login'[l].did = login[l].did
      PROVE  \A l \in Logins : At(l, "done")' => Good(l)'
  BY <1>2, <1>3
<1>4. ASSUME NEW l \in Logins,
             Begin(l) \/ Fail(l) \/ Push(l) \/ Confirm(l)
      PROVE  \A k \in Logins : At(k, "done")' => Good(k)'
  <2>1. \E pc \in {"push", "failed", "confirm", "wait"} : Go(l, pc)
    BY <1>4 DEF Begin, Fail, Push, Confirm
  <2>2. login'[l].pc \in {"push", "failed", "confirm", "wait"}
        /\ \A k \in Logins \ {l} : login'[k] = login[k]
    BY <2>1, GoKeeps
  <2>3. UNCHANGED codes
    BY <1>4 DEF Begin, Fail, Push, Confirm
  <2> QED
    BY <1>3, <2>2, <2>3 DEF At
<1>5. ASSUME NEW l \in Logins, ChallengePush(l) \/ ChallengeExchange(l)
      PROVE  \A k \in Logins : At(k, "done")' => Good(k)'
  <2>1. Retry(l) /\ UNCHANGED codes
    BY <1>5 DEF ChallengePush, ChallengeExchange, Retry
  <2> QED
    BY <1>3, <2>1, RetryKeeps DEF At
<1>6. ASSUME NEW l \in Logins, Receive(l)
      PROVE  \A k \in Logins : At(k, "done")' => Good(k)'
  <2>1. UNCHANGED codes
    BY <1>6 DEF Receive
  <2> QED
    BY <1>3, <1>6, <2>1, ReceiveKeeps DEF At
<1>7. ASSUME NEW l \in Logins, Exchange(l)
      PROVE  \A k \in Logins : At(k, "done")' => Good(k)'
  <2> DEFINE n == login[l].code
  <2>1. Redeem(n) /\ n \in 1..Len(codes)
    BY <1>7 DEF Exchange, Honours, Redeem
  <2>2. PICK pc \in {"done", "failed"} : Go(l, pc) /\ (pc = "done" => codes[n].subject = login[l].did)
    BY <1>7 DEF Exchange
  <2>3. /\ login'[l].pc = pc
        /\ \A k \in Logins : login'[k].code = login[k].code /\ login'[k].did = login[k].did
        /\ \A k \in Logins \ {l} : login'[k] = login[k]
    BY <2>2, GoKeeps
  <2>4. /\ codes'[n].redeemed
        /\ \A i \in 1..Len(codes) : codes'[i].subject = codes[i].subject
    BY <2>1, RedeemKeeps
  <2>5. \A i \in 1..Len(codes) : codes[i].redeemed => codes'[i].redeemed
    BY <2>1, RedeemKeeps
  <2> HIDE DEF n
  <2>6. At(l, "done")' => codes'[n].subject = login'[l].did
    BY <2>1, <2>2, <2>3, <2>4 DEF At
  <2>7. login'[l].code = n
    BY <2>3 DEF n
  <2>8. At(l, "done")' => Good(l)'
    BY <2>4, <2>6, <2>7, Zenon
  <2>9. ASSUME NEW k \in Logins \ {l}, At(k, "done")' PROVE Good(k)'
    <3>1. login'[k] = login[k] /\ At(k, "done")
      BY <2>3, <2>9 DEF At
    <3>2. Good(k) /\ login[k].code \in 1..Len(codes)
      BY <1>2, <3>1
    <3>3. codes'[login[k].code].subject = login[k].did
      BY <2>4, <3>2
    <3>4. codes'[login[k].code].redeemed
      BY <2>5, <3>2, Zenon
    <3> QED
      BY <3>1, <3>3, <3>4, Zenon
  <2> QED
    BY <2>8, <2>9
<1>8. ASSUME NEW l \in Logins, NEW account \in Accounts, Approve(l, account)
      PROVE  \A k \in Logins : At(k, "done")' => Good(k)'
  <2> DEFINE c == [request |-> l, subject |-> account, redeemed |-> FALSE]
  <2>1. codes \in Seq(Code) /\ c \in Code /\ codes' = Append(codes, c) /\ login' = login
    BY <1>8 DEF TypeOK, Code, Approve, Redirect
  <2> HIDE DEF c
  <2>2. \A i \in 1..Len(codes) : codes'[i] = codes[i]
    BY <2>1
  <2>3. ASSUME NEW k \in Logins, At(k, "done")' PROVE Good(k)'
    <3>1. Good(k) /\ login[k].code \in 1..Len(codes)
      BY <1>2, <2>1, <2>3 DEF At
    <3>2. codes'[login'[k].code] = codes[login[k].code] /\ login'[k] = login[k]
      BY <2>1, <2>2, <3>1
    <3> QED
      BY <3>1, <3>2, Zenon
  <2> QED
    BY <2>3
<1>9. CASE UNCHANGED <<login, codes>>
  BY <1>3, <1>9 DEF At
<1> QED
  BY <1>4, <1>5, <1>6, <1>7, <1>8, <1>9, NextCases
     DEF Deny, Redirect, Load, Answer, SendResult, Deliver

-----------------------------------------------------------------------------
(* Theorems.                                                               *)

\* The invariant holds at first, when nothing was issued or given.
LEMMA InitInv == Init => IInv
<1> SUFFICES ASSUME Init PROVE IInv
  OBVIOUS
<1>1. PICK did \in [Logins -> Accounts], port \in [Logins -> Ports] :
        login = [l \in Logins |-> [pc |-> "idle", did |-> did[l], port |-> port[l],
                                  code |-> None, retried |-> FALSE]]
  BY DEF Init
<1>2. login \in [Logins -> Process] /\ \A l \in Logins : login[l].pc = "idle"
  <2>1. \A l \in Logins : [pc |-> "idle", did |-> did[l], port |-> port[l],
                           code |-> None, retried |-> FALSE] \in Process
    BY DEF Process, Place, None
  <2>2. \A l \in Logins : login[l] = [pc |-> "idle", did |-> did[l], port |-> port[l],
                                      code |-> None, retried |-> FALSE]
    BY <1>1
  <2> QED
    BY <1>1, <2>1, <2>2
<1>3. /\ result = [l \in Logins |-> << >>] /\ visits = << >> /\ codes = << >> /\ urls = {}
      /\ request = [l \in Logins |-> "none"]
  BY DEF Init
<1>4. TypeOK
  BY <1>2, <1>3, EmptySeq DEF TypeOK, Capacity
<1>5. Genuine /\ Given
  BY <1>3, EmptySeq DEF Genuine, Given
<1>6. CodesAreOwn /\ SessionsAreOwn
  BY <1>2 DEF CodesAreOwn, SessionsAreOwn, At
<1> QED
  BY <1>4, <1>5, <1>6 DEF IInv

\* Every step keeps the invariant.
LEMMA NextInv == IInv /\ [Next]_vars => IInv'
<1> SUFFICES ASSUME IInv, [Next]_vars PROVE IInv'
  OBVIOUS
<1>1. CASE Next
  <2>1. TypeOK' /\ Genuine' /\ Given'
    BY <1>1, TypeStep, GenuineStep, GivenStep DEF IInv
  <2>2. CodesAreOwn'
    BY <1>1, CodesStep DEF IInv
  <2>3. SessionsAreOwn'
    BY <1>1, <2>2, SessionsStep DEF IInv
  <2> QED
    BY <2>1, <2>2, <2>3 DEF IInv
<1>2. CASE UNCHANGED vars
  BY <1>2 DEF vars, IInv, TypeOK, Genuine, Given, CodesAreOwn, SessionsAreOwn, At
<1> QED
  BY <1>1, <1>2

\* The invariant holds in every reachable state.
LEMMA Invariance == Spec => []IInv
  BY InitInv, NextInv, PTL DEF Spec

\* The variables have their types; in particular the channel holds one callback at most.
THEOREM TypeCorrect == Spec => []TypeOK
<1>1. IInv => TypeOK
  BY DEF IInv
<1> QED
  BY <1>1, Invariance, PTL

\* Whatever pages the browser loads again, and whichever login has taken over the port,
\* the code that a login exchanges was issued for its own request.
THEOREM CodesAlwaysOwn == Spec => []CodesAreOwn
<1>1. IInv => CodesAreOwn
  BY DEF IInv
<1> QED
  BY <1>1, Invariance, PTL

\* A login that succeeds has tokens for the identity it was started for, and no
\* approval serves two logins.
THEOREM SessionsAlwaysOwn == Spec => []SessionsAreOwn
<1>1. IInv => SessionsAreOwn
  BY DEF IInv
<1> QED
  BY <1>1, Invariance, PTL

=============================================================================
