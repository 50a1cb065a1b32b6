-------------------------- MODULE AuthClientProofs --------------------------
(***************************************************************************)
(* Connections and verdicts of the calls to the Auth service, for any      *)
(* number of calls, round-trippers and answers.                            *)
(***************************************************************************)
EXTENDS AuthClient, TLAPS

\* Every step of a call, an option or the service keeps the types.
LEMMA TypeStep == TypeOK /\ [Next]_vars => TypeOK'
<1> SUFFICES ASSUME TypeOK, [Next]_vars PROVE TypeOK'
  OBVIOUS
<1> USE AuthClientAssumption
<1>1. CASE UNCHANGED vars
  BY <1>1 DEF TypeOK, vars
<1>2. CASE Next
  <2>0. PICK c \in Calls : Call(c)
    BY <1>2 DEF Next
  <2>1. CASE Configure(c)
    BY <2>1 DEF Configure, Goto, TypeOK, AnyTransport, Answers, NoAnswer
  <2>2. CASE AssignTransport(c)
    BY <2>2 DEF AssignTransport, Goto, TypeOK, AnyTransport, Answers, NoAnswer
  <2>3. CASE Send(c)
    BY <2>3 DEF Send, Goto, Overwriting, TypeOK, AnyTransport, Answers, NoAnswer
  <2>4. CASE SendTorn(c)
    BY <2>4 DEF SendTorn, Goto, TypeOK, AnyTransport, Answers, NoAnswer
  <2>5. CASE RequestFails(c)
    BY <2>5 DEF RequestFails, Goto, Return, TypeOK, AnyTransport, Answers, NoAnswer
  <2>6. CASE Receive(c)
    BY <2>6 DEF Receive, Goto, Answers, TypeOK, AnyTransport, NoAnswer
  <2>7. CASE ReadKeys(c)
    BY <2>7 DEF ReadKeys, Goto, FetchedKeys, Drained, TypeOK, AnyTransport, Answers, NoAnswer
  <2>8. CASE ReadToken(c)
    BY <2>8 DEF ReadToken, Goto, ReceivedToken, Decoded, TypeOK, AnyTransport, Answers, NoAnswer
  <2>9. CASE ScopeCheckFails(c)
    BY <2>9 DEF ScopeCheckFails, Goto, Return, TypeOK, AnyTransport, Answers, NoAnswer
  <2>10. CASE ReadScopes(c)
    BY <2>10 DEF ReadScopes, Goto, FoundScope, Decoded, TypeOK, AnyTransport, Answers, NoAnswer
  <2>11. CASE CloseResponse(c)
    BY <2>11 DEF CloseResponse, Goto, Unwound, Drained, TypeOK, AnyTransport, Answers, NoAnswer
  <2>12. CASE CloseBody(c)
    BY <2>12 DEF CloseBody, Goto, Unwound, TypeOK, AnyTransport, Answers, NoAnswer
  <2>. QED
    BY <2>0, <2>1, <2>2, <2>3, <2>4, <2>5, <2>6, <2>7, <2>8, <2>9, <2>10, <2>11, <2>12 DEF Call, FetchKeys, ServiceAccountToken, RequireScope, Do
<1>. QED
  BY <1>1, <1>2

\* What VerdictsComeFromAuth says of a result r and a body b of call c.
Verdict(c, r, b) ==
    /\ r = "granted" =>
          /\ answer[c].status = "ok" \/ (answer[c].status = "other" /\ Kind[c] = "token")
          /\ answer[c].payload = "granted" \/ (answer[c].payload = "damaged" /\ Kind[c] = "scope")
    /\ r = "empty" =>
          answer[c].status = "ok" /\ answer[c].payload = "withheld" /\ b = "drained"
    /\ r = "refused" =>
          answer[c].status = "ok" /\ (answer[c].payload \in {"withheld", "garbage"} \/ b = "broken")
    /\ r = "error" =>
          answer[c].status # "ok" \/ answer[c].payload # "granted" \/ b = "broken"
    /\ r = "panic" => answer[c].payload = "null"

\* Every step keeps what ClientInv says of a call's response and result.
LEMMA ClientStep == ClientInv /\ [Next]_vars => ClientInv'
<1> SUFFICES ASSUME ClientInv, [Next]_vars PROVE ClientInv'
  OBVIOUS
<1>0. TypeOK /\ TypeOK'
  BY TypeStep DEF ClientInv
<1> USE AuthClientAssumption
<1>1. CASE UNCHANGED vars
  BY <1>0, <1>1 DEF ClientInv, OnlyFailedChecksHoldConnections, VerdictsComeFromAuth, vars, Ended, HoldsConnection
<1>2. CASE Next
  <2>0. PICK c \in Calls : Call(c)
    BY <1>2 DEF Next
  <2>1. CASE Configure(c)
    BY <1>0, <2>1 DEF Configure, Goto, ClientInv, OnlyFailedChecksHoldConnections, VerdictsComeFromAuth, TypeOK, Ended, HoldsConnection
  <2>2. CASE AssignTransport(c)
    BY <1>0, <2>2 DEF AssignTransport, Goto, ClientInv, OnlyFailedChecksHoldConnections, VerdictsComeFromAuth, TypeOK, Ended, HoldsConnection
  <2>3. CASE Send(c)
    BY <1>0, <2>3 DEF Send, Goto, Overwriting, ClientInv, OnlyFailedChecksHoldConnections, VerdictsComeFromAuth, TypeOK, Ended, HoldsConnection
  <2>4. CASE SendTorn(c)
    BY <1>0, <2>4 DEF SendTorn, Goto, ClientInv, OnlyFailedChecksHoldConnections, VerdictsComeFromAuth, TypeOK, Ended, HoldsConnection
  <2>5. CASE RequestFails(c)
    BY <1>0, <2>5 DEF RequestFails, NoAnswer, Goto, Return, ClientInv, OnlyFailedChecksHoldConnections, VerdictsComeFromAuth, TypeOK, Ended, HoldsConnection
  <2>6. CASE Receive(c)
    BY <1>0, <2>6 DEF Receive, Goto, Answers, NoAnswer, ClientInv, OnlyFailedChecksHoldConnections, VerdictsComeFromAuth, TypeOK, Ended, HoldsConnection
  <2>a. /\ answer[c].status \in {"ok", "other", "error", "none"}
        /\ answer[c].payload \in {"granted", "withheld", "damaged", "null", "garbage"}
        /\ answer[c].body \in {"none", "whole", "cut"}
    <3>1. answer[c] \in Answers \cup {NoAnswer}
      BY <1>0 DEF TypeOK
    <3>. QED
      BY <3>1 DEF Answers, NoAnswer
  <2>b. ASSUME NEW b, NEW r, pc[c] = "read", pc' = [pc EXCEPT ![c] = "close"],
               body' = [body EXCEPT ![c] = b], result' = [result EXCEPT ![c] = r],
               UNCHANGED <<answer, closed>>,
               b = "broken" => answer[c].body = "cut",
               b = "drained" => answer[c].body # "cut",
               Kind[c] = "scope" => answer[c].status = "ok",
               Verdict(c, r, b)
        PROVE  ClientInv'
    <3>1. /\ pc'[c] = "close" /\ body'[c] = b /\ result'[c] = r
          /\ answer' = answer /\ closed' = closed
      BY <1>0, <2>b DEF TypeOK
    <3>2. \A d \in Calls \ {c} : pc'[d] = pc[d] /\ body'[d] = body[d] /\ result'[d] = result[d]
      BY <1>0, <2>b DEF TypeOK
    <3>3. VerdictsComeFromAuth'
      BY <2>b, <3>1, <3>2 DEF Verdict, ClientInv, VerdictsComeFromAuth
    <3>4. OnlyFailedChecksHoldConnections'
      BY <3>1, <3>2 DEF ClientInv, OnlyFailedChecksHoldConnections, Ended, HoldsConnection
    <3>. QED
      BY <1>0, <2>b, <3>1, <3>2, <3>3, <3>4 DEF ClientInv
  <2>s. pc[c] = "read" => answer[c].status # "none"
    <3>1. pc[c] = "read" => answer[c] \in Answers
      BY <1>0 DEF ClientInv, TypeOK
    <3>. QED
      BY <3>1 DEF Answers
  <2>7. CASE ReadKeys(c)
    <3>1. Verdict(c, FetchedKeys(c), Drained(c))
      <4>1. /\ FetchedKeys(c) \in {"error", "granted", "empty"}
            /\ FetchedKeys(c) \in {"granted", "empty"} => answer[c].status = "ok" /\ Drained(c) = "drained"
            /\ FetchedKeys(c) = "granted" => answer[c].payload = "granted"
            /\ FetchedKeys(c) = "empty" => answer[c].payload = "withheld"
            /\ FetchedKeys(c) = "error" => \/ answer[c].status # "ok" \/ answer[c].payload # "granted"
                                           \/ Drained(c) = "broken"
        BY <2>a DEF FetchedKeys, Drained
      <4>. QED
        BY <2>a, <4>1 DEF Verdict
    <3>2. Drained(c) = "broken" => answer[c].body = "cut"
      BY DEF Drained
    <3>3. Drained(c) = "drained" => answer[c].body # "cut"
      BY DEF Drained
    <3>. QED
      BY <2>7, <2>b, <3>1, <3>2, <3>3 DEF ReadKeys, Goto
  <2>8. CASE ReadToken(c)
    <3>1. PICK d \in Decoded(c) : /\ body' = [body EXCEPT ![c] = d[1]]
                                  /\ result' = [result EXCEPT ![c] = ReceivedToken(c, d[2])]
      BY <2>8 DEF ReadToken
    <3>2. /\ d[1] = "broken" => answer[c].body = "cut" /\ d[2] = "garbage"
          /\ d[1] # "broken" => d[2] = answer[c].payload
          /\ d[1] = "drained" => answer[c].body # "cut"
      BY <3>1 DEF Decoded
    <3>3. Verdict(c, ReceivedToken(c, d[2]), d[1])
      <4>1. Kind[c] = "token"
        BY <2>8 DEF ReadToken
      <4>2. /\ ReceivedToken(c, d[2]) \in {"error", "granted", "panic"}
            /\ ReceivedToken(c, d[2]) = "granted" => answer[c].status # "error" /\ d[2] = "granted"
            /\ ReceivedToken(c, d[2]) = "error" => answer[c].status = "error" \/ d[2] # "granted"
            /\ ReceivedToken(c, d[2]) = "panic" => d[2] = "null"
        <5>1. CASE answer[c].status = "error"
          BY <5>1 DEF ReceivedToken
        <5>2. CASE answer[c].status # "error"
          BY <5>2 DEF ReceivedToken
        <5>. QED
          BY <5>1, <5>2
      <4>3. ReceivedToken(c, d[2]) = "granted" => answer[c].status \in {"ok", "other"}
        BY <2>8, <2>a, <2>s, <4>2 DEF ReadToken, Goto
      <4>. QED
        BY <3>2, <4>1, <4>2, <4>3 DEF Verdict
    <3>. QED
      BY <2>8, <2>b, <3>1, <3>2, <3>3 DEF ReadToken, Goto
  <2>9. CASE ScopeCheckFails(c)
    BY <1>0, <2>9 DEF ScopeCheckFails, Goto, Return, ClientInv, OnlyFailedChecksHoldConnections, VerdictsComeFromAuth, TypeOK, Ended, HoldsConnection
  <2>10. CASE ReadScopes(c)
    <3>1. PICK d \in Decoded(c) : /\ body' = [body EXCEPT ![c] = d[1]]
                                  /\ result' = [result EXCEPT ![c] = FoundScope(d[2])]
      BY <2>10 DEF ReadScopes
    <3>2. /\ d[1] = "broken" => answer[c].body = "cut" /\ d[2] = "garbage"
          /\ d[1] # "broken" => d[2] = answer[c].payload
          /\ d[1] = "drained" => answer[c].body # "cut"
      BY <3>1 DEF Decoded
    <3>3. Verdict(c, FoundScope(d[2]), d[1])
      BY <2>a, <2>10, <3>2 DEF Verdict, FoundScope, ReadScopes
    <3>. QED
      BY <2>10, <2>b, <3>1, <3>2, <3>3 DEF ReadScopes, Goto
  <2>11. CASE CloseResponse(c)
    BY <1>0, <2>11 DEF CloseResponse, Goto, Unwound, Drained, ClientInv, OnlyFailedChecksHoldConnections, VerdictsComeFromAuth, TypeOK, Ended, HoldsConnection, Answers, NoAnswer
  <2>12. CASE CloseBody(c)
    BY <1>0, <2>12 DEF CloseBody, Goto, Unwound, ClientInv, OnlyFailedChecksHoldConnections, VerdictsComeFromAuth, TypeOK, Ended, HoldsConnection
  <2>. QED
    BY <2>0, <2>1, <2>2, <2>3, <2>4, <2>5, <2>6, <2>7, <2>8, <2>9, <2>10, <2>11, <2>12 DEF Call, FetchKeys, ServiceAccountToken, RequireScope, Do
<1>. QED
  BY <1>1, <1>2

\* A call that has begun stays so: a stranger, and one that assigned, for good.
LEMMA CallStep ==
  ASSUME TypeOK, NEW c \in Calls, Call(c)
  PROVE  /\ pc'[c] # "call"
         /\ pc[c] \notin {"call", "configure"} => pc'[c] \notin {"call", "configure"}
         /\ \A d \in Calls \ {c} : pc'[d] = pc[d] /\ via'[d] = via[d] /\ result'[d] = result[d]
<1> USE DEF TypeOK, Goto
<1>1. CASE Configure(c)
  BY <1>1 DEF Configure
<1>2. CASE AssignTransport(c)
  BY <1>2 DEF AssignTransport
<1>3. CASE Send(c)
  BY <1>3 DEF Send
<1>4. CASE SendTorn(c)
  BY <1>4 DEF SendTorn
<1>5. CASE RequestFails(c)
  BY <1>5 DEF RequestFails, Return
<1>6. CASE Receive(c)
  BY <1>6 DEF Receive
<1>7. CASE ReadKeys(c)
  BY <1>7 DEF ReadKeys
<1>8. CASE ReadToken(c)
  BY <1>8 DEF ReadToken
<1>9. CASE ScopeCheckFails(c)
  BY <1>9 DEF ScopeCheckFails, Return
<1>10. CASE ReadScopes(c)
  BY <1>10 DEF ReadScopes
<1>11. CASE CloseResponse(c)
  BY <1>11 DEF CloseResponse, Unwound
<1>12. CASE CloseBody(c)
  BY <1>12 DEF CloseBody, Unwound
<1>. QED
  BY <1>1, <1>2, <1>3, <1>4, <1>5, <1>6, <1>7, <1>8, <1>9, <1>10, <1>11, <1>12 DEF Call, FetchKeys, ServiceAccountToken, RequireScope, Do

\* Only an assignment changes the shared client, and only Send and SendTorn, of
\* the call itself, put a call where OwnOrStrangers says something of it.
LEMMA TransportStep == TransportInv /\ [Next]_vars => TransportInv'
<1> SUFFICES ASSUME TransportInv, [Next]_vars PROVE TransportInv'
  OBVIOUS
<1>0. TypeOK /\ TypeOK'
  BY TypeStep DEF TransportInv
<1> USE AuthClientAssumption
<1>1. CASE UNCHANGED vars
  BY <1>0, <1>1 DEF TransportInv, OwnOrStrangers, Strangers, vars
<1>2. CASE Next
  <2>0. PICK c \in Calls : Call(c)
    BY <1>2 DEF Next
  <2>1. /\ pc'[c] # "call"
        /\ pc[c] \notin {"call", "configure"} => pc'[c] \notin {"call", "configure"}
        /\ \A d \in Calls \ {c} : pc'[d] = pc[d] /\ via'[d] = via[d] /\ result'[d] = result[d]
    BY <1>0, <2>0, CallStep
  <2>2. \A d \in Calls : Strangers(d) \subseteq Strangers(d)'
    BY <2>1 DEF Strangers
  <2>3. transport' = transport \/ AssignTransport(c)
    BY <2>0 DEF Call, FetchKeys, ServiceAccountToken, RequireScope, Do, Configure, Send,
      SendTorn, RequestFails, Receive, ReadKeys, ReadToken, ScopeCheckFails, ReadScopes,
      CloseResponse, CloseBody
  <2>4. AssignTransport(c) => /\ pc[c] = "configure" /\ pc'[c] = "send"
                             /\ transport' = Option[c]
    BY <1>0 DEF AssignTransport, Goto, TypeOK
  <2>5. pc'[c] = "configure" => Option[c] # NoTransport
    <3> USE DEF TypeOK, Goto, Return
    <3>1. CASE Configure(c)
      BY <1>0, <3>1 DEF Configure
    <3>2. CASE ~Configure(c)
      BY <1>0, <2>0, <3>2 DEF Call, FetchKeys, ServiceAccountToken, RequireScope, Do,
        AssignTransport, Send, SendTorn, RequestFails, Receive, ReadKeys, ReadToken,
        ScopeCheckFails, ReadScopes, CloseResponse, CloseBody, Unwound
    <3>. QED
      BY <3>1, <3>2
  <2>c. CloseResponse(c) \/ CloseBody(c) =>
          pc'[c] = (IF result'[c] = "panic" THEN "panicked" ELSE "returned")
    BY <1>0 DEF CloseResponse, CloseBody, Unwound, Goto, TypeOK
  <2>6. pc'[c] = "await" => Send(c)
    BY <1>0, <2>0, <2>c DEF TypeOK, Goto, Return, Call, FetchKeys, ServiceAccountToken, RequireScope,
      Do, Configure, AssignTransport, SendTorn, RequestFails, Receive, ReadKeys, ReadToken,
      ScopeCheckFails, ReadScopes
  <2>7. pc'[c] = "panicked" /\ result'[c] # "panic" => SendTorn(c)
    BY <1>0, <2>0, <2>c DEF TypeOK, Goto, Return, Call, FetchKeys, ServiceAccountToken, RequireScope,
      Do, Configure, AssignTransport, Send, RequestFails, Receive, ReadKeys, ReadToken,
      ScopeCheckFails, ReadScopes
  <2>8. \A d \in Calls : pc[d] = "configure" /\ d # c => Option[d] \in Strangers(c)
    BY DEF TransportInv, Strangers
  <2>9. pc[c] \notin {"call", "configure"} => transport \in {Option[c]} \cup Strangers(c)
    BY <2>0 DEF TransportInv, Strangers
  <2>10. OwnOrStrangers'
    <3> SUFFICES ASSUME NEW d \in Calls
                 PROVE /\ pc'[d] = "await" => via'[d] \in {Option[d]} \cup Strangers(d)'
                       /\ pc'[d] = "panicked" /\ result'[d] # "panic" => Option[d] = NoTransport /\ Strangers(d)' # {}
      BY DEF OwnOrStrangers
    <3>1. CASE d # c
      BY <2>1, <2>2, <3>1 DEF TransportInv, OwnOrStrangers
    <3>2. CASE d = c /\ Send(c)
      <4>1. pc[c] = "send" /\ pc'[c] = "await" /\ via'[c] \in {transport} \cup Overwriting
        BY <1>0, <3>2 DEF Send, Goto, TypeOK
      <4>2. Overwriting \subseteq Strangers(c)
        BY <2>8, <4>1 DEF Overwriting
      <4>. QED
        BY <2>2, <2>9, <3>2, <4>1, <4>2
    <3>3. CASE d = c /\ SendTorn(c)
      <4>1. pc[c] = "send" /\ pc'[c] = "panicked" /\ transport = NoTransport /\ Overwriting # {}
        BY <1>0, <3>3 DEF SendTorn, Goto, TypeOK
      <4>2. Overwriting \subseteq Strangers(c)
        BY <2>8, <4>1 DEF Overwriting
      <4>. QED
        BY <2>2, <3>3, <4>1, <4>2 DEF TransportInv
    <3>. QED
      BY <2>6, <2>7, <3>1, <3>2, <3>3
  <2>11. CASE transport' = transport
    <3>1. transport' # NoTransport =>
            \E d \in Calls : Option[d] = transport' /\ pc'[d] \notin {"call", "configure"}
      BY <2>1, <2>11 DEF TransportInv
    <3>2. Option[c] # NoTransport /\ pc'[c] \notin {"call", "configure"}
             /\ pc[c] \in {"call", "configure"} => AssignTransport(c)
      BY <1>0, <2>0 DEF TransportInv, TypeOK, Goto, Return, Call, FetchKeys, ServiceAccountToken,
        RequireScope, Do, Configure, Send, SendTorn, RequestFails, Receive, ReadKeys, ReadToken,
        ScopeCheckFails, ReadScopes, CloseResponse, CloseBody, Unwound
    <3>3. \A d \in Calls : Option[d] # NoTransport /\ pc'[d] \notin {"call", "configure"}
                              => transport' # NoTransport
      BY <2>1, <2>4, <2>11, <3>2 DEF TransportInv
    <3>. QED
      BY <1>0, <2>1, <2>5, <2>10, <3>1, <3>3 DEF TransportInv
  <2>12. CASE AssignTransport(c)
    <3>1. Option[c] # NoTransport
      BY <2>4, <2>12 DEF TransportInv
    <3>. QED
      BY <1>0, <2>1, <2>4, <2>5, <2>10, <2>12, <3>1 DEF TransportInv
  <2>. QED
    BY <2>3, <2>11, <2>12
<1>. QED
  BY <1>1, <1>2

\* No call has been made yet.
LEMMA Initially == Init => TypeOK /\ ClientInv
BY AuthClientAssumption DEF Init, TypeOK, ClientInv, OnlyFailedChecksHoldConnections, VerdictsComeFromAuth, AnyTransport, Ended, HoldsConnection, NoAnswer

\* Type correctness.
THEOREM TypeCorrect == Spec => []TypeOK
BY Initially, TypeStep, PTL DEF Spec

\* The inductive invariant of the calls.
THEOREM Invariance == Spec => []ClientInv
BY Initially, ClientStep, PTL DEF Spec

\* Only a scope check that was not answered with 200 keeps its connection.
THEOREM ConnectionsGivenBack == Spec => []OnlyFailedChecksHoldConnections
<1>1. ClientInv => OnlyFailedChecksHoldConnections
  BY DEF ClientInv
<1>. QED
  BY <1>1, Invariance, PTL

\* Grants and refusals are the Auth service's.
THEOREM NoInventedVerdict == Spec => []VerdictsComeFromAuth
<1>1. ClientInv => VerdictsComeFromAuth
  BY DEF ClientInv
<1>. QED
  BY <1>1, Invariance, PTL

\* A request goes through the call's own round-tripper or a stranger's.
THEOREM ForeignTransports == Spec => []OwnOrStrangers
<1>1. Init => TransportInv
  BY Initially, AuthClientAssumption DEF Init, TransportInv, OwnOrStrangers
<1>2. TransportInv => OwnOrStrangers
  BY DEF TransportInv
<1>. QED
  BY <1>1, <1>2, TransportStep, PTL DEF Spec
=============================================================================
