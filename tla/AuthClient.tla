------------------------------ MODULE AuthClient ------------------------------
(***************************************************************************)
(* The calls this library makes to the Auth service:  jwk.FetchKeys,       *)
(* auth.ServiceAccountToken and AuthService.RequireScope.  They run        *)
(* concurrently and share one object, http.DefaultClient, whose transport  *)
(* the options of FetchKeys and ServiceAccountToken assign.  A call owns   *)
(* the response it gets, and with it a connection until the body is read   *)
(* to its end or closed.                                                   *)
(*                                                                         *)
(* net/http and the Auth service are external: an answer is any status,    *)
(* any JSON payload or none, and a body that may be absent or break off.   *)
(***************************************************************************)
EXTENDS Naturals

CONSTANTS
    Calls,
    Kind,         \* what each call is: "keys", "token" or "scope"
    Transports,   \* round-trippers given by WithRoundTripper
    NoTransport,  \* nil: http.DefaultTransport
    Option        \* the round-tripper a call is given, or NoTransport

ASSUME AuthClientAssumption ==
    /\ Kind \in [Calls -> {"keys", "token", "scope"}]
    /\ NoTransport \notin Transports
    /\ Option \in [Calls -> Transports \cup {NoTransport}]
    /\ \A c \in Calls : Kind[c] = "scope" => Option[c] = NoTransport

VARIABLES
    transport,   \* http.DefaultClient.Transport
    pc,          \* where each call is
    via,         \* the transport its request is under way through
    answer,      \* the response it got
    body,        \* what became of the response's body
    closed,      \* did Body.Close run
    result       \* what the call returned

vars == <<transport, pc, via, answer, body, closed, result>>

AnyTransport == Transports \cup {NoTransport}

\* The payload, as JSON:  it grants what the call asked for (keys, a token, the
\* scope);  is well formed but lacks it;  grants it beside a part of a wrong type
\* ("damaged": the decoder reports an error and keeps the rest);  has a null where
\* the first element is expected;  or is no JSON ("garbage": nothing is kept).
Answers ==
    {a \in [status : {"ok", "other", "error"},
            payload : {"granted", "withheld", "damaged", "null", "garbage"},
            body : {"none", "whole", "cut"}] :
        a.body = "none" => a.payload = "garbage"}

NoAnswer == [status |-> "none", payload |-> "garbage", body |-> "none"]

\* A connection is given back at the end of the body, on a read error and by
\* Close; a response without a body never keeps one.
HoldsConnection(c) == body[c] \in {"unread", "partly"} /\ ~closed[c]

Ended(c) == pc[c] \in {"returned", "panicked"}

Init ==
    /\ transport = NoTransport
    /\ pc = [c \in Calls |-> "call"]
    /\ via = [c \in Calls |-> NoTransport]
    /\ answer = [c \in Calls |-> NoAnswer]
    /\ body = [c \in Calls |-> "absent"]
    /\ closed = [c \in Calls |-> FALSE]
    /\ result = [c \in Calls |-> "none"]

Goto(c, from, to) == pc[c] = from /\ pc' = [pc EXCEPT ![c] = to]

Return(c, from, r) ==
    /\ Goto(c, from, "returned")
    /\ result' = [result EXCEPT ![c] = r]

-----------------------------------------------------------------------------
(* httpClient := http.DefaultClient; opt(httpClient)                       *)

\* An interface value takes two words to assign: while a call is in
\* "configure" the field may hold a mix of both values.
Configure(c) ==
    /\ Goto(c, "call", IF Option[c] = NoTransport THEN "send" ELSE "configure")
    /\ UNCHANGED <<transport, via, answer, body, closed, result>>

\* Mutant: the option is applied to a copy of the client.
AssignToCopy(c) ==
    /\ Goto(c, "configure", "send")
    /\ UNCHANGED <<transport, via, answer, body, closed, result>>

AssignTransport(c) ==
    /\ Goto(c, "configure", "send")
    /\ transport' = Option[c]
    /\ UNCHANGED <<via, answer, body, closed, result>>

-----------------------------------------------------------------------------
(* The request.                                                            *)

Overwriting == {Option[c] : c \in {d \in Calls : pc[d] = "configure"}}

\* A read that races with an assignment sees the old or the new value ...
Send(c) ==
    /\ Goto(c, "send", "await")
    /\ \E t \in {transport} \cup Overwriting : via' = [via EXCEPT ![c] = t]
    /\ UNCHANGED <<transport, answer, body, closed, result>>

\* ... or the type of one with the data of the other, which is nil if the
\* field was: the call goes to a nil round-tripper.  (Round-trippers are taken
\* to have one Go type, so that a mix of two of them is one of the two.)
SendTorn(c) ==
    /\ transport = NoTransport /\ Overwriting # {}
    /\ Goto(c, "send", "panicked")
    /\ UNCHANGED <<transport, via, answer, body, closed, result>>

\* Do fails: there is no response to close.
RequestFails(c) ==
    /\ Return(c, "await", "error")
    /\ via' = [via EXCEPT ![c] = NoTransport]
    /\ UNCHANGED <<transport, answer, body, closed>>

Receive(c) ==
    /\ Goto(c, "await", "read")
    /\ \E a \in Answers :
          /\ answer' = [answer EXCEPT ![c] = a]
          /\ body' = [body EXCEPT ![c] = IF a.body = "none" THEN "drained" ELSE "unread"]
    /\ via' = [via EXCEPT ![c] = NoTransport]
    /\ UNCHANGED <<transport, closed, result>>

-----------------------------------------------------------------------------
(* Reading the response.                                                   *)

\* What reading to the end leaves of the body.
Drained(c) == IF answer[c].body = "cut" THEN "broken" ELSE "drained"

\* A decoder stops behind the JSON value, or reads on to the end; a cut body
\* is decoded only if the cut comes behind the value:  the decoder
\* stores nothing of a value it has not seen the end of.
Decoded(c) ==
    {<<"drained", answer[c].payload>> : b \in {answer[c].body} \ {"cut"}}
        \cup {<<"partly", answer[c].payload>> : b \in {answer[c].body} \ {"none"}}
        \cup {<<"broken", "garbage">> : b \in {answer[c].body} \cap {"cut"}}

\* FetchKeys: ReadBody, the status, unmarshalKeys.
FetchedKeys(c) ==
    IF Drained(c) = "broken" \/ answer[c].status # "ok" THEN "error"
    ELSE CASE answer[c].payload = "granted"  -> "granted"
           [] answer[c].payload = "withheld" -> "empty"
           [] OTHER                          -> "error"

ReadKeys(c) ==
    /\ Kind[c] = "keys"
    /\ Goto(c, "read", "close")
    /\ body' = [body EXCEPT ![c] = Drained(c)]
    /\ result' = [result EXCEPT ![c] = FetchedKeys(c)]
    /\ UNCHANGED <<transport, via, answer, closed>>

\* Mutant: the status is not looked at, nor whether the token is empty.
AnyToken(c, payload) == IF payload = "garbage" THEN "error" ELSE "granted"

\* ServiceAccountToken: an error status is an error whatever the body says, but
\* that jsonErr.Errors[0] may be nil;  otherwise the token must be there, not empty,
\* and decoded without an error.
ReceivedToken(c, payload) ==
    CASE answer[c].status = "error" /\ payload = "null"     -> "panic"
      [] answer[c].status # "error" /\ payload = "granted"  -> "granted"
      [] OTHER                                              -> "error"

ReadToken(c) ==
    /\ Kind[c] = "token"
    /\ Goto(c, "read", "close")
    /\ \E d \in Decoded(c) :
          /\ body' = [body EXCEPT ![c] = d[1]]
          /\ result' = [result EXCEPT ![c] = ReceivedToken(c, d[2])]
    /\ UNCHANGED <<transport, via, answer, closed>>

\* RequireScope: any status but 200 returns at once, before Close is deferred.
ScopeCheckFails(c) ==
    /\ Kind[c] = "scope" /\ answer[c].status # "ok"
    /\ Return(c, "read", "error")
    /\ UNCHANGED <<transport, via, answer, body, closed>>

\* Mutant: an answer that cannot be decoded counts as a consent.
FailsOpen(payload) == IF payload \in {"garbage", "damaged", "granted"} THEN "granted" ELSE "refused"

\* The error of the decoder is dropped: the scopes it has kept are searched, those
\* of a damaged answer too;  a nil scope on the way panics.
FoundScope(payload) ==
    CASE payload \in {"granted", "damaged"} -> "granted"
      [] payload = "null"                  -> "panic"
      [] OTHER                             -> "refused"

ReadScopes(c) ==
    /\ Kind[c] = "scope" /\ answer[c].status = "ok"
    /\ Goto(c, "read", "close")
    /\ \E d \in Decoded(c) :
          /\ body' = [body EXCEPT ![c] = d[1]]
          /\ result' = [result EXCEPT ![c] = FoundScope(d[2])]
    /\ UNCHANGED <<transport, via, answer, closed>>

-----------------------------------------------------------------------------
(* The deferred end of the response, which also runs when a call panics.   *)

Unwound(c) == IF result[c] = "panic" THEN "panicked" ELSE "returned"

\* Mutant: the body is left as it is.
LeaveBody(c) ==
    /\ Kind[c] # "scope"
    /\ Goto(c, "close", Unwound(c))
    /\ UNCHANGED <<transport, via, answer, body, closed, result>>

\* CloseResponse: ReadAll never returns io.EOF, so Close is not reached.
CloseResponse(c) ==
    /\ Kind[c] # "scope"
    /\ Goto(c, "close", Unwound(c))
    /\ body' = [body EXCEPT ![c] = Drained(c)]
    /\ UNCHANGED <<transport, via, answer, closed, result>>

\* defer resp.Body.Close()
CloseBody(c) ==
    /\ Kind[c] = "scope"
    /\ Goto(c, "close", Unwound(c))
    /\ closed' = [closed EXCEPT ![c] = TRUE]
    /\ UNCHANGED <<transport, via, answer, body, result>>

Do(c) == Send(c) \/ SendTorn(c) \/ RequestFails(c) \/ Receive(c)

FetchKeys(c) == Kind[c] = "keys" /\ (Configure(c) \/ AssignTransport(c) \/ Do(c) \/ ReadKeys(c) \/ CloseResponse(c))
ServiceAccountToken(c) == Kind[c] = "token" /\ (Configure(c) \/ AssignTransport(c) \/ Do(c) \/ ReadToken(c) \/ CloseResponse(c))
RequireScope(c) == Kind[c] = "scope" /\ (Configure(c) \/ Do(c) \/ ScopeCheckFails(c) \/ ReadScopes(c) \/ CloseBody(c))

Call(c) == FetchKeys(c) \/ ServiceAccountToken(c) \/ RequireScope(c)

Next == \E c \in Calls : Call(c)

Spec == Init /\ [][Next]_vars

-----------------------------------------------------------------------------
(* Properties.                                                             *)

\* The variables stay in their types (all of auth/service.go, the HTTP half
\* of auth/token.go, auth/jwk/fetch_keys.go).
TypeOK ==
    /\ transport \in AnyTransport
    /\ pc \in [Calls -> {"call", "configure", "send", "await", "read", "close", "returned", "panicked"}]
    /\ via \in [Calls -> AnyTransport]
    /\ answer \in [Calls -> Answers \cup {NoAnswer}]
    /\ body \in [Calls -> {"absent", "unread", "partly", "drained", "broken"}]
    /\ closed \in [Calls -> BOOLEAN]
    /\ result \in [Calls -> {"none", "granted", "empty", "refused", "error", "panic"}]

\* A call that is over holds no connection of the pool, on no path through
\* FetchKeys, ServiceAccountToken and RequireScope but one: the early return
\* of a scope check that was not answered with 200 (auth/service.go:42-44).
OnlyFailedChecksHoldConnections ==
    \A c \in Calls :
        Ended(c) /\ HoldsConnection(c) => Kind[c] = "scope" /\ answer[c].status # "ok"

\* What a caller takes for the Auth service's verdict is one.  A grant is in the
\* answer, of a status that allows it, and was decoded;  only a scope check may find it
\* in an answer of which other parts could not be.  "No keys" is said by a whole 200
\* answer.  A ForbiddenError is of a 200 answer too, but not always of one that
\* lacks the scope:  as the decoder's error is dropped, a body that broke off or is no
\* JSON refuses as well.  A grant that arrived whole is never turned into an error, and
\* a panic on an answer is one on a null in it (auth/service.go:38-53,
\* auth/token.go:354-381, auth/jwk/fetch_keys.go:54-70).
VerdictsComeFromAuth ==
    \A c \in Calls :
        /\ result[c] = "granted" =>
              /\ \/ answer[c].status = "ok"
                 \/ answer[c].status = "other" /\ Kind[c] = "token"
              /\ \/ answer[c].payload = "granted"
                 \/ answer[c].payload = "damaged" /\ Kind[c] = "scope"
        /\ result[c] = "empty" =>
              answer[c].status = "ok" /\ answer[c].payload = "withheld" /\ body[c] = "drained"
        /\ result[c] = "refused" =>
              /\ answer[c].status = "ok"
              /\ answer[c].payload \in {"withheld", "garbage"} \/ body[c] = "broken"
        /\ result[c] = "error" =>
              \/ answer[c].status # "ok" \/ answer[c].payload # "granted" \/ body[c] = "broken"
        /\ result[c] = "panic" => answer[c].payload = "null"

\* What each place in a call says of its response: there is none before the
\* request is answered, what the body became agrees with the answer, only a 200
\* answer reaches the close of a scope check, the variables are well typed, and the
\* two properties above (auth/service.go:36-53, auth/token.go:348-381,
\* auth/jwk/fetch_keys.go:44-76).
ClientInv ==
    /\ TypeOK
    /\ OnlyFailedChecksHoldConnections
    /\ VerdictsComeFromAuth
    /\ \A c \in Calls :
        /\ pc[c] \in {"call", "configure", "send", "await"} => body[c] = "absent" /\ answer[c] = NoAnswer
        /\ pc[c] \in {"call", "configure", "send", "await", "read"} => result[c] = "none"
        /\ pc[c] \in {"read", "close"} => answer[c] # NoAnswer
        /\ body[c] = "broken" => answer[c].body = "cut"
        /\ body[c] = "drained" => answer[c].body # "cut"
        /\ pc[c] = "close" /\ Kind[c] = "scope" => answer[c].status = "ok"

\* The options other calls bring, or have brought, to the shared client.
Strangers(c) ==
    {Option[d] : d \in {e \in Calls \ {c} : pc[e] # "call"}} \ {NoTransport}

\* A request goes out through the call's own round-tripper, or none if it has
\* none, or else through that of another call that began to configure the shared
\* client; before its answer, only a call without an option can meet a half-assigned
\* one and panic, and only if there is such a stranger (auth/token.go:330-333,
\* auth/jwk/fetch_keys.go:36-40, auth/service.go:55-61).
OwnOrStrangers ==
    \A c \in Calls :
        /\ pc[c] = "await" => via[c] \in {Option[c]} \cup Strangers(c)
        /\ pc[c] = "panicked" /\ result[c] # "panic" => Option[c] = NoTransport /\ Strangers(c) # {}

\* The client's transport is the option of a call that has assigned it, and
\* nothing only before any has (httpsupport/http_client_option.go:11-15).
TransportInv ==
    /\ TypeOK
    /\ OwnOrStrangers
    /\ transport # NoTransport =>
          \E d \in Calls : Option[d] = transport /\ pc[d] \notin {"call", "configure"}
    /\ \A c \in Calls :
          /\ Option[c] # NoTransport /\ pc[c] \notin {"call", "configure"} => transport # NoTransport
          /\ pc[c] = "configure" => Option[c] # NoTransport
==============================================================================
