-------------------------------- MODULE Proxy --------------------------------
(***************************************************************************)
(* httpsupport.RouteHTTP and RouteHTTPToPath: one request is sent on to a  *)
(* target by an httputil.ReverseProxy, and the answer is copied back, by   *)
(* way of a gunzipResponseWriter if the client's Accept-Encoding mentions  *)
(* gzip.                                                                   *)
(*                                                                         *)
(* httputil.ReverseProxy, the target and the HTTP server that runs route   *)
(* are external.  A body is counted in units of its content; one Read      *)
(* returns any number of them up to the size of the proxy's buffer.        *)
(***************************************************************************)
EXTENDS Naturals, Sequences, SequencesExt

CONSTANTS
    MaxSize,     \* bound: units of a body
    Buffer,      \* units of ReverseProxy's copy buffer
    Paths,       \* paths, sequences of "/" and of segments
    Queries      \* raw queries, sequences of parameters

ASSUME ProxyAssumption ==
    /\ MaxSize \in Nat /\ Buffer \in Nat \ {0}
    /\ \A p \in Paths : p \in Seq(STRING)
    /\ \A q \in Queries : q \in Seq(STRING)

VARIABLES
    pc,          \* where route and the server around it are
    request,     \* the client's request: path, query, Accept-Encoding
    target,      \* the parsed targetHost, and targetPath or "unset"
    outgoing,    \* the URL the request is sent to
    answer,      \* the target's answer
    offset,      \* units of it that were read
    client,      \* what the client got
    err          \* did route return an error

vars == <<pc, request, target, outgoing, answer, offset, client, err>>

\* The writer is chosen by strings.Contains: "gzip;q=0" is no gzip either.
AcceptEncodings == {"", "gzip", "gzip;q=0"}
UsesGunzip == request.accept # ""

NoURL == [path |-> <<>>, query |-> <<>>]
NoBody == [bytes |-> "plain", size |-> 0, sent |-> 0, declared |-> FALSE]

ClientRequests == [path : Paths, query : Queries, accept : AcceptEncodings]
Targets == [url : [path : Paths, query : Queries], path : Paths \cup {<<"unset">>},
            valid : BOOLEAN, context : BOOLEAN]

Init ==
    /\ pc = "route"
    /\ request \in ClientRequests
    /\ target \in Targets
    /\ outgoing = NoURL
    /\ answer = NoBody
    /\ offset = 0
    /\ client = [status |-> "none", body |-> <<>>, declared |-> FALSE, end |-> "open"]
    /\ err = FALSE

Goto(from, to) == pc = from /\ pc' = to

-----------------------------------------------------------------------------
(* The request: route and the director.                                    *)

\* No goa response or request in the context, or targetHost cannot be parsed.
RouteFails ==
    /\ ~target.context \/ ~target.valid
    /\ Goto("route", "returned")
    /\ err' = TRUE
    /\ UNCHANGED <<request, target, outgoing, answer, offset, client>>

\* Mutant: paths are put together as they are.
Concatenated(a, b) == a \o b

SingleJoiningSlash(a, b) ==
    LET aslash == IsSuffix(<<"/">>, a)
        bslash == IsPrefix(<<"/">>, b)
    IN  IF aslash /\ bslash THEN a \o Tail(b)
        ELSE IF ~aslash /\ ~bslash THEN a \o <<"/">> \o b
        ELSE a \o b

JoinedQuery(a, b) == IF a = <<>> \/ b = <<>> THEN a \o b ELSE a \o <<"&">> \o b

Directed ==
    [path |-> IF target.path # <<"unset">> THEN target.path
              ELSE SingleJoiningSlash(target.url.path, request.path),
     query |-> JoinedQuery(target.url.query, request.query)]

Direct ==
    /\ target.context /\ target.valid
    /\ Goto("route", "sent")
    /\ outgoing' = Directed
    /\ UNCHANGED <<request, target, answer, offset, client, err>>

-----------------------------------------------------------------------------
(* The answer.                                                             *)

\* The target's bytes are a gzip stream or not, whatever the two sides' headers say
\* of it.  It may break off: it sends some of the units it meant to.
Answers ==
    {a \in [bytes : {"plain", "gzip"}, size : 0..MaxSize, sent : 0..MaxSize, declared : BOOLEAN] :
        /\ a.bytes = "gzip" => a.size > 0
        /\ a.sent <= a.size}

\* ReverseProxy answers 502 itself.
BadGateway ==
    /\ Goto("sent", "served")
    /\ client' = [client EXCEPT !.status = "502"]
    /\ UNCHANGED <<request, target, outgoing, answer, offset, err>>

\* Mutant: Content-Length is deleted for everybody.
UndeclaredHeader(a) == [client EXCEPT !.status = "target's"]

\* gunzipResponseWriter.WriteHeader deletes Content-Length.  Of the other headers
\* it keeps one value each, which is left out.
SentHeader(a) ==
    [client EXCEPT !.status = "target's",
                   !.declared = a.declared /\ ~UsesGunzip]

WriteHeader ==
    /\ Goto("sent", "copy")
    /\ \E a \in Answers :
          /\ answer' = a
          /\ client' = SentHeader(a)
    /\ UNCHANGED <<request, target, outgoing, offset, err>>

Units(from, to) == SubSeq([i \in 1..MaxSize |-> i], from, to)

\* Mutant: what cannot be gunzipped is passed on as it is.
WriteRaw(from, to) ==
    [ok |-> TRUE,
     data |-> IF answer.bytes = "gzip" /\ ~(from = 1 /\ to = answer.size)
              THEN <<MaxSize + 1>> ELSE Units(from, to)]

\* gunzipResponseWriter.Write gunzips each chunk by itself, by its bytes and not by a
\* header: it must be the whole gzip stream.
Write(from, to) ==
    IF UsesGunzip => answer.bytes = "gzip" /\ from = 1 /\ to = answer.size
    THEN [ok |-> TRUE, data |-> Units(from, to)]
    ELSE [ok |-> FALSE, data |-> <<>>]

\* One Read of the body, and the Write of what it returned.
Copy ==
    /\ pc = "copy" /\ offset < answer.sent
    /\ \E n \in 1..Buffer :
          /\ offset + n <= answer.sent
          /\ offset' = offset + n
          /\ LET written == Write(offset + 1, offset + n)
             IN  /\ client' = [client EXCEPT !.body = @ \o written.data]
                 /\ pc' = IF written.ok THEN "copy" ELSE "panicked"
    /\ UNCHANGED <<request, target, outgoing, answer, err>>

CopyEnds ==
    /\ offset = answer.sent
    /\ Goto("copy", IF answer.sent = answer.size THEN "served" ELSE "panicked")
    /\ UNCHANGED <<request, target, outgoing, answer, offset, client, err>>

-----------------------------------------------------------------------------
(* The end.                                                                *)

\* Mutant: the panic is turned into an error.
RecoverError ==
    /\ Goto("panicked", "returned")
    /\ err' = TRUE
    /\ UNCHANGED <<request, target, outgoing, answer, offset, client>>

\* ReverseProxy panics with ErrAbortHandler if the copy fails; route recovers.
Recover ==
    /\ Goto("panicked", "returned")
    /\ UNCHANGED <<request, target, outgoing, answer, offset, client, err>>

Return ==
    /\ Goto("served", "returned")
    /\ UNCHANGED <<request, target, outgoing, answer, offset, client, err>>

\* The caller writes its own answer if route returned an error.  The server
\* ends the response as a whole one unless its declared length is missing.
Finish ==
    /\ Goto("returned", "finished")
    /\ client' = [client EXCEPT
                     !.status = IF err THEN "caller's" ELSE @,
                     !.end = IF client.declared /\ Len(client.body) < answer.size THEN "aborted" ELSE "complete"]
    /\ UNCHANGED <<request, target, outgoing, answer, offset, err>>

Next == RouteFails \/ Direct \/ BadGateway \/ WriteHeader \/ Copy \/ CopyEnds \/ Recover \/ Return \/ Finish

Spec == Init /\ [][Next]_vars

-----------------------------------------------------------------------------
(* Properties.                                                             *)

Places == {"route", "sent", "copy", "panicked", "served", "returned", "finished"}
Received ==
    [status : {"none", "502", "target's", "caller's"}, body : Seq(1..MaxSize),
     declared : BOOLEAN, end : {"open", "complete", "aborted"}]

\* The variables stay in their types (httpsupport/proxy.go:58-209).
TypeOK ==
    /\ pc \in Places
    /\ request \in ClientRequests /\ target \in Targets
    /\ answer \in Answers \cup {NoBody}
    /\ offset \in 0..answer.sent
    /\ client \in Received
    /\ err \in BOOLEAN

\* The client sees the beginning of the target's body, in order, nothing
\* twice and nothing else (httpsupport/proxy.go:97-101, 165-186).
BodyIsPrefix == IsPrefix(client.body, Units(1, answer.size))

\* How far the copy has come, and the ways it ends.
Untouched == client.status # "target's" /\ client.body = <<>>
Copied == client.status = "target's" /\ client.body = Units(1, offset)
BrokenOff == Copied /\ offset = answer.sent /\ offset < answer.size
Unwritable ==
    /\ client.status = "target's" /\ client.body = <<>>
    /\ UsesGunzip /\ (answer.bytes = "plain" \/ answer.size > 1)

\* Each place of route and what the client has by then: all that was read,
\* and past the gunzip writer nothing or the whole; an error only if nothing
\* was answered; a response that ends as a whole one has its declared length
\* (httpsupport/proxy.go:58-101, 165-197).
ResponseInv ==
    /\ TypeOK /\ BodyIsPrefix
    /\ pc \in {"route", "sent"} => client.status = "none" /\ client.body = <<>> /\ offset = 0
    /\ pc = "copy" => Copied /\ (UsesGunzip => offset = 0 \/ offset = answer.size)
    /\ pc \notin {"route", "sent", "copy"} =>
          Untouched \/ (Copied /\ offset = answer.size) \/ BrokenOff \/ Unwritable
    /\ err => pc \in {"returned", "finished"}
    /\ err /\ pc = "returned" => client.status = "none"
    /\ client.status = "target's" => client.declared = (answer.declared /\ ~UsesGunzip)
    /\ client.end # "open" => pc = "finished"
    /\ client.end = "complete" /\ client.declared => Len(client.body) >= answer.size

Truncated == client.status = "target's" /\ client.end = "complete" /\ Len(client.body) < answer.size

\* A truncated body that the client takes for a whole one has one of three
\* reasons: the target broke off, and its Content-Length was missing or
\* deleted; or a client that mentions gzip was answered without compression,
\* or in more than one read
\* (httpsupport/proxy.go:80-88, 97-99, 165-197).
TruncationsAreKnown ==
    Truncated =>
        \/ answer.sent < answer.size /\ (UsesGunzip \/ ~answer.declared)
        \/ UsesGunzip /\ answer.bytes = "plain"
        \/ UsesGunzip /\ answer.bytes = "gzip" /\ answer.size > 1

\* The target's path and the request's are joined by exactly one slash:
\* "if the target's path is /base and the incoming request was for /dir, the
\* target request will be for /base/dir" (httpsupport/proxy.go:35-36, 128-137).
WithoutSlash(a) == IF IsSuffix(<<"/">>, a) THEN Front(a) ELSE a
WithSlash(b) == IF IsPrefix(<<"/">>, b) THEN b ELSE <<"/">> \o b

JoinedBySlash ==
    pc # "route" /\ ~err /\ target.path = <<"unset">> =>
        outgoing.path = WithoutSlash(target.url.path) \o WithSlash(request.path)

\* Nobody answers a request twice: the caller of route writes an answer only
\* if route wrote none (httpsupport/proxy.go:58-76, 26-28).
AnsweredOnce == [][client'.status # client.status => client.status = "none"]_vars

\* A gzip body that was received whole is written to the client
\* (httpsupport/proxy.go:166: "Write gunzipped data to the client").
\* The code does not do this if the body takes two reads.
WritesGunzippedData ==
    pc = "finished" /\ answer.bytes = "gzip" /\ answer.sent = answer.size
        => client.body = Units(1, answer.size)
==============================================================================
