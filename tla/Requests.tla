------------------------------ MODULE Requests ------------------------------
(***************************************************************************)
(* A request on its way through the middleware this library gives to a goa *)
(* service: goamiddleware.TokenContext, log.LogRequest, metric.Recorder    *)
(* and jsonapi.ErrorHandler, in any order, down to a handler and back up.  *)
(* The handler may pass the request on to a second service built the same  *)
(* way, with the caller's token (goasupport.NewForwardSigner), and turn    *)
(* the status it gets into an error (errors.FromStatusCode).               *)
(*                                                                         *)
(* Package log takes the caller's identity out of the context of what it   *)
(* logs, and panics where the subject of the token there is no string.     *)
(*                                                                         *)
(* goa and jwt-go are external.  None of the four middlewares defers       *)
(* anything: a panic ends the request, and its connection.                 *)
(***************************************************************************)
EXTENDS Naturals, Sequences

CONSTANTS
    Keys,       \* public keys
    KeyIDs,
    KeySet,     \* what NewManager loaded: a sequence of key IDs with keys
    Tokens      \* what clients may send as a bearer token

Claims == {"full", "no-username", "sub-no-UUID", "sub-no-string", "no-sub"}

ASSUME RequestsAssumption ==
    /\ KeySet \in Seq([kid : KeyIDs, key : Keys])
    /\ \A t \in Tokens : /\ DOMAIN t = {"kid", "signer", "claims"}
                         /\ t.claims \in Claims

VARIABLES
    chain,      \* the order in which Use put the middlewares
    verbose,    \* the parameter of ErrorHandler
    level,      \* the lowest level that the logger writes
    inHeader,   \* scheme.In == goa.LocHeader
    expired,    \* is the client's token past its time
    pc,         \* where the request to each service is
    depth,      \* how many middlewares it is inside of
    header,     \* its Authorization header
    token,      \* the token in its context
    acting,     \* ghost: whom the handler acted for
    err,        \* the error on its way up
    response,   \* goa's ResponseData, and the header that asks to log in
    counted     \* the codes the Recorder counted it under

settings == <<chain, verbose, level, inHeader>>
requestVars == <<depth, header, token, acting, err, response, counted>>
vars == <<settings, expired, pc, requestVars>>

Services == {"front", "back"}
Middlewares == {"LogRequest", "ErrorHandler", "TokenContext", "Recorder"}
Chains == {c \in [1..4 -> Middlewares] : \A i, j \in 1..4 : c[i] = c[j] => i = j}
Levels == {"fatal", "error", "debug"}

NoToken == [kid |-> "none", signer |-> "none", claims |-> "none"]
NoHeader == [scheme |-> "none", token |-> NoToken]
Bearer(t) == [scheme |-> "bearer", token |-> t]

\* "bearer", two blanks and a token: what is parsed is the empty string.
Headers == {NoHeader, [scheme |-> "basic", token |-> NoToken], Bearer(NoToken)} \cup {Bearer(t) : t \in Tokens}

\* The errors of package errors, those of goa (goa.ServiceError) and others.
OwnErrors == {"NotFound", "Conversion", "BadParameter", "VersionConflict", "DataConflict",
              "Internal", "Unauthorized", "Forbidden"}
GoaErrors == {"goa-400", "goa-401", "goa-503"}
Errors == OwnErrors \cup GoaErrors \cup {"other"}

\* An error may be wrapped, by github.com/pkg/errors.
Error(kind, wrapped) == [kind |-> kind, wrapped |-> wrapped]
Nil == Error("nil", FALSE)
Cause(e) == e.kind

NoResponse == [status |-> 0, detail |-> "none", login |-> FALSE, id |-> "none"]

Init ==
    /\ chain \in Chains
    /\ verbose \in BOOLEAN /\ level \in Levels /\ inHeader \in BOOLEAN
    /\ expired \in BOOLEAN
    /\ pc = [s \in Services |-> IF s = "front" THEN "down" ELSE "idle"]
    /\ depth = [s \in Services |-> 0]
    /\ header \in [Services -> Headers] /\ header["back"] = NoHeader
    /\ token = [s \in Services |-> NoToken]
    /\ acting = [s \in Services |-> "nobody"]
    /\ err = [s \in Services |-> Nil]
    /\ response = [s \in Services |-> NoResponse]
    /\ counted = [s \in Services |-> <<>>]

\* The token's time comes.
Expire ==
    /\ ~expired
    /\ expired' = TRUE
    /\ UNCHANGED <<settings, pc, requestVars>>

Goto(s, from, to) == pc[s] = from /\ pc' = [pc EXCEPT ![s] = to]

Pos(middleware) == CHOOSE i \in 1..4 : chain[i] = middleware

Outside(a, b) == Pos(a) < Pos(b)

\* extractIdentityID: id.(string)
Unprintable(t) == t.claims = "sub-no-string"

\* The token is in the context of the middlewares that TokenContext calls.
UnprintableIn(s, middleware) == Outside("TokenContext", middleware) /\ Unprintable(token[s])

\* log.Error and log.Debug look at it if they write anything.
ErrorPanics(s, middleware) == level # "fatal" /\ UnprintableIn(s, middleware)
DebugPanics(s, middleware) == level = "debug" /\ UnprintableIn(s, middleware)

-----------------------------------------------------------------------------
(* Down the chain.                                                         *)

Enters(s, middleware) == depth[s] < 4 /\ chain[depth[s] + 1] = middleware

Deeper(s) == pc[s] = "down" /\ UNCHANGED pc /\ depth' = [depth EXCEPT ![s] = @ + 1]

PassDown(s) ==
    /\ Enters(s, "ErrorHandler") \/ Enters(s, "Recorder")
    /\ Deeper(s)
    /\ UNCHANGED <<settings, expired, header, token, acting, err, response, counted>>

\* Mutant: a key that was loaded under any ID will do.
AnyKey(kid) == {KeySet[i].key : i \in 1..Len(KeySet)}

\* publicKeysMap: of several keys with one ID the last one counts.
PublicKey(kid) ==
    {KeySet[i].key : i \in {j \in 1..Len(KeySet) :
        KeySet[j].kid = kid /\ \A k \in (j + 1)..Len(KeySet) : KeySet[k].kid # kid}}

\* Parse with keyFunction.
Parses(t) == t.signer \in PublicKey(t.kid) /\ ~expired

\* tokenManager.Parse, and jwt.WithJWT if there is a token.
AcceptToken(s) ==
    /\ Enters(s, "TokenContext") /\ inHeader
    /\ header[s].scheme = "bearer" => Parses(header[s].token)
    /\ Deeper(s)
    /\ token' = [token EXCEPT ![s] = header[s].token]
    /\ UNCHANGED <<settings, expired, header, acting, err, response, counted>>

\* Mutant: the error has no status, as that of another place has not.
RejectAsItCame(s) ==
    /\ Enters(s, "TokenContext") /\ inHeader
    /\ header[s].scheme = "bearer" /\ ~Parses(header[s].token)
    /\ Goto(s, "down", "up")
    /\ response' = [response EXCEPT ![s].login = TRUE]
    /\ err' = [err EXCEPT ![s] = Error("other", FALSE)]
    /\ UNCHANGED <<settings, expired, depth, header, token, acting, counted>>

RejectToken(s) ==
    /\ Enters(s, "TokenContext") /\ inHeader
    /\ header[s].scheme = "bearer" /\ ~Parses(header[s].token)
    /\ Goto(s, "down", "up")
    /\ response' = [response EXCEPT ![s].login = TRUE]
    /\ err' = [err EXCEPT ![s] = Error("goa-401", FALSE)]
    /\ UNCHANGED <<settings, expired, depth, header, token, acting, counted>>

RejectScheme(s) ==
    /\ Enters(s, "TokenContext") /\ ~inHeader
    /\ Goto(s, "down", "up")
    /\ err' = [err EXCEPT ![s] = Error("other", FALSE)]
    /\ UNCHANGED <<settings, expired, depth, header, token, acting, response, counted>>

\* It takes the identity out of the context at every level.
LogRequest(s) ==
    /\ Enters(s, "LogRequest")
    /\ IF Unprintable(token[s])
       THEN Goto(s, "down", "panicked") /\ UNCHANGED depth
       ELSE Deeper(s)
    /\ UNCHANGED <<settings, expired, header, token, acting, err, response, counted>>

-----------------------------------------------------------------------------
(* The handler.                                                            *)

\* tokenManager.Locate
Locate(t) == IF t.claims = "full" THEN "its-subject" ELSE "nobody"

Start(s) ==
    /\ depth[s] = 4
    /\ Goto(s, "down", "handler")
    /\ acting' = [acting EXCEPT ![s] = Locate(token[s])]
    /\ UNCHANGED <<settings, expired, depth, header, token, err, response, counted>>

Answer(s, status, detail) ==
    response' = [response EXCEPT ![s].status = status, ![s].detail = detail]

Succeed(s) ==
    /\ Goto(s, "handler", "up")
    /\ Answer(s, 200, "result")
    /\ UNCHANGED <<settings, expired, depth, header, token, acting, err, counted>>

Fail(s) ==
    /\ Goto(s, "handler", "up")
    /\ \E kind \in Errors, wrapped \in BOOLEAN : err' = [err EXCEPT ![s] = Error(kind, wrapped)]
    /\ UNCHANGED <<settings, expired, depth, header, token, acting, response, counted>>

Panic(s) ==
    /\ Goto(s, "handler", "panicked")
    /\ UNCHANGED <<settings, expired, requestVars>>

\* ErrorToJSONAPIError, its status.
StatusOf ==
    [NotFound |-> 404, Conversion |-> 400, BadParameter |-> 400, VersionConflict |-> 409,
     DataConflict |-> 409, Internal |-> 500, Unauthorized |-> 401, Forbidden |-> 403, other |-> 500]
GoaStatus(kind) == IF kind = "goa-400" THEN 400 ELSE IF kind = "goa-401" THEN 401 ELSE 503

\* Mutant: the error itself is looked at, not its cause.
UnwrappedStatus(e) ==
    IF e.wrapped THEN 500 ELSE IF Cause(e) \in GoaErrors THEN GoaStatus(Cause(e)) ELSE StatusOf[Cause(e)]

ErrorToJSONAPIError(e) ==
    IF Cause(e) \in GoaErrors THEN GoaStatus(Cause(e)) ELSE StatusOf[Cause(e)]

\* JSONErrorResponse: the handler answers itself, with the error's status if
\* its context has a method for that, or with 500.  ErrorToJSONAPIError logs.
Respond(s) ==
    /\ IF level # "fatal" /\ Unprintable(token[s])
       THEN Goto(s, "handler", "panicked") /\ UNCHANGED response
       ELSE /\ Goto(s, "handler", "up")
            /\ \E kind \in Errors, wrapped \in BOOLEAN :
                  LET status == ErrorToJSONAPIError(Error(kind, wrapped))
                  IN  \E answered \in {status, 500} :
                         (answered # 500 => status \in {400, 401, 403, 404, 409}) /\ Answer(s, answered, "handler")
    /\ UNCHANGED <<settings, expired, depth, header, token, acting, err, counted>>

\* Mutant: the Authorization header is passed on.
ForwardHeader == header["front"]

\* NewForwardSigner: nil without a token in the context.
ForwardSigner == IF token["front"] = NoToken THEN NoHeader ELSE Bearer(token["front"])

Forward ==
    /\ pc["back"] = "idle"
    /\ pc["front"] = "handler"
    /\ pc' = [pc EXCEPT !["front"] = "forwarded", !["back"] = "down"]
    /\ header' = [header EXCEPT !["back"] = ForwardSigner]
    /\ UNCHANGED <<settings, expired, depth, token, acting, err, response, counted>>

FromStatusCode(status) ==
    CASE status = 404 -> "NotFound"
      [] status = 400 -> "BadParameter"
      [] status = 409 -> "VersionConflict"
      [] status = 401 -> "Unauthorized"
      [] status = 403 -> "Forbidden"
      [] OTHER -> "Internal"

\* The handler gets the second service's answer, or an error of its client.
Relay ==
    /\ pc["back"] \in {"done", "panicked"}
    /\ Goto("front", "forwarded", "up")
    /\ IF pc["back"] = "done" /\ response["back"].status = 200
       THEN Answer("front", 200, "result") /\ UNCHANGED err
       ELSE /\ \E wrapped \in BOOLEAN :
                  err' = [err EXCEPT !["front"] =
                            Error(IF pc["back"] = "done" THEN FromStatusCode(response["back"].status) ELSE "other", wrapped)]
            /\ UNCHANGED response
    /\ UNCHANGED <<settings, expired, depth, header, token, acting, counted>>

-----------------------------------------------------------------------------
(* Up the chain.                                                           *)

Leaves(s, middleware) == depth[s] > 0 /\ chain[depth[s]] = middleware

Shallower(s) == pc[s] = "up" /\ UNCHANGED pc /\ depth' = [depth EXCEPT ![s] = @ - 1]

PassUp(s) ==
    /\ \/ Leaves(s, "LogRequest") \/ Leaves(s, "TokenContext")
       \/ Leaves(s, "ErrorHandler") /\ err[s] = Nil
    /\ Shallower(s)
    /\ UNCHANGED <<settings, expired, header, token, acting, err, response, counted>>

Class(status) == status \div 100

\* Mutant: an error is returned before anything is recorded.
CountSuccess(s) ==
    /\ Leaves(s, "Recorder")
    /\ IF DebugPanics(s, "Recorder")
       THEN Goto(s, "up", "panicked") /\ UNCHANGED <<depth, counted>>
       ELSE /\ Shallower(s)
            /\ counted' = [counted EXCEPT ![s] = IF err[s] = Nil THEN Append(@, Class(response[s].status)) ELSE @]
    /\ UNCHANGED <<settings, expired, header, token, acting, err, response>>

\* The status is 0 as long as nobody has written one.  labelsVal logs it, for
\* debugging, before anything is counted.
Count(s) ==
    /\ Leaves(s, "Recorder")
    /\ IF DebugPanics(s, "Recorder")
       THEN Goto(s, "up", "panicked") /\ UNCHANGED <<depth, counted>>
       ELSE /\ Shallower(s)
            /\ counted' = [counted EXCEPT ![s] = Append(@, Class(response[s].status))]
    /\ UNCHANGED <<settings, expired, header, token, acting, err, response>>

\* Mutant: the body with the details is kept.
DetailedResponse(s, status) == [response[s] EXCEPT !.status = status, !.detail = "error"]

\* What ErrorHandler sends: of a 5xx only its kind unless it is verbose.
ErrorResponse(s, status) ==
    IF Class(status) = 5 /\ ~verbose
    THEN [response[s] EXCEPT !.status = 500, !.detail = "internal"]
    ELSE [response[s] EXCEPT !.status = status, !.detail = "error",
                             !.id = IF Cause(err[s]) \in GoaErrors THEN "original" ELSE @]

\* Mutant: any error of goa has an ID that is kept.
KeepsEveryID(s, status) == ~verbose /\ Cause(err[s]) \in GoaErrors

\* Otherwise the ID of goa's error is kept, by an assertion that fails: the
\* body is no *goa.ErrorResponse.
KeepsID(s, status) == Class(status) = 5 /\ ~verbose /\ Cause(err[s]) \in GoaErrors

\* It logs every error, in ErrorToJSONAPIError.
ErrorHandler(s) ==
    /\ Leaves(s, "ErrorHandler") /\ err[s] # Nil
    /\ LET status == ErrorToJSONAPIError(err[s])
       IN  IF ErrorPanics(s, "ErrorHandler") \/ KeepsID(s, status)
           THEN Goto(s, "up", "panicked") /\ UNCHANGED <<depth, err, response>>
           ELSE /\ Shallower(s)
                /\ response' = [response EXCEPT ![s] = ErrorResponse(s, status)]
                /\ err' = [err EXCEPT ![s] = Nil]
    /\ UNCHANGED <<settings, expired, header, token, acting, counted>>

\* goa answers an error that nobody handled.
Leave(s) ==
    /\ depth[s] = 0
    /\ Goto(s, "up", "done")
    /\ response' = IF err[s] = Nil THEN response
                   ELSE [response EXCEPT ![s].status = 500, ![s].detail = "error"]
    /\ UNCHANGED <<settings, expired, depth, header, token, acting, err, counted>>

-----------------------------------------------------------------------------
Down(s) == PassDown(s) \/ AcceptToken(s) \/ RejectToken(s) \/ RejectScheme(s) \/ LogRequest(s) \/ Start(s)
Handle(s) == Succeed(s) \/ Fail(s) \/ Panic(s) \/ Respond(s)
Up(s) == PassUp(s) \/ Count(s) \/ ErrorHandler(s) \/ Leave(s)

Next == Expire \/ Forward \/ Relay \/ \E s \in Services : Down(s) \/ Handle(s) \/ Up(s)

Spec == Init /\ [][Next]_vars

-----------------------------------------------------------------------------
(* Properties.                                                             *)

\* One of the keys that were loaded verifies t.
Verified(t) == \E i \in 1..Len(KeySet) : KeySet[i] = [kid |-> t.kid, key |-> t.signer]

TypeOK ==
    /\ chain \in Chains /\ verbose \in BOOLEAN /\ level \in Levels /\ inHeader \in BOOLEAN /\ expired \in BOOLEAN
    /\ pc \in [Services -> {"idle", "down", "handler", "forwarded", "up", "done", "panicked"}]
    /\ depth \in [Services -> 0..4]
    /\ header \in [Services -> Headers]
    /\ token \in [Services -> Tokens \cup {NoToken}]
    /\ acting \in [Services -> {"nobody", "its-subject"}]
    /\ err \in [Services -> [kind : Errors \cup {"nil"}, wrapped : BOOLEAN]]

\* The token in the context of s is the one of its request, and verified.
ContextIsVerified(s) == token[s] # NoToken => Bearer(token[s]) = header[s] /\ Verified(token[s])

\* What is so at each place of the request to s.
AtPlace(s) ==
    /\ acting[s] # "nobody" => token[s].claims = "full"
    /\ pc[s] \in {"idle", "down", "handler", "forwarded"} => err[s] = Nil
    /\ pc[s] \in {"idle", "down"} => acting[s] = "nobody"
    /\ pc[s] = "idle" => token[s] = NoToken

\* The second request starts late, and with the token of the first.
ForwardedToken ==
    /\ pc["back"] = "idle" => header["back"] = NoHeader
    /\ pc["front"] \in {"down", "handler"} => pc["back"] = "idle"
    /\ header["back"] \in {NoHeader, Bearer(token["front"])}

\* The variables stay in their types; a token in a context is the client's
\* and verified, what is forwarded is such a token, and only errors that
\* ErrorHandler has not seen yet are on their way.
RequestsInv ==
    /\ TypeOK
    /\ \A s \in Services : ContextIsVerified(s) /\ AtPlace(s)
    /\ ForwardedToken

\* A handler acts for the client whose token came with the first request, and
\* only if a key the manager has loaded verifies it; passing the request on
\* changes neither (auth/token.go:199-235, goamiddleware/jwt_token_context.go:27-50,
\* goasupport/forward_signer.go:22-28).
ActsForCaller ==
    \A s \in Services :
        /\ token[s] # NoToken => Bearer(token[s]) = header["front"] /\ Verified(token[s])
        /\ acting[s] # "nobody" => token[s].claims = "full"

\* A token that is refused is answered with 401 and the way to log in,
\* whatever made it invalid, unless the middlewares are in an order that
\* keeps the refusal from ErrorHandler (goamiddleware/jwt_token_context.go:39-44).
RefusalsAre401 ==
    \A s \in Services :
        pc[s] = "done" /\ response[s].login =>
            response[s].status = (IF Outside("ErrorHandler", "TokenContext") THEN 401 ELSE 500)

\* The status a service answered with comes out of the service in front of
\* it, through FromStatusCode, any wrapping, and ErrorHandler; what is none of
\* the five client errors comes out as 500 (errors/errors.go:25-41,
\* jsonapi_errors_converter.go.txt:32-98).
StatusesSurvive ==
    pc["back"] = "done" /\ pc["front"] = "done" =>
        response["front"].status =
            IF response["back"].status \in {200, 400, 401, 403, 404, 409} THEN response["back"].status ELSE 500

\* The Recorder counts a request once, under the class of the status its client
\* gets, or as "0xx" if it is so placed that ErrorHandler writes the status
\* after it (metric/recorder.go:18-36).
CountsMatchAnswers ==
    \A s \in Services :
        pc[s] = "done" =>
            /\ Len(counted[s]) <= 1
            /\ Outside("Recorder", "TokenContext") => Len(counted[s]) = 1
            /\ counted[s] = <<0>> =>
                  Outside("ErrorHandler", "Recorder") \/ Outside("TokenContext", "ErrorHandler")
            /\ counted[s] \in {<<>>, <<0>>, <<Class(response[s].status)>>}

\* A request is cut off by a panic in its handler; by a subject that is no
\* string, if TokenContext has put the token into the context of LogRequest, of
\* an ErrorHandler with an error to log, or of a Recorder that debugs; or by a
\* 5xx of goa if ErrorHandler is not verbose.  No other token or error does that
\* (log/context.go:20-24, log/log.go:124,268, error_handler.go.txt:47-79,
\* metric/recorder.go:62).
PanicsAreKnown ==
    \A s \in Services :
        pc[s] = "panicked" =>
            \/ depth[s] = 4 /\ err[s] = Nil
            \/ /\ Unprintable(token[s])
               /\ \/ Outside("TokenContext", "LogRequest")
                  \/ Outside("TokenContext", "ErrorHandler") /\ level # "fatal" /\ err[s] # Nil
                  \/ Outside("TokenContext", "Recorder") /\ level = "debug"
            \/ ~verbose /\ err[s].kind = "goa-503"

\* "If verbose is false the details of internal errors is not included in HTTP
\* responses" (error_handler.go.txt:33): a quiet ErrorHandler lets none through,
\* in any order of middlewares; only an error of TokenContext above it, which it
\* never sees, is answered by goa as it is.
InternalDetailsHidden ==
    \A s \in Services :
        response[s].detail = "error" /\ Class(response[s].status) = 5 =>
            verbose \/ (err[s] # Nil /\ Outside("TokenContext", "ErrorHandler"))

=============================================================================
