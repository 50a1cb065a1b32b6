--------------------------- MODULE RequestsProofs ---------------------------
(***************************************************************************)
(* Whom a handler acts for, for any keys, tokens and order of middlewares, *)
(* and however often the token's time comes between two services.          *)
(***************************************************************************)
EXTENDS Requests, TLAPS

\* What the key table finds under an ID was loaded under that ID.
LEMMA FoundKeyWasLoaded ==
    ASSUME NEW t, Parses(t)
    PROVE  Verified(t)
<1>1. PICK i \in 1..Len(KeySet) : KeySet[i].kid = t.kid /\ KeySet[i].key = t.signer
  BY DEF Parses, PublicKey
<1>2. KeySet[i] \in [kid : KeyIDs, key : Keys]
  <2> DEFINE S == [kid : KeyIDs, key : Keys]
  <2>1. KeySet \in Seq(S)
    BY RequestsAssumption
  <2> HIDE DEF S
  <2>2. i \in 1..Len(KeySet)
    BY <1>1
  <2>3. KeySet[i] \in S
    BY <2>1, <2>2
  <2>. QED
    BY <2>3 DEF S
<1>. QED
  BY <1>1, <1>2 DEF Verified

\* TokenContext puts only verified tokens into a context.
LEMMA AcceptedIsVerified ==
    ASSUME NEW s \in Services, RequestsInv, AcceptToken(s)
    PROVE  /\ token'[s] \in Tokens \cup {NoToken}
           /\ token'[s] # NoToken => Bearer(token'[s]) = header[s] /\ Verified(token'[s])
<1>1. header[s] \in Headers /\ token'[s] = header[s].token
  BY DEF RequestsInv, TypeOK, AcceptToken
<1>2. header[s] \in {NoHeader, [scheme |-> "basic", token |-> NoToken], Bearer(NoToken)} => token'[s] = NoToken
  BY <1>1 DEF NoHeader, Bearer
<1>3. CASE \E t \in Tokens : header[s] = Bearer(t)
  <2>1. PICK t \in Tokens : header[s] = Bearer(t)
    BY <1>3
  <2>2. header[s].scheme = "bearer" /\ token'[s] = t
    BY <1>1, <2>1 DEF Bearer
  <2>3. Verified(t)
    BY <1>1, <2>2, FoundKeyWasLoaded DEF AcceptToken
  <2>. QED
    BY <2>1, <2>2, <2>3
<1>. QED
  BY <1>1, <1>2, <1>3 DEF Headers

\* A step at one service, as far as the invariant can see it.
StepAt(s) ==
    /\ UNCHANGED <<chain, verbose, level, inHeader, expired, header>>
    /\ pc' = [pc EXCEPT ![s] = pc'[s]]
    /\ depth' = [depth EXCEPT ![s] = depth'[s]]
    /\ token' = [token EXCEPT ![s] = token'[s]]
    /\ acting' = [acting EXCEPT ![s] = acting'[s]]
    /\ err' = [err EXCEPT ![s] = err'[s]]

\* What such a step has to establish.
Allowed(s) ==
    /\ pc[s] # "idle" /\ pc'[s] \in {"down", "handler", "up", "done", "panicked"}
    /\ pc'[s] \in {"down", "handler"} => pc[s] \in {"down", "handler"}
    /\ depth'[s] \in 0..4
    /\ token'[s] = token[s] \/ pc[s] = "down"
    /\ token'[s] \in Tokens \cup {NoToken}
    /\ token'[s] # NoToken => Bearer(token'[s]) = header[s] /\ Verified(token'[s])
    /\ acting'[s] \in {"nobody", "its-subject"}
    /\ acting'[s] # "nobody" => token'[s].claims = "full"
    /\ pc'[s] = "down" => acting'[s] = "nobody"
    /\ err'[s] \in [kind : Errors \cup {"nil"}, wrapped : BOOLEAN]
    /\ pc'[s] \in {"down", "handler"} => err'[s] = Nil

\* A step at one service that is allowed preserves the invariant at both.
LEMMA LocalStep ==
    ASSUME NEW s \in Services, RequestsInv, StepAt(s), Allowed(s)
    PROVE  RequestsInv'
<1>1. TypeOK'
  <2>1. (chain \in Chains /\ verbose \in BOOLEAN /\ level \in Levels /\ inHeader \in BOOLEAN /\ expired \in BOOLEAN)' /\ header' = header
    BY DEF RequestsInv, TypeOK, StepAt, Chains
  <2>2. (pc \in [Services -> {"idle", "down", "handler", "forwarded", "up", "done", "panicked"}])'
    <3> DEFINE PCs == {"idle", "down", "handler", "forwarded", "up", "done", "panicked"}
    <3>1. pc \in [Services -> PCs] /\ pc' = [pc EXCEPT ![s] = pc'[s]]
      BY DEF RequestsInv, TypeOK, StepAt
    <3>2. pc'[s] \in PCs
      BY DEF Allowed
    <3>3. \A x : pc'[s] = x /\ x \in PCs => pc' \in [Services -> PCs]
      <4> HIDE DEF PCs
      <4>. QED
        BY <3>1
    <3>. QED
      BY <3>2, <3>3
  <2>3. (depth \in [Services -> 0..4])'
    BY DEF RequestsInv, TypeOK, StepAt, Allowed
  <2>4. (token \in [Services -> Tokens \cup {NoToken}])'
    BY DEF RequestsInv, TypeOK, StepAt, Allowed
  <2>5. (acting \in [Services -> {"nobody", "its-subject"}])'
    BY DEF RequestsInv, TypeOK, StepAt, Allowed
  <2>6. (err \in [Services -> [kind : Errors \cup {"nil"}, wrapped : BOOLEAN]])'
    BY DEF RequestsInv, TypeOK, StepAt, Allowed
  <2>. QED
    BY <2>1, <2>2, <2>3, <2>4, <2>5, <2>6 DEF RequestsInv, TypeOK
<1>2. ASSUME NEW r \in Services PROVE ContextIsVerified(r)'
  <2>1. header'[r] = header[r] /\ (r # s => token'[r] = token[r])
    BY DEF RequestsInv, TypeOK, StepAt
  <2>. QED
    BY <2>1 DEF RequestsInv, ContextIsVerified, Allowed, Verified
<1>3. ASSUME NEW r \in Services PROVE AtPlace(r)'
  <2>1. r # s => pc'[r] = pc[r] /\ token'[r] = token[r] /\ acting'[r] = acting[r] /\ err'[r] = err[r]
    BY DEF RequestsInv, TypeOK, StepAt
  <2>. QED
    BY <2>1 DEF RequestsInv, AtPlace, Allowed
<1>4. ForwardedToken'
  BY DEF RequestsInv, TypeOK, ForwardedToken, StepAt, Allowed, Services
<1>. QED
  BY <1>1, <1>2, <1>3, <1>4 DEF RequestsInv

\* The facts of the invariant about the service that steps.
InPlace(s) ==
    /\ pc \in [Services -> {"idle", "down", "handler", "forwarded", "up", "done", "panicked"}]
    /\ depth \in [Services -> 0..4]
    /\ token \in [Services -> Tokens \cup {NoToken}]
    /\ acting \in [Services -> {"nobody", "its-subject"}]
    /\ err \in [Services -> [kind : Errors \cup {"nil"}, wrapped : BOOLEAN]]
    /\ token[s] # NoToken => Bearer(token[s]) = header[s] /\ Verified(token[s])
    /\ acting[s] # "nobody" => token[s].claims = "full"
    /\ pc[s] \in {"idle", "down", "handler", "forwarded"} => err[s] = Nil
    /\ pc[s] \in {"idle", "down"} => acting[s] = "nobody"

\* The invariant says that much of every service.
LEMMA TypesHere ==
    ASSUME NEW s \in Services, RequestsInv
    PROVE  InPlace(s)
BY DEF RequestsInv, TypeOK, ContextIsVerified, AtPlace, InPlace

\* A request enters no fifth middleware, and leaves none that it is not in.
LEMMA DepthInRange ==
    ASSUME NEW s \in Services, depth \in [Services -> 0..4],
           \/ depth[s] < 4 /\ Deeper(s)
           \/ depth[s] > 0 /\ Shallower(s)
    PROVE  depth'[s] \in 0..4
<1>1. \/ depth[s] < 4 /\ depth'[s] = depth[s] + 1
      \/ depth[s] > 0 /\ depth'[s] = depth[s] - 1
  BY DEF Deeper, Shallower
<1>2. depth[s] \in 0..4
  OBVIOUS
<1>. QED
  BY <1>1, <1>2

\* On the way down a request gets a verified token or an error.
LEMMA DownStep ==
    ASSUME NEW s \in Services, RequestsInv, Down(s)
    PROVE  RequestsInv'
<1>0. StepAt(s) /\ Allowed(s) => RequestsInv'
  BY LocalStep
<1>t. InPlace(s)
  BY TypesHere
<1>1. CASE PassDown(s)
  <2>1. StepAt(s)
    BY <1>1, <1>t DEF StepAt, PassDown, Enters, Deeper, settings, InPlace
  <2>2. pc'[s] = "down" /\ pc[s] = "down"
    BY <1>1, <1>t DEF PassDown, Enters, Deeper, InPlace
  <2>3. token'[s] = token[s] /\ acting'[s] = acting[s] /\ err'[s] = err[s]
    BY <1>1, <1>t DEF PassDown, Enters, Deeper, InPlace
  <2>4. depth'[s] \in 0..4
    <3>1. depth[s] < 4 /\ Deeper(s)
      BY <1>1 DEF PassDown, Enters
    <3>. QED
      BY <1>t, <3>1, DepthInRange DEF InPlace
  <2>5. Allowed(s)
    BY <2>2, <2>3, <2>4, <1>t DEF Allowed, InPlace
  <2>. QED
    BY <1>0, <2>1, <2>5
<1>2. CASE AcceptToken(s)
  <2>1. StepAt(s)
    BY <1>2, <1>t DEF StepAt, AcceptToken, Enters, Deeper, settings, InPlace
  <2>2. pc'[s] = "down" /\ pc[s] = "down"
    BY <1>2, <1>t DEF AcceptToken, Enters, Deeper, InPlace
  <2>3. acting'[s] = acting[s] /\ err'[s] = err[s]
    BY <1>2, <1>t DEF AcceptToken, Enters, Deeper, InPlace
  <2>4. depth'[s] \in 0..4
    <3>1. depth[s] < 4 /\ Deeper(s)
      BY <1>2 DEF AcceptToken, Enters
    <3>. QED
      BY <1>t, <3>1, DepthInRange DEF InPlace
  <2>6. acting[s] = "nobody"
    BY <1>t, <2>2 DEF InPlace
  <2>7. Allowed(s)
    BY <1>2, AcceptedIsVerified, <2>2, <2>3, <2>4, <2>6, <1>t DEF Allowed, InPlace
  <2>. QED
    BY <1>0, <2>1, <2>7
<1>3. CASE RejectToken(s)
  <2>1. StepAt(s)
    BY <1>3, <1>t DEF StepAt, RejectToken, Goto, Error, Errors, GoaErrors, settings, InPlace
  <2>2. Allowed(s)
    BY <1>3, <1>t DEF Allowed, RejectToken, Goto, Error, Errors, GoaErrors, settings, InPlace
  <2>. QED
    BY <1>0, <2>1, <2>2
<1>4. CASE RejectScheme(s)
  <2>1. StepAt(s)
    BY <1>4, <1>t DEF StepAt, RejectScheme, Goto, Error, Errors, settings, InPlace
  <2>2. Allowed(s)
    BY <1>4, <1>t DEF Allowed, RejectScheme, Goto, Error, Errors, settings, InPlace
  <2>. QED
    BY <1>0, <2>1, <2>2
<1>5. CASE LogRequest(s)
  <2>1. StepAt(s)
    BY <1>5, <1>t DEF StepAt, LogRequest, Goto, Enters, Deeper, settings, InPlace
  <2>2. pc'[s] \in {"down", "panicked"} /\ pc[s] = "down"
    BY <1>5, <1>t DEF LogRequest, Enters, Deeper, Goto, InPlace
  <2>3. token'[s] = token[s] /\ acting'[s] = acting[s] /\ err'[s] = err[s]
    BY <1>5, <1>t DEF LogRequest, Enters, Deeper, Goto, InPlace
  <2>4. depth'[s] \in 0..4
    <3>1. depth[s] < 4 /\ (Deeper(s) \/ depth' = depth)
      BY <1>5 DEF LogRequest, Enters
    <3>. QED
      BY <1>t, <3>1, DepthInRange DEF InPlace
  <2>5. Allowed(s)
    BY <2>2, <2>3, <2>4, <1>t DEF Allowed, InPlace
  <2>. QED
    BY <1>0, <2>1, <2>5
<1>6. CASE Start(s)
  <2>1. StepAt(s)
    BY <1>6, <1>t DEF StepAt, Start, Goto, Locate, settings, InPlace
  <2>2. Allowed(s)
    BY <1>6, <1>t DEF Allowed, Start, Goto, Locate, settings, InPlace
  <2>. QED
    BY <1>0, <2>1, <2>2
<1>. QED
  BY <1>1, <1>2, <1>3, <1>4, <1>5, <1>6 DEF Down

\* A handler changes neither its token nor whom it acts for.
LEMMA HandleStep ==
    ASSUME NEW s \in Services, RequestsInv, Handle(s)
    PROVE  RequestsInv'
<1>0. StepAt(s) /\ Allowed(s) => RequestsInv'
  BY LocalStep
<1>t. InPlace(s)
  BY TypesHere
<1>1. CASE Succeed(s)
  <2>1. StepAt(s)
    BY <1>1, <1>t DEF StepAt, Succeed, Goto, settings, InPlace
  <2>2. Allowed(s)
    BY <1>1, <1>t DEF Allowed, Succeed, Goto, settings, InPlace
  <2>. QED
    BY <1>0, <2>1, <2>2
<1>2. CASE Fail(s)
  <2>1. StepAt(s)
    BY <1>2, <1>t DEF StepAt, Fail, Goto, Error, settings, InPlace
  <2>2. pc'[s] = "up" /\ pc[s] = "handler"
    BY <1>2, <1>t DEF Fail, Goto, InPlace
  <2>3. depth'[s] = depth[s] /\ token'[s] = token[s] /\ acting'[s] = acting[s]
    BY <1>2, <1>t DEF Fail, Goto, InPlace
  <2>5. err'[s] \in [kind : Errors \cup {"nil"}, wrapped : BOOLEAN]
    <3>1. PICK kind \in Errors, wrapped \in BOOLEAN : err' = [err EXCEPT ![s] = Error(kind, wrapped)]
      BY <1>2 DEF Fail
    <3>2. err'[s] = Error(kind, wrapped)
      BY <1>t, <3>1 DEF InPlace
    <3>. QED
      BY <3>1, <3>2 DEF Error
  <2>6. Allowed(s)
    BY <2>2, <2>3, <2>5, <1>t DEF Allowed, InPlace
  <2>. QED
    BY <1>0, <2>1, <2>6
<1>3. CASE Panic(s)
  <2>1. StepAt(s)
    BY <1>3, <1>t DEF StepAt, Panic, Goto, settings, requestVars, InPlace
  <2>2. Allowed(s)
    BY <1>3, <1>t DEF Allowed, Panic, Goto, settings, requestVars, InPlace
  <2>. QED
    BY <1>0, <2>1, <2>2
<1>4. CASE Respond(s)
  <2>0. /\ Goto(s, "handler", "up") \/ Goto(s, "handler", "panicked")
        /\ UNCHANGED <<settings, expired, depth, header, token, acting, err>>
    BY <1>4 DEF Respond
  <2>1. StepAt(s)
    BY <1>t, <2>0 DEF StepAt, Goto, settings, InPlace
  <2>2. pc'[s] \in {"up", "panicked"} /\ pc[s] = "handler"
    BY <1>t, <2>0 DEF Goto, InPlace
  <2>3. depth'[s] = depth[s] /\ token'[s] = token[s] /\ acting'[s] = acting[s] /\ err'[s] = err[s]
    BY <2>0
  <2>4. Allowed(s)
    BY <2>2, <2>3, <1>t DEF Allowed, InPlace
  <2>. QED
    BY <1>0, <2>1, <2>4
<1>. QED
  BY <1>1, <1>2, <1>3, <1>4 DEF Handle

\* On the way up only errors change.
LEMMA UpStep ==
    ASSUME NEW s \in Services, RequestsInv, Up(s)
    PROVE  RequestsInv'
<1>0. StepAt(s) /\ Allowed(s) => RequestsInv'
  BY LocalStep
<1>t. InPlace(s)
  BY TypesHere
<1>1. CASE PassUp(s)
  <2>1. StepAt(s)
    BY <1>1, <1>t DEF StepAt, PassUp, Leaves, Shallower, settings, InPlace
  <2>2. pc'[s] = "up" /\ pc[s] = "up"
    BY <1>1, <1>t DEF PassUp, Leaves, Shallower, InPlace
  <2>3. token'[s] = token[s] /\ acting'[s] = acting[s] /\ err'[s] = err[s]
    BY <1>1, <1>t DEF PassUp, Leaves, Shallower, InPlace
  <2>4. depth'[s] \in 0..4
    <3>1. depth[s] > 0 /\ Shallower(s)
      BY <1>1 DEF PassUp, Leaves
    <3>. QED
      BY <1>t, <3>1, DepthInRange DEF InPlace
  <2>5. Allowed(s)
    BY <2>2, <2>3, <2>4, <1>t DEF Allowed, InPlace
  <2>. QED
    BY <1>0, <2>1, <2>5
<1>2. CASE Count(s)
  <2>1. StepAt(s)
    BY <1>2, <1>t DEF StepAt, Count, Leaves, Shallower, Goto, settings, InPlace
  <2>2. pc'[s] \in {"up", "panicked"} /\ pc[s] = "up"
    BY <1>2, <1>t DEF Count, Leaves, Shallower, Goto, InPlace
  <2>3. token'[s] = token[s] /\ acting'[s] = acting[s] /\ err'[s] = err[s]
    BY <1>2, <1>t DEF Count, Leaves, Shallower, Goto, InPlace
  <2>4. depth'[s] \in 0..4
    <3>1. depth[s] > 0 /\ (Shallower(s) \/ depth' = depth)
      BY <1>2 DEF Count, Leaves
    <3>. QED
      BY <1>t, <3>1, DepthInRange DEF InPlace
  <2>5. Allowed(s)
    BY <2>2, <2>3, <2>4, <1>t DEF Allowed, InPlace
  <2>. QED
    BY <1>0, <2>1, <2>5
<1>3. CASE ErrorHandler(s)
  <2>1. StepAt(s)
    BY <1>3, <1>t DEF StepAt, ErrorHandler, Leaves, Shallower, Goto, Nil, Error, settings, InPlace
  <2>2. pc'[s] \in {"up", "panicked"} /\ pc[s] = "up"
    BY <1>3, <1>t DEF ErrorHandler, Leaves, Shallower, Goto, InPlace
  <2>3. token'[s] = token[s] /\ acting'[s] = acting[s]
    BY <1>3, <1>t DEF ErrorHandler, Leaves, Shallower, Goto, InPlace
  <2>4. depth'[s] \in 0..4
    <3>1. depth[s] > 0 /\ (Shallower(s) \/ depth' = depth)
      BY <1>3 DEF ErrorHandler, Leaves
    <3>. QED
      BY <1>t, <3>1, DepthInRange DEF InPlace
  <2>5. err'[s] \in [kind : Errors \cup {"nil"}, wrapped : BOOLEAN]
    <3>1. err' = err \/ err' = [err EXCEPT ![s] = Nil]
      BY <1>3 DEF ErrorHandler
    <3>2. err'[s] = err[s] \/ err'[s] = Nil
      BY <1>t, <3>1 DEF InPlace
    <3>3. err[s] \in [kind : Errors \cup {"nil"}, wrapped : BOOLEAN]
      BY <1>t DEF InPlace
    <3>4. Nil \in [kind : Errors \cup {"nil"}, wrapped : BOOLEAN]
      BY DEF Error, Nil
    <3>. QED
      BY <3>2, <3>3, <3>4
  <2>6. Allowed(s)
    BY <2>2, <2>3, <2>4, <2>5, <1>t DEF Allowed, InPlace
  <2>. QED
    BY <1>0, <2>1, <2>6
<1>4. CASE Leave(s)
  <2>1. StepAt(s)
    BY <1>4, <1>t DEF StepAt, Leave, Goto, settings, InPlace
  <2>2. Allowed(s)
    BY <1>4, <1>t DEF Allowed, Leave, Goto, settings, InPlace
  <2>. QED
    BY <1>0, <2>1, <2>2
<1>. QED
  BY <1>1, <1>2, <1>3, <1>4 DEF Up

\* Passing a request on gives it the token of the first.
LEMMA ForwardStep ==
    ASSUME RequestsInv, Forward
    PROVE  RequestsInv'
<1>1. ForwardSigner \in Headers /\ ForwardSigner \in {NoHeader, Bearer(token["front"])}
  BY DEF ForwardSigner, Headers, RequestsInv, TypeOK, Services
<1>2. TypeOK'
  BY <1>1 DEF RequestsInv, TypeOK, Forward, settings
<1>3. ASSUME NEW r \in Services PROVE ContextIsVerified(r)'
  <2>1. token' = token /\ (r # "back" => header'[r] = header[r])
    BY DEF RequestsInv, TypeOK, Forward
  <2>2. token["back"] = NoToken
    BY DEF RequestsInv, AtPlace, Forward, Services
  <2>. QED
    BY <2>1, <2>2 DEF RequestsInv, ContextIsVerified, Verified
<1>4. ASSUME NEW r \in Services PROVE AtPlace(r)'
  BY DEF RequestsInv, TypeOK, AtPlace, Forward, Services
<1>5. ForwardedToken'
  BY <1>1 DEF RequestsInv, TypeOK, ForwardedToken, Forward, Services
<1>. QED
  BY <1>2, <1>3, <1>4, <1>5 DEF RequestsInv

\* The answer of the second service changes only what the first one returns.
LEMMA RelayStep ==
    ASSUME RequestsInv, Relay
    PROVE  RequestsInv'
<1>1. "front" \in Services
  BY DEF Services
<1>2. InPlace("front")
  BY <1>1, TypesHere
<1>3. StepAt("front")
  <2>1. err' = [err EXCEPT !["front"] = err'["front"]]
    BY <1>1, <1>2 DEF InPlace, Relay
  <2>2. pc' = [pc EXCEPT !["front"] = pc'["front"]]
    BY <1>1, <1>2 DEF InPlace, Relay, Goto
  <2>3. UNCHANGED <<chain, verbose, level, inHeader, expired, header, depth, token, acting>>
    BY DEF Relay, settings
  <2>. QED
    BY <1>1, <1>2, <2>1, <2>2, <2>3 DEF InPlace, StepAt
<1>4. FromStatusCode(response["back"].status) \in Errors
  BY DEF FromStatusCode, Errors, OwnErrors
<1>5. Allowed("front")
  <2>1. pc'["front"] = "up" /\ pc["front"] = "forwarded"
    BY <1>1, <1>2 DEF InPlace, Relay, Goto
  <2>2. depth' = depth /\ token' = token /\ acting' = acting
    BY DEF Relay
  <2>3. err'["front"] \in [kind : Errors \cup {"nil"}, wrapped : BOOLEAN]
    <3>1. PICK kind \in Errors, wrapped \in BOOLEAN : err' = err \/ err' = [err EXCEPT !["front"] = Error(kind, wrapped)]
      BY <1>4 DEF Relay, Errors
    <3>2. err'["front"] = err["front"] \/ err'["front"] = Error(kind, wrapped)
      BY <1>1, <1>2, <3>1 DEF InPlace
    <3>3. err["front"] \in [kind : Errors \cup {"nil"}, wrapped : BOOLEAN]
      BY <1>1, <1>2 DEF InPlace
    <3>4. Error(kind, wrapped) \in [kind : Errors \cup {"nil"}, wrapped : BOOLEAN]
      BY <3>1 DEF Error
    <3>. QED
      BY <3>2, <3>3, <3>4
  <2>. QED
    BY <1>1, <1>2, <2>1, <2>2, <2>3 DEF InPlace, Allowed
<1>. QED
  BY <1>1, <1>3, <1>5, LocalStep

\* Every step of a middleware, a handler or goa preserves the invariant.
LEMMA RequestStep ==
    RequestsInv /\ [Next]_vars => RequestsInv'
<1> SUFFICES ASSUME RequestsInv, [Next]_vars PROVE RequestsInv'
  OBVIOUS
<1>1. CASE UNCHANGED vars
  BY <1>1 DEF vars, settings, requestVars, RequestsInv, TypeOK, ContextIsVerified, AtPlace, ForwardedToken, Verified
<1>2. CASE Expire
  BY <1>2 DEF Expire, settings, requestVars, RequestsInv, TypeOK, ContextIsVerified, AtPlace, ForwardedToken, Verified
<1>. QED
  BY <1>1, <1>2, ForwardStep, RelayStep, DownStep, HandleStep, UpStep DEF Next

\* The invariant of the requests holds in every state.
THEOREM Invariance == Spec => []RequestsInv
<1>1. Init => RequestsInv
  BY DEF Init, RequestsInv, TypeOK, ContextIsVerified, AtPlace, ForwardedToken, Services, Headers, NoHeader, Nil, Error
<1>. QED
  BY <1>1, RequestStep, PTL DEF Spec

\* Handlers act for the client of the first request or for nobody.
THEOREM CallerOnly == Spec => []ActsForCaller
<1>1. RequestsInv => ActsForCaller
  <2> SUFFICES ASSUME RequestsInv PROVE ActsForCaller
    OBVIOUS
  <2>1. token["front"] # NoToken => Bearer(token["front"]) = header["front"] /\ Verified(token["front"])
    BY DEF RequestsInv, TypeOK, ContextIsVerified, AtPlace, ForwardedToken, Services
  <2>2. token["back"] # NoToken => token["back"] = token["front"]
    <3>1. "back" \in Services
      BY DEF Services
    <3>2. token["back"] # NoToken => Bearer(token["back"]) = header["back"]
      BY <3>1 DEF RequestsInv, ContextIsVerified
    <3>3. header["back"] \in {NoHeader, Bearer(token["front"])}
      BY DEF RequestsInv, ForwardedToken
    <3>4. Bearer(token["back"]) # NoHeader
      BY DEF Bearer, NoHeader
    <3>5. Bearer(token["back"]) = Bearer(token["front"]) => token["back"] = token["front"]
      BY DEF Bearer
    <3>. QED
      BY <3>2, <3>3, <3>4, <3>5
  <2>3. \A s \in Services : acting[s] # "nobody" => token[s].claims = "full"
    BY DEF RequestsInv, AtPlace
  <2>. QED
    BY <2>1, <2>2, <2>3 DEF ActsForCaller, Services
<1>. QED
  BY <1>1, Invariance, PTL

-----------------------------------------------------------------------------
(* What comes back: which status, what is counted, what panics.            *)

Statuses == {0, 200, 400, 401, 403, 404, 409, 500, 503}
Responses ==
    [status : Statuses, detail : {"none", "result", "handler", "internal", "error"},
     login : BOOLEAN, id : {"none", "original"}]
Counts == {<<>>} \cup {<<class>> : class \in 0..5}

\* Until a request turns round nothing is answered or counted, and it has a
\* token only below TokenContext.
OnTheWayDown(s) ==
    pc[s] \in {"idle", "down", "handler", "forwarded"} =>
        /\ response[s] = NoResponse /\ counted[s] = <<>>
        /\ pc[s] \in {"handler", "forwarded"} => depth[s] = 4
        /\ token[s] # NoToken => Pos("TokenContext") <= depth[s]

\* On the way up there is an error or a status.  An error has not met
\* ErrorHandler; if it is above it, TokenContext made it even further up.
\* What is recorded is final, or the error was there.
OnTheWayUp(s) ==
    pc[s] = "up" =>
        /\ err[s] = Nil => response[s].status # 0
        /\ err[s] # Nil =>
              err[s].kind \in Errors /\ response[s].status = 0 /\ response[s].detail = "none"
        /\ err[s] # Nil /\ depth[s] < Pos("ErrorHandler") => Outside("TokenContext", "ErrorHandler")
        /\ response[s].login => depth[s] < Pos("TokenContext")
        /\ response[s].login /\ err[s] # Nil => err[s].kind = "goa-401"
        /\ response[s].login /\ err[s] = Nil =>
              response[s].status = 401 /\ Outside("ErrorHandler", "TokenContext")
        /\ response[s].detail = "error" /\ Class(response[s].status) = 5 => verbose
        /\ depth[s] >= Pos("Recorder") => counted[s] = <<>>
        /\ depth[s] < Pos("Recorder") /\ counted[s] = <<>> => Outside("TokenContext", "Recorder")
        /\ counted[s] \in {<<>>, <<0>>, <<Class(response[s].status)>>}
        /\ counted[s] = <<0>> =>
              Outside("ErrorHandler", "Recorder") \/ Outside("TokenContext", "ErrorHandler")
        /\ err[s] # Nil => counted[s] \in {<<>>, <<0>>}

\* What the properties say of a request that is over.
Over(s) ==
    /\ pc[s] = "done" =>
        /\ response[s].login =>
              response[s].status = (IF Outside("ErrorHandler", "TokenContext") THEN 401 ELSE 500)
        /\ response[s].detail = "error" /\ Class(response[s].status) = 5 =>
              verbose \/ (err[s] # Nil /\ Outside("TokenContext", "ErrorHandler"))
        /\ counted[s] = <<>> => Outside("TokenContext", "Recorder")
        /\ counted[s] \in {<<>>, <<0>>, <<Class(response[s].status)>>}
        /\ counted[s] = <<0>> =>
              Outside("ErrorHandler", "Recorder") \/ Outside("TokenContext", "ErrorHandler")
    /\ pc[s] = "panicked" =>
        /\ response[s].detail = "error" /\ Class(response[s].status) = 5 => verbose
        /\ \/ depth[s] = 4 /\ err[s] = Nil
           \/ /\ Unprintable(token[s])
              /\ \/ Outside("TokenContext", "LogRequest")
                 \/ Outside("TokenContext", "ErrorHandler") /\ level # "fatal" /\ err[s] # Nil
                 \/ Outside("TokenContext", "Recorder") /\ level = "debug"
           \/ ~verbose /\ err[s].kind = "goa-503"

\* The status that comes out of the first service for one of the second.
Survivor(status) == IF status \in {200, 400, 401, 403, 404, 409} THEN status ELSE 500

\* While the second service works the first one waits; then it has the status,
\* or an error of that status that ErrorHandler has still to see.
Relayed ==
    /\ pc["front"] = "forwarded" => pc["back"] # "idle"
    /\ pc["back"] \notin {"idle", "done", "panicked"} => pc["front"] = "forwarded"
    /\ pc["back"] = "done" /\ pc["front"] \in {"up", "done"} =>
        /\ pc["front"] = "done" \/ err["front"] = Nil =>
              response["front"].status = Survivor(response["back"].status)
        /\ pc["front"] = "up" /\ err["front"] # Nil =>
              /\ depth["front"] >= Pos("ErrorHandler")
              /\ err["front"].kind \in OwnErrors
              /\ StatusOf[err["front"].kind] = Survivor(response["back"].status)

\* The inductive invariant of answers; what RequestsInv says is used with it.
AnswersInv ==
    /\ response \in [Services -> Responses]
    /\ counted \in [Services -> Counts]
    /\ \A s \in Services : OnTheWayDown(s) /\ OnTheWayUp(s) /\ Over(s)
    /\ Relayed

-----------------------------------------------------------------------------
(* Positions in the chain.                                                 *)

\* Where the four middlewares are, and what entering and leaving one means.
Placed(s) ==
    /\ \A m \in Middlewares : Pos(m) \in 1..4
    /\ \A m, n \in Middlewares : Pos(m) = Pos(n) => m = n
    /\ \A m \in Middlewares : /\ Enters(s, m) => depth[s] + 1 = Pos(m)
                              /\ Leaves(s, m) => depth[s] = Pos(m)

\* Every chain has each middleware at exactly one position.
LEMMA ChainIsOrder ==
    ASSUME RequestsInv, NEW s \in Services
    PROVE  Placed(s)
<1>1. chain \in [1..4 -> Middlewares] /\ \A i, j \in 1..4 : chain[i] = chain[j] => i = j
  <2>1. chain \in Chains
    BY DEF RequestsInv, TypeOK
  <2>. QED
    BY <2>1 DEF Chains
<1>2. ASSUME NEW m \in Middlewares PROVE \E i \in 1..4 : chain[i] = m
  <2>1. /\ chain[1] \in Middlewares /\ chain[2] \in Middlewares
        /\ chain[3] \in Middlewares /\ chain[4] \in Middlewares
    BY <1>1
  <2>2. /\ chain[1] # chain[2] /\ chain[1] # chain[3] /\ chain[1] # chain[4]
        /\ chain[2] # chain[3] /\ chain[2] # chain[4] /\ chain[3] # chain[4]
    BY <1>1
  <2>3. m = chain[1] \/ m = chain[2] \/ m = chain[3] \/ m = chain[4]
    BY <1>2, <2>1, <2>2 DEF Middlewares
  <2>. QED
    BY <2>3
<1>3. ASSUME NEW m \in Middlewares PROVE Pos(m) \in 1..4 /\ chain[Pos(m)] = m
  BY <1>2 DEF Pos
<1>4. ASSUME NEW m \in Middlewares, NEW i \in 1..4, chain[i] = m PROVE i = Pos(m)
  BY <1>1, <1>3, <1>4
<1>5. depth[s] \in 0..4
  BY TypesHere DEF InPlace
<1>6. ASSUME NEW m \in Middlewares, Enters(s, m) PROVE depth[s] + 1 = Pos(m)
  <2>1. depth[s] + 1 \in 1..4 /\ chain[depth[s] + 1] = m
    BY <1>5, <1>6 DEF Enters
  <2>. QED
    BY <1>4, <2>1
<1>7. ASSUME NEW m \in Middlewares, Leaves(s, m) PROVE depth[s] = Pos(m)
  <2>1. depth[s] \in 1..4 /\ chain[depth[s]] = m
    BY <1>5, <1>7 DEF Leaves
  <2>. QED
    BY <1>4, <2>1
<1>. QED
  BY <1>3, <1>6, <1>7 DEF Placed

\* Nothing moves them.
LEMMA ChainStays ==
    ASSUME chain' = chain
    PROVE  /\ \A m \in Middlewares : Pos(m)' = Pos(m)
           /\ \A m, n \in Middlewares : Outside(m, n)' = Outside(m, n)
BY DEF Pos, Outside

-----------------------------------------------------------------------------
(* A step at one service.                                                  *)

\* The rest of what such a step leaves alone.
AnswerStepAt(s) ==
    /\ UNCHANGED <<chain, verbose, level>>
    /\ \A r \in Services \ {s} :
          /\ pc'[r] = pc[r] /\ depth'[r] = depth[r] /\ token'[r] = token[r] /\ err'[r] = err[r]
          /\ response'[r] = response[r] /\ counted'[r] = counted[r]
    /\ response' \in [Services -> Responses]
    /\ counted' \in [Services -> Counts]

\* What a step at one service has to establish.
LEMMA AnswerFrame ==
    ASSUME NEW s \in Services, AnswersInv, AnswerStepAt(s),
           OnTheWayDown(s)', OnTheWayUp(s)', Over(s)', Relayed'
    PROVE  AnswersInv'
<1>1. ASSUME NEW r \in Services \ {s} PROVE OnTheWayDown(r)' /\ OnTheWayUp(r)' /\ Over(r)'
  <2>1. OnTheWayDown(r) /\ OnTheWayUp(r) /\ Over(r)
    BY DEF AnswersInv
  <2>2. /\ pc'[r] = pc[r] /\ depth'[r] = depth[r] /\ token'[r] = token[r] /\ err'[r] = err[r]
        /\ response'[r] = response[r] /\ counted'[r] = counted[r]
        /\ chain' = chain /\ verbose' = verbose /\ level' = level
    BY DEF AnswerStepAt
  <2>3. \A m, n \in Middlewares : Pos(m)' = Pos(m) /\ Outside(m, n)' = Outside(m, n)
    BY <2>2, ChainStays
  <2>4. OnTheWayDown(r)'
    BY <2>1, <2>2, <2>3 DEF OnTheWayDown, Middlewares
  <2>5. OnTheWayUp(r)'
    BY <2>1, <2>2, <2>3 DEF OnTheWayUp, Middlewares, Class, Nil, Error
  <2>6. Over(r)'
    BY <2>1, <2>2, <2>3 DEF Over, Middlewares, Class, Nil, Error, Unprintable
  <2>. QED
    BY <2>4, <2>5, <2>6
<1>. QED
  BY <1>1 DEF AnswersInv, AnswerStepAt

\* A step at the second service finds the first one waiting; a step at the
\* first one matters only on its way up.
LEMMA RelayedFrame ==
    ASSUME NEW s \in Services, RequestsInv, AnswersInv, AnswerStepAt(s),
           pc[s] \in {"down", "handler", "up"},
           pc'[s] \in {"down", "handler", "up", "done", "panicked"},
           s = "front" /\ pc[s] = "up" /\ pc["back"] = "done" /\ pc'[s] \in {"up", "done"} =>
               /\ pc'[s] = "done" \/ err'[s] = Nil =>
                     response'[s].status = Survivor(response["back"].status)
               /\ pc'[s] = "up" /\ err'[s] # Nil =>
                     /\ depth'[s] >= Pos("ErrorHandler")
                     /\ err'[s].kind \in OwnErrors
                     /\ StatusOf[err'[s].kind] = Survivor(response["back"].status)
    PROVE  Relayed'
<1>1. Relayed
  BY DEF AnswersInv
<1>2. Pos("ErrorHandler")' = Pos("ErrorHandler")
  BY ChainStays DEF AnswerStepAt, Middlewares
<1>3. CASE s = "back"
  <2>1. pc["front"] = "forwarded" /\ pc'["front"] = "forwarded"
    BY <1>1, <1>3 DEF Relayed, AnswerStepAt, Services
  <2>. QED
    BY <1>3, <2>1 DEF Relayed
<1>4. CASE s = "front"
  <2>1. pc'["back"] = pc["back"] /\ response'["back"] = response["back"]
    BY <1>4 DEF AnswerStepAt, Services
  <2>2. pc["back"] \in {"idle", "done", "panicked"}
    BY <1>1, <1>4 DEF Relayed
  <2>3. pc[s] \in {"down", "handler"} => pc["back"] = "idle"
    BY <1>4 DEF RequestsInv, ForwardedToken
  <2>. QED
    BY <1>2, <1>4, <2>1, <2>2, <2>3 DEF Relayed
<1>. QED
  BY <1>3, <1>4 DEF Services

\* What is known of the service that steps.
AnswersHere(s) ==
    /\ pc \in [Services -> {"idle", "down", "handler", "forwarded", "up", "done", "panicked"}]
    /\ depth \in [Services -> 0..4]
    /\ token \in [Services -> Tokens \cup {NoToken}]
    /\ err \in [Services -> [kind : Errors \cup {"nil"}, wrapped : BOOLEAN]]
    /\ response \in [Services -> Responses]
    /\ counted \in [Services -> Counts]
    /\ pc[s] \in {"idle", "down", "handler", "forwarded"} => err[s] = Nil
    /\ Placed(s) /\ OnTheWayDown(s) /\ OnTheWayUp(s) /\ Over(s)

\* The two invariants say that much of every service.
LEMMA AnswersKnown ==
    ASSUME NEW s \in Services, RequestsInv, AnswersInv
    PROVE  AnswersHere(s)
BY TypesHere, ChainIsOrder DEF InPlace, AnswersInv, AnswersHere

\* On the way down nothing is answered; a refusal turns round with an error
\* above TokenContext, and a token is in the context only below it.
LEMMA AnswerDown ==
    ASSUME NEW s \in Services, RequestsInv, AnswersInv, Down(s)
    PROVE  AnswersInv'
<1>t. AnswersHere(s)
  BY AnswersKnown
<1>0. AnswerStepAt(s) /\ pc[s] = "down" /\ pc'[s] \in {"down", "handler", "up", "panicked"}
  <2> USE <1>t DEF AnswersHere, AnswerStepAt, settings, Deeper, Goto
  <2>1. CASE PassDown(s)
    BY <2>1 DEF PassDown
  <2>2. CASE AcceptToken(s)
    BY <2>2 DEF AcceptToken
  <2>3. CASE RejectToken(s)
    <3>1. [response[s] EXCEPT !.login = TRUE] \in Responses
      BY DEF Responses
    <3>2. response' = [response EXCEPT ![s] = [response[s] EXCEPT !.login = TRUE]]
      BY <2>3 DEF RejectToken
    <3>3. response' \in [Services -> Responses] /\ \A r \in Services \ {s} : response'[r] = response[r]
      BY <3>1, <3>2
    <3>. QED
      BY <2>3, <3>3 DEF RejectToken
  <2>4. CASE RejectScheme(s)
    BY <2>4 DEF RejectScheme
  <2>5. CASE LogRequest(s)
    BY <2>5 DEF LogRequest
  <2>6. CASE Start(s)
    BY <2>6 DEF Start
  <2>. QED
    BY <2>1, <2>2, <2>3, <2>4, <2>5, <2>6 DEF Down
<1>1. Relayed'
  BY <1>0, RelayedFrame
<1>p. /\ \A m \in Middlewares : Pos(m)' = Pos(m) /\ Pos(m) \in 1..4
      /\ \A m, n \in Middlewares : Outside(m, n)' = Outside(m, n)
      /\ \A m, n \in Middlewares : Pos(m) = Pos(n) => m = n
  BY <1>0, <1>t, ChainStays DEF AnswerStepAt, AnswersHere, Placed
<1>r. /\ response[s] = NoResponse /\ counted[s] = <<>> /\ err[s] = Nil
      /\ token[s] # NoToken => Pos("TokenContext") <= depth[s]
      /\ depth[s] \in 0..4
  BY <1>0, <1>t DEF AnswersHere, OnTheWayDown
<1>2. CASE PassDown(s) \/ AcceptToken(s) \/ (LogRequest(s) /\ pc'[s] = "down") \/ Start(s)
  <2>1. /\ pc'[s] \in {"down", "handler"} /\ response' = response /\ counted' = counted
    BY <1>2, <1>t, <1>0 DEF AnswersHere, PassDown, AcceptToken, LogRequest, Start, Deeper, Goto
  <2>2. pc'[s] = "handler" => depth'[s] = 4
    BY <1>2, <1>t, <1>0 DEF AnswersHere, PassDown, AcceptToken, LogRequest, Start, Deeper, Goto
  <2>3. token'[s] # NoToken => Pos("TokenContext") <= depth'[s]
    <3>1. CASE AcceptToken(s)
      BY <1>t, <3>1 DEF AcceptToken, Deeper, AnswersHere, Placed, Middlewares
    <3>2. CASE ~AcceptToken(s)
      <4>1. token' = token /\ (depth'[s] = depth[s] + 1 \/ depth'[s] = depth[s])
        BY <1>2, <1>t, <3>2 DEF AnswersHere, PassDown, LogRequest, Start, Deeper, Goto
      <4>2. Pos("TokenContext") \in 1..4
        BY <1>p DEF Middlewares
      <4>. QED
        BY <1>r, <4>1, <4>2
    <3>. QED
      BY <3>1, <3>2
  <2>4. OnTheWayDown(s)'
    BY <1>p, <1>r, <2>1, <2>2, <2>3 DEF OnTheWayDown, Middlewares
  <2>5. OnTheWayUp(s)' /\ Over(s)'
    BY <2>1 DEF OnTheWayUp, Over
  <2>. QED
    BY <1>0, <1>1, <2>4, <2>5, AnswerFrame
<1>3. CASE RejectToken(s) \/ RejectScheme(s)
  <2>1. /\ pc'[s] = "up" /\ counted'[s] = <<>> /\ depth'[s] = depth[s]
        /\ err'[s] = Error("goa-401", FALSE) \/ err'[s] = Error("other", FALSE)
        /\ response'[s].login => err'[s].kind = "goa-401"
        /\ response'[s].status = 0 /\ response'[s].detail = "none"
    <3>1. CASE RejectToken(s)
      <4>1. /\ pc' = [pc EXCEPT ![s] = "up"] /\ UNCHANGED <<counted, depth>>
            /\ err' = [err EXCEPT ![s] = Error("goa-401", FALSE)]
            /\ response' = [response EXCEPT ![s] = [NoResponse EXCEPT !.login = TRUE]]
        BY <1>r, <3>1 DEF RejectToken, Goto
      <4>2. /\ pc'[s] = "up" /\ err'[s] = Error("goa-401", FALSE)
            /\ response'[s] = [NoResponse EXCEPT !.login = TRUE]
        BY <1>t, <4>1 DEF AnswersHere
      <4>. QED
        BY <1>r, <4>1, <4>2 DEF NoResponse, Error
    <3>2. CASE RejectScheme(s)
      <4>1. /\ pc' = [pc EXCEPT ![s] = "up"] /\ UNCHANGED <<counted, depth, response>>
            /\ err' = [err EXCEPT ![s] = Error("other", FALSE)]
        BY <3>2 DEF RejectScheme, Goto
      <4>2. pc'[s] = "up" /\ err'[s] = Error("other", FALSE)
        BY <1>t, <4>1 DEF AnswersHere
      <4>3. response'[s] = NoResponse /\ counted'[s] = <<>> /\ depth'[s] = depth[s]
        BY <1>r, <4>1
      <4>4. NoResponse.status = 0 /\ NoResponse.detail = "none" /\ ~NoResponse.login
        BY DEF NoResponse
      <4>. QED
        BY <4>2, <4>3, <4>4, Zenon
    <3>. QED
      BY <1>3, <3>1, <3>2
  <2>2. depth'[s] + 1 = Pos("TokenContext")
    BY <1>3, <1>t, <2>1 DEF AnswersHere, RejectToken, RejectScheme, Placed, Middlewares
  <2>3. err'[s] # Nil /\ err'[s].kind \in Errors
    BY <2>1 DEF Nil, Error, Errors, GoaErrors
  <2>4. OnTheWayUp(s)'
    BY <1>p, <1>r, <2>1, <2>2, <2>3 DEF OnTheWayUp, Middlewares, Outside, Class
  <2>5. OnTheWayDown(s)' /\ Over(s)'
    BY <2>1 DEF OnTheWayDown, Over
  <2>. QED
    BY <1>0, <1>1, <2>4, <2>5, AnswerFrame
<1>4. CASE LogRequest(s) /\ pc'[s] # "down"
  <2>1. /\ pc'[s] = "panicked" /\ UNCHANGED <<response, token>>
        /\ depth[s] + 1 = Pos("LogRequest") /\ Unprintable(token[s])
    BY <1>4, <1>t, <1>0 DEF AnswersHere, LogRequest, Deeper, Goto, Placed, Middlewares
  <2>2. Outside("TokenContext", "LogRequest")
    <3>1. token[s] # NoToken
      BY <2>1 DEF NoToken, Unprintable
    <3>. QED
      BY <1>p, <1>r, <2>1, <3>1 DEF Outside, Middlewares
  <2>3. Over(s)'
    BY <1>p, <1>r, <2>1, <2>2 DEF Over, NoResponse, Middlewares, Unprintable
  <2>4. OnTheWayDown(s)' /\ OnTheWayUp(s)'
    BY <2>1 DEF OnTheWayDown, OnTheWayUp
  <2>. QED
    BY <1>0, <1>1, <2>3, <2>4, AnswerFrame
<1>. QED
  BY <1>2, <1>3, <1>4 DEF Down

\* An answer has a status, and nothing else changes in the response.
LEMMA AnswerWrites ==
    ASSUME NEW s \in Services, response \in [Services -> Responses], response[s] = NoResponse,
           NEW status \in Statuses \ {0}, NEW detail \in {"result", "handler"},
           Answer(s, status, detail)
    PROVE  /\ response' = [response EXCEPT ![s] = response'[s]]
           /\ response'[s] \in Responses /\ ~response'[s].login
           /\ response'[s].status = status /\ response'[s].status # 0
           /\ response'[s].detail = detail /\ response'[s].detail # "error"
<1>1. response' = [response EXCEPT ![s] = [response[s] EXCEPT !.status = status, !.detail = detail]]
  BY DEF Answer
<1>2. response'[s] = [NoResponse EXCEPT !.status = status, !.detail = detail]
  BY <1>1
<1>3. /\ response'[s] \in Responses /\ ~response'[s].login
      /\ response'[s].status = status /\ response'[s].detail = detail
  BY <1>2 DEF NoResponse, Responses
<1>4. status # 0
  OBVIOUS
<1>. QED
  BY <1>1, <1>2, <1>3, <1>4

\* A handler turns the request round with a status or an error, at the end of
\* the chain, or panics there.
LEMMA AnswerHandle ==
    ASSUME NEW s \in Services, RequestsInv, AnswersInv, Handle(s)
    PROVE  AnswersInv'
<1>t. AnswersHere(s)
  BY AnswersKnown
<1>r. pc[s] = "handler"
  BY DEF Handle, Succeed, Fail, Panic, Respond, Goto
<1>h. /\ response[s] = NoResponse /\ counted[s] = <<>> /\ err[s] = Nil /\ depth[s] = 4
  BY <1>r, <1>t DEF AnswersHere, OnTheWayDown
<1>1. /\ UNCHANGED <<chain, verbose, level, depth, token, counted>>
      /\ pc' = [pc EXCEPT ![s] = pc'[s]] /\ pc'[s] \in {"up", "panicked"}
      /\ err' = [err EXCEPT ![s] = err'[s]]
      /\ response' = [response EXCEPT ![s] = response'[s]]
      /\ response'[s] \in Responses /\ ~response'[s].login /\ response'[s].detail # "error"
      /\ pc'[s] = "panicked" => err'[s] = Nil
      /\ pc'[s] = "up" /\ err'[s] = Nil => response'[s].status # 0
      /\ pc'[s] = "up" /\ err'[s] # Nil =>
            err'[s].kind \in Errors /\ response'[s].status = 0 /\ response'[s].detail = "none"
  <2>n. NoResponse \in Responses /\ ~NoResponse.login /\ NoResponse.detail = "none" /\ NoResponse.status = 0
    BY DEF NoResponse, Responses, Statuses
  <2>1. CASE Succeed(s)
    <3>1. /\ UNCHANGED <<chain, verbose, level, depth, token, counted, err>>
          /\ pc' = [pc EXCEPT ![s] = "up"] /\ Answer(s, 200, "result")
      BY <2>1 DEF Succeed, Goto, settings
    <3>2. 200 \in Statuses \ {0}
      BY DEF Statuses
    <3>3. pc'[s] = "up" /\ err'[s] = Nil
      BY <1>h, <1>t, <3>1 DEF AnswersHere
    <3>. QED
      BY <1>h, <1>t, <3>1, <3>2, <3>3, AnswerWrites DEF AnswersHere
  <2>2. CASE Fail(s)
    <3>1. PICK kind \in Errors, wrapped \in BOOLEAN :
            /\ UNCHANGED <<chain, verbose, level, depth, token, counted, response>>
            /\ pc' = [pc EXCEPT ![s] = "up"] /\ err' = [err EXCEPT ![s] = Error(kind, wrapped)]
      BY <2>2 DEF Fail, Goto, settings
    <3>2. Error(kind, wrapped) # Nil /\ Error(kind, wrapped).kind \in Errors
      BY DEF Error, Nil, Errors, OwnErrors, GoaErrors
    <3>3. pc'[s] = "up" /\ err'[s] = Error(kind, wrapped) /\ response'[s] = NoResponse
      BY <1>h, <1>t, <3>1 DEF AnswersHere
    <3>. QED
      BY <1>t, <2>n, <3>1, <3>2, <3>3 DEF AnswersHere
  <2>3. CASE Panic(s)
    <3>1. /\ UNCHANGED <<chain, verbose, level, depth, token, counted, response, err>>
          /\ pc' = [pc EXCEPT ![s] = "panicked"]
      BY <2>3 DEF Panic, Goto, settings, requestVars
    <3>. QED
      BY <1>h, <1>t, <2>n, <3>1 DEF AnswersHere
  <2>5. CASE Respond(s) /\ level # "fatal" /\ Unprintable(token[s])
    <3>1. /\ UNCHANGED <<chain, verbose, level, depth, token, counted, response, err>>
          /\ pc' = [pc EXCEPT ![s] = "panicked"]
      BY <2>5 DEF Respond, Goto, settings
    <3>. QED
      BY <1>h, <1>t, <2>n, <3>1 DEF AnswersHere
  <2>4. CASE Respond(s) /\ ~(level # "fatal" /\ Unprintable(token[s]))
    <3>1. PICK kind \in Errors, wrapped \in BOOLEAN :
            \E answered \in {ErrorToJSONAPIError(Error(kind, wrapped)), 500} :
                 /\ answered # 500 => ErrorToJSONAPIError(Error(kind, wrapped)) \in {400, 401, 403, 404, 409}
                 /\ Answer(s, answered, "handler")
      BY <2>4 DEF Respond
    <3>2. PICK answered \in {400, 401, 403, 404, 409, 500} : Answer(s, answered, "handler")
      BY <3>1
    <3>3. /\ UNCHANGED <<chain, verbose, level, depth, token, counted, err>>
          /\ pc' = [pc EXCEPT ![s] = "up"]
      BY <2>4 DEF Respond, Goto, settings
    <3>4. pc'[s] = "up" /\ err'[s] = Nil
      BY <1>h, <1>t, <3>3 DEF AnswersHere
    <3>5. answered \in Statuses \ {0}
      BY <3>2 DEF Statuses
    <3>. QED
      BY <1>h, <1>t, <3>2, <3>3, <3>4, <3>5, AnswerWrites DEF AnswersHere
  <2>. QED
    BY <2>1, <2>2, <2>3, <2>4, <2>5 DEF Handle
<1>2. response'[s] \in Responses
  BY <1>1
<1>3. AnswerStepAt(s)
  <2>1. response' \in [Services -> Responses] /\ \A r \in Services \ {s} : response'[r] = response[r]
    BY <1>1, <1>2, <1>t DEF AnswersHere
  <2>. QED
    BY <1>1, <1>t, <2>1 DEF AnswersHere, AnswerStepAt
<1>4. Relayed'
  BY <1>1, <1>3, <1>r, RelayedFrame
<1>p. /\ \A m \in Middlewares : Pos(m)' = Pos(m) /\ Pos(m) \in 1..4
      /\ \A m, n \in Middlewares : Outside(m, n)' = Outside(m, n)
  BY <1>1, <1>t, ChainStays DEF AnswersHere, Placed
<1>5. OnTheWayUp(s)'
  <2>1. response'[s].detail # "error" /\ ~response'[s].login
    BY <1>1
  <2>2. depth'[s] = 4 /\ counted'[s] = <<>>
    BY <1>1, <1>h
  <2>3. pc'[s] = "up" => /\ err'[s] = Nil => response'[s].status # 0
                         /\ err'[s] # Nil => /\ err'[s].kind \in Errors
                                             /\ response'[s].status = 0 /\ response'[s].detail = "none"
    BY <1>1
  <2>. QED
    BY <1>p, <2>1, <2>2, <2>3 DEF OnTheWayUp, Middlewares
<1>6. OnTheWayDown(s)' /\ Over(s)'
  <2>1. pc'[s] = "panicked" => depth'[s] = 4 /\ err'[s] = Nil /\ response'[s].detail # "error"
    BY <1>1, <1>h
  <2>. QED
    BY <1>1, <2>1 DEF OnTheWayDown, Over
<1>. QED
  BY <1>3, <1>4, <1>5, <1>6, AnswerFrame

-----------------------------------------------------------------------------
(* Up the chain.                                                           *)

\* Every status but none at all has a class.
LEMMA Classes ==
    \A status \in Statuses : Class(status) \in 0..5 /\ (Class(status) = 0 <=> status = 0)
BY DEF Statuses, Class

\* Errors become statuses, those of package errors and those of goa.
LEMMA ErrorStatuses ==
    ASSUME NEW e, e.kind \in Errors
    PROVE  /\ ErrorToJSONAPIError(e) \in Statuses \ {0, 200}
           /\ e.kind \in OwnErrors => ErrorToJSONAPIError(e) = StatusOf[e.kind]
           /\ e.kind = "goa-401" => ErrorToJSONAPIError(e) = 401
           /\ e.kind \in GoaErrors /\ Class(ErrorToJSONAPIError(e)) = 5 => e.kind = "goa-503"
           /\ Class(ErrorToJSONAPIError(e)) = 5 => ErrorToJSONAPIError(e) \in {500, 503}
<1>1. CASE e.kind \in GoaErrors
  <2>1. ErrorToJSONAPIError(e) = GoaStatus(e.kind)
    BY <1>1 DEF ErrorToJSONAPIError, Cause
  <2>2. e.kind \notin OwnErrors
    BY <1>1 DEF GoaErrors, OwnErrors
  <2>. QED
    BY <1>1, <2>1, <2>2 DEF GoaErrors, GoaStatus, Statuses, Class
<1>2. CASE e.kind \notin GoaErrors
  <2>1. ErrorToJSONAPIError(e) = StatusOf[e.kind]
    BY <1>2 DEF ErrorToJSONAPIError, Cause
  <2>2. e.kind \in OwnErrors \cup {"other"} /\ e.kind # "goa-401"
    BY <1>2 DEF Errors, OwnErrors, GoaErrors
  <2>3. StatusOf[e.kind] \in {400, 401, 403, 404, 409, 500}
    BY <2>2 DEF StatusOf, OwnErrors
  <2>. QED
    BY <1>2, <2>1, <2>2, <2>3 DEF Statuses, Class
<1>. QED
  BY <1>1, <1>2

\* What is used of the first service's answer when it steps on its way up.
RelayedUp(s) ==
    s = "front" /\ pc["back"] = "done" =>
        /\ err[s] = Nil => response[s].status = Survivor(response["back"].status)
        /\ err[s] # Nil => /\ depth[s] >= Pos("ErrorHandler")
                           /\ err[s].kind \in OwnErrors
                           /\ StatusOf[err[s].kind] = Survivor(response["back"].status)

\* All that is known of a service on its way up.
LEMMA UpKnown ==
    ASSUME NEW s \in Services, RequestsInv, AnswersInv, pc[s] = "up"
    PROVE  /\ AnswersHere(s) /\ RelayedUp(s)
           /\ err[s] # Nil => err[s].kind \in Errors
           /\ depth[s] \in 0..4 /\ response[s] \in Responses /\ counted[s] \in Counts
<1>1. AnswersHere(s)
  BY AnswersKnown
<1>2. RelayedUp(s)
  BY DEF AnswersInv, Relayed, RelayedUp
<1>3. err[s] # Nil => err[s].kind \in Errors
  BY <1>1 DEF AnswersHere, OnTheWayUp
<1>. QED
  BY <1>1, <1>2, <1>3 DEF AnswersHere

\* A middleware that changes neither error nor response is only left; the
\* Recorder counts the status that is there.
LEMMA AnswerPassUp ==
    ASSUME NEW s \in Services, RequestsInv, AnswersInv,
           PassUp(s) \/ (Count(s) /\ ~DebugPanics(s, "Recorder"))
    PROVE  AnswersInv'
<1>0. pc[s] = "up"
  BY DEF PassUp, Count, Shallower
<1>t. AnswersHere(s) /\ RelayedUp(s)
  BY <1>0, UpKnown
<1>u. depth[s] \in 0..4 /\ response[s] \in Responses /\ counted[s] \in Counts
  BY <1>0, UpKnown
<1>1. /\ UNCHANGED <<chain, verbose, level, pc, token, err, response>>
      /\ depth' = [depth EXCEPT ![s] = depth[s] - 1]
  BY DEF PassUp, Count, Shallower, settings
<1>2. depth'[s] = depth[s] - 1 /\ depth[s] > 0
  BY <1>1, <1>t DEF AnswersHere, PassUp, Count, Leaves
<1>p. /\ \A m \in Middlewares : Pos(m)' = Pos(m) /\ Pos(m) \in 1..4
      /\ \A m, n \in Middlewares : Outside(m, n)' = Outside(m, n)
      /\ \A m, n \in Middlewares : Pos(m) = Pos(n) => m = n
  BY <1>1, <1>t, ChainStays DEF AnswersHere, Placed
<1>c. Class(response[s].status) \in 0..5 /\ (Class(response[s].status) = 0 <=> response[s].status = 0)
  <2>1. response[s].status \in Statuses
    BY <1>u DEF Responses
  <2>. QED
    BY <2>1, Classes
<1>3. /\ depth[s] = Pos("ErrorHandler") => err[s] = Nil
      /\ depth[s] = Pos("Recorder") => counted[s] = <<>>
      /\ depth[s] = Pos("Recorder") => counted' = [counted EXCEPT ![s] = <<Class(response[s].status)>>]
      /\ depth[s] # Pos("Recorder") => counted' = counted
  <2>1. depth[s] = Pos("Recorder") => counted[s] = <<>>
    BY <1>0, <1>p, <1>t DEF AnswersHere, OnTheWayUp, Middlewares
  <2>2. CASE PassUp(s)
    <3>1. \/ depth[s] = Pos("LogRequest") \/ depth[s] = Pos("TokenContext")
          \/ depth[s] = Pos("ErrorHandler") /\ err[s] = Nil
      BY <1>t, <2>2 DEF AnswersHere, Placed, PassUp, Middlewares
    <3>2. depth[s] # Pos("Recorder") /\ (depth[s] = Pos("ErrorHandler") => err[s] = Nil)
      BY <1>p, <3>1 DEF Middlewares
    <3>. QED
      BY <2>2, <3>2 DEF PassUp
  <2>3. CASE Count(s) /\ ~DebugPanics(s, "Recorder")
    <3>1. depth[s] = Pos("Recorder")
      BY <1>t, <2>3 DEF AnswersHere, Placed, Count, Middlewares
    <3>2. depth[s] # Pos("ErrorHandler")
      BY <1>p, <3>1 DEF Middlewares
    <3>3. counted' = [counted EXCEPT ![s] = Append(counted[s], Class(response[s].status))]
      BY <2>3 DEF Count
    <3>4. ASSUME NEW class PROVE Append(<<>>, class) = <<class>>
      OBVIOUS
    <3>. QED
      BY <2>1, <3>1, <3>2, <3>3, <3>4
  <2>. QED
    BY <2>2, <2>3
<1>4. /\ depth[s] = Pos("Recorder") => counted'[s] = <<Class(response[s].status)>>
      /\ depth[s] # Pos("Recorder") => counted'[s] = counted[s]
  BY <1>3, <1>t DEF AnswersHere
<1>5. AnswerStepAt(s)
  <2>1. counted'[s] \in Counts
    BY <1>4, <1>c, <1>u DEF Counts
  <2>2. counted' \in [Services -> Counts] /\ \A r \in Services \ {s} : counted'[r] = counted[r]
    BY <1>3, <1>t, <2>1, <1>4 DEF AnswersHere
  <2>. QED
    BY <1>1, <1>t, <2>2 DEF AnswersHere, AnswerStepAt
<1>6. /\ pc'[s] = "up" /\ err'[s] = err[s] /\ response'[s] = response[s]
      /\ depth'[s] = depth[s] - 1 /\ depth'[s] \in 0..4
  BY <1>0, <1>1, <1>2, <1>u
<1>7. Relayed'
  <2>1. err[s] # Nil => depth[s] # Pos("ErrorHandler")
    BY <1>3
  <2>2. RelayedUp(s) /\ Pos("ErrorHandler") \in 1..4
    BY <1>t, <1>p DEF Middlewares
  <2>. QED
    BY <1>0, <1>5, <1>6, <1>u, <2>1, <2>2, RelayedFrame DEF RelayedUp
<1>8. OnTheWayUp(s)'
  <2>1. OnTheWayUp(s)
    BY <1>t DEF AnswersHere
  <2>2. err'[s] # Nil /\ depth'[s] < Pos("ErrorHandler")' => Outside("TokenContext", "ErrorHandler")'
    BY <1>0, <1>3, <1>6, <1>p, <1>u, <2>1 DEF OnTheWayUp, Middlewares
  <2>3. response'[s].login => depth'[s] < Pos("TokenContext")'
    BY <1>0, <1>6, <1>p, <1>u, <2>1 DEF OnTheWayUp, Middlewares
  <2>4. depth'[s] >= Pos("Recorder")' => counted'[s] = <<>>
    BY <1>0, <1>4, <1>6, <1>p, <1>u, <2>1 DEF OnTheWayUp, Middlewares
  <2>5. depth'[s] < Pos("Recorder")' /\ counted'[s] = <<>> => Outside("TokenContext", "Recorder")'
    BY <1>0, <1>4, <1>6, <1>p, <1>u, <2>1 DEF OnTheWayUp, Middlewares
  <2>6. counted'[s] \in {<<>>, <<0>>, <<Class(response'[s].status)>>}
    BY <1>0, <1>4, <1>6, <2>1 DEF OnTheWayUp
  <2>7. err[s] # Nil => Class(response[s].status) = 0
    BY <1>0, <1>c, <2>1 DEF OnTheWayUp
  <2>8. err'[s] # Nil => counted'[s] \in {<<>>, <<0>>}
    BY <1>0, <1>4, <1>6, <2>1, <2>7 DEF OnTheWayUp
  <2>9. counted'[s] = <<0>> =>
            Outside("ErrorHandler", "Recorder")' \/ Outside("TokenContext", "ErrorHandler")'
    <3>1. CASE depth[s] # Pos("Recorder")
      BY <1>0, <1>4, <1>p, <2>1, <3>1 DEF OnTheWayUp, Middlewares
    <3>2. CASE depth[s] = Pos("Recorder") /\ counted'[s] = <<0>>
      <4>1. response[s].status = 0
        BY <1>4, <1>c, <3>2
      <4>2. err[s] # Nil
        BY <1>0, <2>1, <4>1 DEF OnTheWayUp
      <4>3. Pos("Recorder") # Pos("ErrorHandler") /\ Pos("Recorder") \in 1..4 /\ Pos("ErrorHandler") \in 1..4
        BY <1>p DEF Middlewares
      <4>4. Pos("ErrorHandler") < Pos("Recorder") \/ depth[s] < Pos("ErrorHandler")
        BY <3>2, <4>3
      <4>. QED
        BY <1>0, <1>p, <2>1, <4>2, <4>4 DEF OnTheWayUp, Middlewares, Outside
    <3>. QED
      BY <3>1, <3>2
  <2>. QED
    BY <1>0, <1>1, <1>6, <1>p, <2>1, <2>2, <2>3, <2>4, <2>5, <2>6, <2>8, <2>9 DEF OnTheWayUp, Middlewares, Class, Nil, Error
<1>9. OnTheWayDown(s)' /\ Over(s)'
  BY <1>6 DEF OnTheWayDown, Over
<1>. QED
  BY <1>5, <1>7, <1>8, <1>9, AnswerFrame

\* A request that panics on its way up, for a reason that is known.
LEMMA AnswerPanicsUp ==
    ASSUME NEW s \in Services, RequestsInv, AnswersInv, pc[s] = "up",
           UNCHANGED <<chain, verbose, level, token, counted, depth, err, response>>,
           pc' = [pc EXCEPT ![s] = "panicked"],
           \/ ErrorPanics(s, "ErrorHandler") /\ err[s] # Nil
           \/ DebugPanics(s, "Recorder")
           \/ ~verbose /\ err[s].kind = "goa-503"
    PROVE  AnswersInv'
<1>t. AnswersHere(s)
  BY AnswersKnown
<1>1. pc'[s] = "panicked"
  BY <1>t DEF AnswersHere
<1>2. AnswerStepAt(s)
  BY <1>t DEF AnswersHere, AnswerStepAt
<1>3. Relayed'
  BY <1>1, <1>2, RelayedFrame
<1>4. \A m, n \in Middlewares : Outside(m, n)' = Outside(m, n)
  BY ChainStays
<1>5. Over(s)'
  BY <1>t, <1>1, <1>4 DEF Over, AnswersHere, OnTheWayUp, Class, ErrorPanics, DebugPanics, UnprintableIn, Unprintable, Middlewares, Nil, Error
<1>6. OnTheWayDown(s)' /\ OnTheWayUp(s)'
  BY <1>1 DEF OnTheWayDown, OnTheWayUp
<1>. QED
  BY <1>2, <1>3, <1>5, <1>6, AnswerFrame

\* The Recorder of a debugged service may panic before it counts.
LEMMA AnswerDebugs ==
    ASSUME NEW s \in Services, RequestsInv, AnswersInv, Count(s), DebugPanics(s, "Recorder")
    PROVE  AnswersInv'
BY AnswerPanicsUp DEF Count, Goto, settings

\* A response with another status and detail, and perhaps the ID of the error.
Rewrites(new, old, status, detail) ==
    \/ new = [old EXCEPT !.status = status, !.detail = detail]
    \/ new = [old EXCEPT !.status = status, !.detail = detail, !.id = old.id]
    \/ new = [old EXCEPT !.status = status, !.detail = detail, !.id = "original"]

\* It still asks to log in if it did, and is a response.
LEMMA Rewritten ==
    ASSUME NEW old \in Responses, NEW status \in Statuses, NEW detail \in {"internal", "error"},
           NEW new, Rewrites(new, old, status, detail)
    PROVE  new \in Responses /\ new.status = status /\ new.detail = detail /\ new.login = old.login
<1>1. /\ DOMAIN old = {"status", "detail", "login", "id"}
      /\ old.login \in BOOLEAN /\ old.id \in {"none", "original"}
      /\ old = [status |-> old.status, detail |-> old.detail, login |-> old.login, id |-> old.id]
  BY DEF Responses
<1>2. PICK id \in {"none", "original"} :
        new = [status |-> status, detail |-> detail, login |-> old.login, id |-> id]
  BY <1>1 DEF Rewrites
<1>. QED
  BY <1>1, <1>2 DEF Responses

\* ErrorHandler answers with the error's status, or panics when it logs the
\* error or over the ID of a 5xx of goa.
LEMMA AnswerErrorHandler ==
    ASSUME NEW s \in Services, RequestsInv, AnswersInv, ErrorHandler(s)
    PROVE  AnswersInv'
<1> DEFINE status == ErrorToJSONAPIError(err[s])
<1>0. pc[s] = "up" /\ err[s] # Nil
  BY DEF ErrorHandler, Shallower, Goto
<1>t. AnswersHere(s) /\ RelayedUp(s) /\ OnTheWayUp(s)
  BY <1>0, UpKnown DEF AnswersHere
<1>u. /\ depth[s] \in 0..4 /\ response[s] \in Responses /\ counted[s] \in Counts
      /\ err[s].kind \in Errors
  BY <1>0, UpKnown
<1>1. /\ UNCHANGED <<chain, verbose, level, token, counted>>
      /\ IF ErrorPanics(s, "ErrorHandler") \/ KeepsID(s, status)
         THEN pc' = [pc EXCEPT ![s] = "panicked"] /\ UNCHANGED <<depth, err, response>>
         ELSE /\ UNCHANGED pc /\ depth' = [depth EXCEPT ![s] = depth[s] - 1]
              /\ response' = [response EXCEPT ![s] = ErrorResponse(s, status)]
              /\ err' = [err EXCEPT ![s] = Nil]
  BY DEF ErrorHandler, Shallower, Goto, settings
<1>2. depth[s] = Pos("ErrorHandler") /\ depth[s] > 0
  BY <1>t DEF AnswersHere, Placed, ErrorHandler, Leaves, Middlewares
<1>p. /\ \A m \in Middlewares : Pos(m)' = Pos(m) /\ Pos(m) \in 1..4
      /\ \A m, n \in Middlewares : Outside(m, n)' = Outside(m, n)
      /\ \A m, n \in Middlewares : Pos(m) = Pos(n) => m = n
  BY <1>1, <1>t, ChainStays DEF AnswersHere, Placed
<1>e. /\ status \in Statuses \ {0, 200}
      /\ err[s].kind \in OwnErrors => status = StatusOf[err[s].kind]
      /\ err[s].kind = "goa-401" => status = 401
      /\ err[s].kind \in GoaErrors /\ Class(status) = 5 => err[s].kind = "goa-503"
  BY <1>u, ErrorStatuses
<1>h. response[s].status = 0 /\ response[s].detail = "none" /\ counted[s] \in {<<>>, <<0>>}
  BY <1>0, <1>t DEF OnTheWayUp
<1>3. CASE ErrorPanics(s, "ErrorHandler") \/ KeepsID(s, status)
  <2>1. KeepsID(s, status) => ~verbose /\ err[s].kind = "goa-503"
    BY <1>e DEF KeepsID, Cause
  <2>. QED
    BY <1>0, <1>1, <1>3, <2>1, AnswerPanicsUp
<1>4. CASE ~(ErrorPanics(s, "ErrorHandler") \/ KeepsID(s, status))
  <2>1. /\ UNCHANGED <<chain, verbose, level, token, counted, pc>>
        /\ depth' = [depth EXCEPT ![s] = depth[s] - 1]
        /\ response' = [response EXCEPT ![s] = ErrorResponse(s, status)]
        /\ err' = [err EXCEPT ![s] = Nil]
    BY <1>1, <1>4
  <2>2. /\ pc'[s] = "up" /\ depth'[s] = depth[s] - 1 /\ err'[s] = Nil
        /\ response'[s] = ErrorResponse(s, status) /\ counted'[s] = counted[s]
    BY <1>0, <1>t, <2>1 DEF AnswersHere
  <2>3. /\ ErrorResponse(s, status) \in Responses
        /\ ErrorResponse(s, status).login = response[s].login
        /\ Class(status) = 5 /\ ~verbose =>
              ErrorResponse(s, status).status = 500 /\ ErrorResponse(s, status).detail = "internal"
        /\ ~(Class(status) = 5 /\ ~verbose) =>
              ErrorResponse(s, status).status = status /\ ErrorResponse(s, status).detail = "error"
    <3> HIDE DEF status
    <3>1. CASE Class(status) = 5 /\ ~verbose
      <4>1. Rewrites(ErrorResponse(s, status), response[s], 500, "internal") /\ 500 \in Statuses
        BY <3>1 DEF ErrorResponse, Rewrites, Statuses
      <4>. QED
        BY <1>u, <3>1, <4>1, Rewritten
    <3>2. CASE ~(Class(status) = 5 /\ ~verbose)
      <4>1. Rewrites(ErrorResponse(s, status), response[s], status, "error")
        BY <1>u, <3>2 DEF ErrorResponse, Rewrites, Responses
      <4>2. status \in Statuses
        BY <1>e
      <4>. QED
        BY <1>u, <3>2, <4>1, <4>2, Rewritten
    <3>. QED
      BY <3>1, <3>2
  <2>4. response'[s] \in Responses
    BY <2>2, <2>3
  <2>5. AnswerStepAt(s)
    <3>1. response' \in [Services -> Responses] /\ \A r \in Services \ {s} : response'[r] = response[r]
      BY <1>t, <2>1, <2>2, <2>4 DEF AnswersHere
    <3>. QED
      BY <1>t, <2>1, <3>1 DEF AnswersHere, AnswerStepAt
  <2>6. Relayed'
    <3>1. s = "front" /\ pc["back"] = "done" => response'[s].status = Survivor(response["back"].status)
      <4> SUFFICES ASSUME s = "front", pc["back"] = "done"
                   PROVE  response'[s].status = Survivor(response["back"].status)
        OBVIOUS
      <4>1. err[s].kind \in OwnErrors /\ StatusOf[err[s].kind] = Survivor(response["back"].status)
        BY <1>0, <1>t DEF RelayedUp
      <4>2. status = Survivor(response["back"].status)
        BY <1>e, <4>1
      <4>3. Class(status) = 5 => status = 500
        <5> HIDE DEF status
        <5>1. status \in {200, 400, 401, 403, 404, 409, 500}
          BY <4>2 DEF Survivor
        <5>. QED
          BY <5>1 DEF Class
      <4>. QED
        BY <2>2, <2>3, <4>2, <4>3
    <3>. QED
      BY <1>0, <2>2, <2>5, <3>1, RelayedFrame
  <2>7. OnTheWayUp(s)'
    <3>1. response'[s].status # 0
      BY <1>e, <2>2, <2>3
    <3>2. response'[s].login => response[s].login /\ depth[s] < Pos("TokenContext") /\ err[s].kind = "goa-401"
      BY <1>0, <1>t, <2>2, <2>3 DEF OnTheWayUp
    <3>3. response'[s].login => response'[s].status = 401
      <4>1. Class(401) # 5
        BY DEF Class
      <4>. QED
        BY <1>e, <2>2, <2>3, <3>2, <4>1
    <3>4. response'[s].login => depth'[s] < Pos("TokenContext") /\ Outside("ErrorHandler", "TokenContext")
      BY <1>2, <1>p, <1>u, <2>2, <3>2 DEF Outside, Middlewares
    <3>5. response'[s].detail = "error" /\ Class(response'[s].status) = 5 => verbose
      <4> HIDE DEF status
      <4>. QED
        BY <2>2, <2>3
    <3>6. depth'[s] >= Pos("Recorder") => counted'[s] = <<>>
      BY <1>0, <1>t, <1>p, <1>u, <2>2 DEF OnTheWayUp, Middlewares
    <3>7. Pos("Recorder") # Pos("ErrorHandler") /\ Pos("Recorder") \in 1..4
      BY <1>p DEF Middlewares
    <3>8. depth'[s] < Pos("Recorder") => depth[s] < Pos("Recorder")
      BY <1>2, <1>u, <2>2, <3>7
    <3>9. depth'[s] < Pos("Recorder") /\ counted'[s] = <<>> => Outside("TokenContext", "Recorder")
      BY <1>0, <1>t, <2>2, <3>8 DEF OnTheWayUp
    <3>10. counted'[s] = <<0>> =>
              Outside("ErrorHandler", "Recorder") \/ Outside("TokenContext", "ErrorHandler")
      BY <1>0, <1>t, <2>2 DEF OnTheWayUp
    <3>. QED
      BY <1>h, <1>p, <2>1, <2>2, <3>1, <3>3, <3>4, <3>5, <3>6, <3>9, <3>10 DEF OnTheWayUp, Middlewares, Class, Nil, Error
  <2>8. OnTheWayDown(s)' /\ Over(s)'
    BY <2>2 DEF OnTheWayDown, Over
  <2>. QED
    BY <2>5, <2>6, <2>7, <2>8, AnswerFrame
<1>. QED
  BY <1>3, <1>4

\* Answering changes the response of one service, its status and its detail.
LEMMA AnswerIsOne ==
    ASSUME NEW s \in Services, response \in [Services -> Responses],
           NEW status, NEW detail, Answer(s, status, detail)
    PROVE  /\ Rewrites(response'[s], response[s], status, detail)
           /\ response' = [response EXCEPT ![s] = response'[s]]
<1>1. response' = [response EXCEPT ![s] = [response[s] EXCEPT !.status = status, !.detail = detail]]
  BY DEF Answer
<1>2. response'[s] = [response[s] EXCEPT !.status = status, !.detail = detail]
  BY <1>1
<1>. QED
  BY <1>1, <1>2 DEF Rewrites

\* An error that leaves the chain has passed ErrorHandler by; goa answers it.
LEMMA AnswerLeave ==
    ASSUME NEW s \in Services, RequestsInv, AnswersInv, Leave(s)
    PROVE  AnswersInv'
<1>0. pc[s] = "up" /\ depth[s] = 0
  BY DEF Leave, Goto
<1>t. AnswersHere(s) /\ RelayedUp(s) /\ OnTheWayUp(s)
  BY <1>0, UpKnown DEF AnswersHere
<1>u. response[s] \in Responses
  BY <1>0, UpKnown
<1>1. /\ UNCHANGED <<chain, verbose, level, token, counted, depth, err>>
      /\ pc' = [pc EXCEPT ![s] = "done"]
      /\ err[s] = Nil => response' = response
      /\ err[s] # Nil => Rewrites(response'[s], response[s], 500, "error")
      /\ response' = [response EXCEPT ![s] = response'[s]]
  <2>1. /\ UNCHANGED <<chain, verbose, level, token, counted, depth, err>>
        /\ pc' = [pc EXCEPT ![s] = "done"]
    BY DEF Leave, Goto, settings
  <2>2. response \in [Services -> Responses]
    BY <1>t DEF AnswersHere
  <2>3. CASE err[s] = Nil
    <3>1. response' = response
      BY <2>3 DEF Leave
    <3>. QED
      BY <2>1, <2>2, <2>3, <3>1
  <2>4. CASE err[s] # Nil
    <3>1. Answer(s, 500, "error")
      BY <2>4 DEF Leave, Answer
    <3>. QED
      BY <2>1, <2>2, <2>4, <3>1, AnswerIsOne
  <2>. QED
    BY <2>3, <2>4
<1>p. /\ \A m \in Middlewares : Pos(m)' = Pos(m) /\ Pos(m) \in 1..4
      /\ \A m, n \in Middlewares : Outside(m, n)' = Outside(m, n)
  BY <1>1, <1>t, ChainStays DEF AnswersHere, Placed
<1>2. pc'[s] = "done" /\ counted'[s] = counted[s]
  BY <1>1, <1>t DEF AnswersHere
<1>3. /\ err[s] = Nil => response'[s] = response[s]
      /\ err[s] # Nil => /\ response'[s].status = 500 /\ response'[s].detail = "error"
                         /\ response'[s].login = response[s].login
      /\ response'[s] \in Responses
  <2>1. CASE err[s] = Nil
    BY <1>1, <1>u, <2>1
  <2>2. CASE err[s] # Nil
    <3>1. Rewrites(response'[s], response[s], 500, "error") /\ 500 \in Statuses
      BY <1>1, <2>2 DEF Statuses
    <3>. QED
      BY <1>u, <2>2, <3>1, Rewritten
  <2>. QED
    BY <2>1, <2>2
<1>4. AnswerStepAt(s)
  <2>1. response' \in [Services -> Responses] /\ \A r \in Services \ {s} : response'[r] = response[r]
    <3>1. response'[s] \in Responses /\ response \in [Services -> Responses]
      BY <1>3, <1>t DEF AnswersHere
    <3>. QED
      BY <1>1, <3>1
  <2>. QED
    BY <1>1, <1>t, <2>1 DEF AnswersHere, AnswerStepAt
<1>5. err[s] # Nil => Outside("TokenContext", "ErrorHandler")
  BY <1>0, <1>p, <1>t DEF OnTheWayUp, Middlewares
<1>6. Relayed'
  <2>1. s = "front" /\ pc["back"] = "done" => err[s] = Nil
    BY <1>0, <1>p, <1>t DEF RelayedUp, Middlewares
  <2>2. s = "front" /\ pc["back"] = "done" => response'[s].status = Survivor(response["back"].status)
    BY <1>3, <1>t, <2>1 DEF RelayedUp
  <2>. QED
    BY <1>0, <1>2, <1>4, <2>2, RelayedFrame
<1>7. Over(s)'
  <2>1. response'[s].login =>
            response'[s].status = (IF Outside("ErrorHandler", "TokenContext") THEN 401 ELSE 500)
    <3>1. CASE err[s] = Nil
      BY <1>0, <1>3, <1>t, <3>1 DEF OnTheWayUp
    <3>2. CASE err[s] # Nil
      <4>1. ~Outside("ErrorHandler", "TokenContext")
        BY <1>5, <1>p, <3>2 DEF Outside, Middlewares
      <4>. QED
        BY <1>3, <3>2, <4>1
    <3>. QED
      BY <3>1, <3>2
  <2>2. response'[s].detail = "error" /\ Class(response'[s].status) = 5 =>
            verbose \/ (err'[s] # Nil /\ Outside("TokenContext", "ErrorHandler"))
    BY <1>0, <1>1, <1>3, <1>5, <1>t DEF OnTheWayUp
  <2>3. counted'[s] = <<>> => Outside("TokenContext", "Recorder")
    BY <1>0, <1>2, <1>p, <1>t DEF OnTheWayUp, Middlewares
  <2>4. counted'[s] \in {<<>>, <<0>>, <<Class(response'[s].status)>>}
    BY <1>0, <1>2, <1>3, <1>t DEF OnTheWayUp
  <2>5. counted'[s] = <<0>> =>
            Outside("ErrorHandler", "Recorder") \/ Outside("TokenContext", "ErrorHandler")
    BY <1>0, <1>2, <1>t DEF OnTheWayUp
  <2>. QED
    BY <1>1, <1>2, <1>p, <2>1, <2>2, <2>3, <2>4, <2>5 DEF Over, Middlewares, Class
<1>8. OnTheWayDown(s)' /\ OnTheWayUp(s)'
  BY <1>2 DEF OnTheWayDown, OnTheWayUp
<1>. QED
  BY <1>4, <1>6, <1>7, <1>8, AnswerFrame

-----------------------------------------------------------------------------
(* Between the services.                                                   *)

\* The first service waits at the end of its chain, the second one starts.
LEMMA AnswerForward ==
    ASSUME RequestsInv, AnswersInv, Forward
    PROVE  AnswersInv'
<1>1. /\ UNCHANGED <<chain, verbose, level, depth, token, err, response, counted>>
      /\ pc["back"] = "idle" /\ pc["front"] = "handler"
      /\ pc'["front"] = "forwarded" /\ pc'["back"] = "down"
  BY DEF Forward, settings, RequestsInv, TypeOK, Services
<1>2. \A m, n \in Middlewares : Pos(m)' = Pos(m) /\ Outside(m, n)' = Outside(m, n)
  BY <1>1, ChainStays
<1>3. ASSUME NEW s \in Services PROVE OnTheWayDown(s)' /\ OnTheWayUp(s)' /\ Over(s)'
  <2>1. OnTheWayDown(s) /\ pc[s] \in {"idle", "handler"} /\ pc'[s] \in {"forwarded", "down"}
    BY <1>1 DEF AnswersInv, Services
  <2>2. pc'[s] = "forwarded" => pc[s] = "handler"
    BY <1>1 DEF Services
  <2>3. OnTheWayDown(s)'
    BY <1>1, <1>2, <2>1, <2>2 DEF OnTheWayDown, Middlewares
  <2>. QED
    BY <2>1, <2>3 DEF OnTheWayUp, Over
<1>4. Relayed'
  BY <1>1 DEF Relayed
<1>. QED
  BY <1>1, <1>3, <1>4 DEF AnswersInv

\* FromStatusCode and ErrorToJSONAPIError together lead from a status to the
\* one that survives.
LEMMA StatusComesBack ==
    ASSUME NEW status \in Statuses \ {200}
    PROVE  /\ FromStatusCode(status) \in OwnErrors
           /\ StatusOf[FromStatusCode(status)] = Survivor(status)
<1>1. /\ FromStatusCode(404) = "NotFound" /\ FromStatusCode(400) = "BadParameter"
      /\ FromStatusCode(409) = "VersionConflict" /\ FromStatusCode(401) = "Unauthorized"
      /\ FromStatusCode(403) = "Forbidden" /\ FromStatusCode(0) = "Internal"
      /\ FromStatusCode(500) = "Internal" /\ FromStatusCode(503) = "Internal"
  BY DEF FromStatusCode
<1>2. status \in {0, 400, 401, 403, 404, 409, 500, 503}
  BY DEF Statuses
<1>. QED
  BY <1>1, <1>2 DEF OwnErrors, StatusOf, Survivor

\* The first service goes on with the second one's status, or its error.
LEMMA AnswerRelay ==
    ASSUME RequestsInv, AnswersInv, Relay
    PROVE  AnswersInv'
<1> DEFINE status == response["back"].status
<1>s. "front" \in Services /\ "back" \in Services
  BY DEF Services
<1>t. AnswersHere("front") /\ AnswersHere("back")
  BY <1>s, AnswersKnown
<1>0. pc["front"] = "forwarded" /\ pc["back"] \in {"done", "panicked"}
  BY DEF Relay, Goto
<1>h. /\ response["front"] = NoResponse /\ counted["front"] = <<>>
      /\ err["front"] = Nil /\ depth["front"] = 4
  BY <1>0, <1>t DEF AnswersHere, OnTheWayDown
<1>n. NoResponse \in Responses /\ ~NoResponse.login /\ NoResponse.detail = "none" /\ NoResponse.status = 0
  BY DEF NoResponse, Responses, Statuses
<1>1. /\ UNCHANGED <<chain, verbose, level, depth, token, counted>>
      /\ pc' = [pc EXCEPT !["front"] = "up"]
  BY DEF Relay, Goto, settings
<1>2. pc'["front"] = "up" /\ pc'["back"] = pc["back"]
  BY <1>1, <1>s, <1>t DEF AnswersHere
<1>3. /\ err' = [err EXCEPT !["front"] = err'["front"]]
      /\ response' = [response EXCEPT !["front"] = response'["front"]]
      /\ response'["front"] \in Responses /\ ~response'["front"].login /\ response'["front"].detail # "error"
      /\ err'["front"] = Nil => response'["front"].status = 200 /\ (pc["back"] = "done" => status = 200)
      /\ err'["front"] # Nil =>
            /\ err'["front"].kind \in Errors
            /\ response'["front"].status = 0 /\ response'["front"].detail = "none"
            /\ pc["back"] = "done" =>
                  err'["front"].kind \in OwnErrors /\ StatusOf[err'["front"].kind] = Survivor(status)
  <2>1. CASE pc["back"] = "done" /\ status = 200
    <3>1. Answer("front", 200, "result") /\ err' = err
      BY <2>1 DEF Relay
    <3>2. 200 \in Statuses \ {0}
      BY DEF Statuses
    <3>3. err'["front"] = Nil
      BY <1>h, <3>1
    <3>4. response \in [Services -> Responses]
      BY <1>t DEF AnswersHere
    <3>5. /\ response' = [response EXCEPT !["front"] = response'["front"]]
          /\ response'["front"] \in Responses /\ ~response'["front"].login
          /\ response'["front"].status = 200 /\ response'["front"].detail = "result"
      BY <1>h, <1>s, <3>1, <3>2, <3>4, AnswerWrites
    <3>. QED
      BY <1>s, <1>t, <2>1, <3>1, <3>3, <3>5 DEF AnswersHere
  <2>2. CASE ~(pc["back"] = "done" /\ status = 200)
    <3> DEFINE kind == IF pc["back"] = "done" THEN FromStatusCode(status) ELSE "other"
    <3>1. response' = response /\ \E wrapped \in BOOLEAN : err' = [err EXCEPT !["front"] = Error(kind, wrapped)]
      BY <2>2 DEF Relay
    <3>2. PICK wrapped \in BOOLEAN : err' = [err EXCEPT !["front"] = Error(kind, wrapped)]
      BY <3>1
    <3>3. err'["front"] = Error(kind, wrapped) /\ response'["front"] = NoResponse
      BY <1>h, <1>s, <1>t, <3>1, <3>2 DEF AnswersHere
    <3>4. pc["back"] = "done" => kind \in OwnErrors /\ StatusOf[kind] = Survivor(status)
      <4>1. status \in Statuses
        BY <1>s, <1>t DEF AnswersHere, Responses
      <4>. QED
        BY <2>2, <4>1, StatusComesBack
    <3>5. kind \in Errors
      BY <1>0, <3>4 DEF Errors
    <3> HIDE DEF kind
    <3>6. Error(kind, wrapped).kind = kind /\ Error(kind, wrapped) # Nil
      BY <3>5 DEF Error, Nil, Errors, OwnErrors, GoaErrors
    <3>7. err'["front"].kind = kind /\ err'["front"] # Nil
      BY <3>3, <3>6
    <3>8. response' = [response EXCEPT !["front"] = response'["front"]]
      BY <1>s, <1>t, <3>1 DEF AnswersHere
    <3>9. err' = [err EXCEPT !["front"] = err'["front"]]
      BY <3>2, <3>3
    <3>. QED
      BY <1>n, <3>3, <3>4, <3>5, <3>7, <3>8, <3>9
  <2>. QED
    BY <2>1, <2>2
<1>4. AnswerStepAt("front")
  <2>1. response' \in [Services -> Responses] /\ \A r \in Services \ {"front"} : response'[r] = response[r]
    <3>1. response'["front"] \in Responses /\ response' = [response EXCEPT !["front"] = response'["front"]]
      BY <1>3
    <3>2. response \in [Services -> Responses]
      BY <1>t DEF AnswersHere
    <3>. QED
      BY <3>1, <3>2
  <2>2. \A r \in Services \ {"front"} : err'[r] = err[r]
    <3>1. err' = [err EXCEPT !["front"] = err'["front"]]
      BY <1>3
    <3>2. err \in [Services -> [kind : Errors \cup {"nil"}, wrapped : BOOLEAN]]
      BY <1>t DEF AnswersHere
    <3>. QED
      BY <3>1, <3>2
  <2>. QED
    BY <1>1, <1>t, <2>1, <2>2 DEF AnswersHere, AnswerStepAt
<1>p. /\ \A m \in Middlewares : Pos(m)' = Pos(m) /\ Pos(m) \in 1..4
      /\ \A m, n \in Middlewares : Outside(m, n)' = Outside(m, n)
  BY <1>1, <1>t, ChainStays DEF AnswersHere, Placed
<1>5. OnTheWayUp("front")'
  <2>1. depth'["front"] = 4 /\ counted'["front"] = <<>>
    BY <1>1, <1>h
  <2>2. /\ response'["front"].detail # "error" /\ ~response'["front"].login
        /\ err'["front"] = Nil => response'["front"].status # 0
        /\ err'["front"] # Nil => /\ err'["front"].kind \in Errors
                                  /\ response'["front"].status = 0 /\ response'["front"].detail = "none"
    BY <1>3
  <2>. QED
    BY <1>p, <2>1, <2>2 DEF OnTheWayUp, Middlewares
<1>6. OnTheWayDown("front")' /\ Over("front")'
  BY <1>2 DEF OnTheWayDown, Over
<1>7. Relayed'
  <2>1. response'["back"] = response["back"]
    BY <1>4, <1>s DEF AnswerStepAt
  <2>2. Pos("ErrorHandler")' = Pos("ErrorHandler") /\ Pos("ErrorHandler") \in 1..4
    BY <1>p DEF Middlewares
  <2>3. depth'["front"] >= Pos("ErrorHandler")'
    BY <1>1, <1>h, <2>2
  <2>4. err'["front"] = Nil /\ pc["back"] = "done" => response'["front"].status = Survivor(status)
    BY <1>3 DEF Survivor
  <2>5. err'["front"] # Nil /\ pc["back"] = "done" =>
            err'["front"].kind \in OwnErrors /\ StatusOf[err'["front"].kind] = Survivor(status)
    BY <1>3
  <2>. QED
    BY <1>0, <1>2, <2>1, <2>3, <2>4, <2>5 DEF Relayed
<1>. QED
  BY <1>s, <1>4, <1>5, <1>6, <1>7, AnswerFrame

\* Every step preserves what is known of the answers.
LEMMA AnswerStep ==
    RequestsInv /\ AnswersInv /\ [Next]_vars => AnswersInv'
<1> SUFFICES ASSUME RequestsInv, AnswersInv, [Next]_vars PROVE AnswersInv'
  OBVIOUS
<1>1. CASE UNCHANGED <<settings, pc, requestVars>>
  <2>1. UNCHANGED <<chain, verbose, level, pc, depth, token, err, response, counted>>
    BY <1>1 DEF settings, requestVars
  <2>2. \A m, n \in Middlewares : Pos(m)' = Pos(m) /\ Outside(m, n)' = Outside(m, n)
    BY <2>1, ChainStays
  <2>3. ASSUME NEW s \in Services PROVE OnTheWayDown(s)' /\ OnTheWayUp(s)' /\ Over(s)'
    <3>1. OnTheWayDown(s) /\ OnTheWayUp(s) /\ Over(s)
      BY DEF AnswersInv
    <3>2. OnTheWayDown(s)'
      BY <2>1, <2>2, <3>1 DEF OnTheWayDown, Middlewares
    <3>3. OnTheWayUp(s)'
      BY <2>1, <2>2, <3>1 DEF OnTheWayUp, Middlewares, Class, Nil, Error
    <3>4. Over(s)'
      BY <2>1, <2>2, <3>1 DEF Over, Middlewares, Class, Nil, Error, Unprintable
    <3>. QED
      BY <3>2, <3>3, <3>4
  <2>4. Relayed'
    BY <2>1, <2>2 DEF AnswersInv, Relayed, Middlewares
  <2>. QED
    BY <2>1, <2>3, <2>4 DEF AnswersInv
<1>2. ASSUME NEW s \in Services, Up(s) PROVE AnswersInv'
  BY <1>2, AnswerPassUp, AnswerDebugs, AnswerErrorHandler, AnswerLeave DEF Up
<1>3. UNCHANGED vars \/ Expire => UNCHANGED <<settings, pc, requestVars>>
  BY DEF vars, Expire
<1>. QED
  BY <1>1, <1>2, <1>3, AnswerForward, AnswerRelay, AnswerDown, AnswerHandle DEF Next

-----------------------------------------------------------------------------
(* What clients get.                                                       *)

\* The invariant of the answers holds in every state.
THEOREM AnswersInvariance == Spec => []AnswersInv
<1>1. Init => AnswersInv
  <2> SUFFICES ASSUME Init PROVE AnswersInv
    OBVIOUS
  <2>1. NoResponse \in Responses
    BY DEF NoResponse, Responses, Statuses
  <2>2. /\ response = [s \in Services |-> NoResponse] /\ counted = [s \in Services |-> <<>>]
        /\ token = [s \in Services |-> NoToken]
        /\ pc["front"] = "down" /\ pc["back"] = "idle"
        /\ \A s \in Services : pc[s] \in {"idle", "down"}
    BY DEF Init, Services
  <2>3. response \in [Services -> Responses] /\ counted \in [Services -> Counts]
    BY <2>1, <2>2 DEF Counts
  <2>4. \A s \in Services : OnTheWayDown(s) /\ OnTheWayUp(s) /\ Over(s)
    BY <2>2 DEF OnTheWayDown, OnTheWayUp, Over
  <2>5. Relayed
    BY <2>2 DEF Relayed
  <2>. QED
    BY <2>3, <2>4, <2>5 DEF AnswersInv
<1>. QED
  BY <1>1, AnswerStep, Invariance, PTL DEF Spec

\* A refused token is answered with 401, or with 500 where ErrorHandler is
\* inside of TokenContext.
THEOREM RefusedWith401 == Spec => []RefusalsAre401
<1>1. AnswersInv => RefusalsAre401
  BY DEF AnswersInv, Over, RefusalsAre401
<1>. QED
  BY <1>1, AnswersInvariance, PTL

\* The second service's status reaches the client of the first one.
THEOREM SurvivingStatus == Spec => []StatusesSurvive
<1>1. AnswersInv => StatusesSurvive
  BY DEF AnswersInv, Relayed, Survivor, StatusesSurvive
<1>. QED
  BY <1>1, AnswersInvariance, PTL

\* The Recorder counts what clients get, once.
THEOREM CountedOnce == Spec => []CountsMatchAnswers
<1>1. RequestsInv /\ AnswersInv => CountsMatchAnswers
  <2> SUFFICES ASSUME RequestsInv, AnswersInv, NEW s \in Services, pc[s] = "done"
               PROVE  /\ Len(counted[s]) <= 1
                      /\ Outside("Recorder", "TokenContext") => Len(counted[s]) = 1
                      /\ counted[s] = <<0>> =>
                            Outside("ErrorHandler", "Recorder") \/ Outside("TokenContext", "ErrorHandler")
                      /\ counted[s] \in {<<>>, <<0>>, <<Class(response[s].status)>>}
    BY DEF CountsMatchAnswers
  <2>1. AnswersHere(s)
    BY AnswersKnown
  <2>2. /\ counted[s] = <<>> => Outside("TokenContext", "Recorder")
        /\ counted[s] \in {<<>>, <<0>>, <<Class(response[s].status)>>}
        /\ counted[s] = <<0>> =>
              Outside("ErrorHandler", "Recorder") \/ Outside("TokenContext", "ErrorHandler")
    BY <2>1 DEF AnswersHere, Over
  <2>3. Outside("Recorder", "TokenContext") => ~Outside("TokenContext", "Recorder")
    BY <2>1 DEF AnswersHere, Placed, Outside, Middlewares
  <2>4. Len(counted[s]) <= 1 /\ (Outside("Recorder", "TokenContext") => Len(counted[s]) = 1)
    <3>1. CASE counted[s] = <<>>
      <4>1. Len(counted[s]) = 0
        BY <3>1
      <4>. QED
        BY <2>2, <2>3, <3>1, <4>1
    <3>2. CASE counted[s] # <<>>
      <4>1. PICK class : counted[s] = <<class>>
        BY <2>2, <3>2
      <4>2. Len(counted[s]) = 1
        BY <4>1
      <4>. QED
        BY <4>2
    <3>. QED
      BY <3>1, <3>2
  <2>. QED
    BY <2>2, <2>4
<1>. QED
  BY <1>1, Invariance, AnswersInvariance, PTL

\* Nothing but the known causes cuts a request off.
THEOREM KnownPanics == Spec => []PanicsAreKnown
<1>1. AnswersInv => PanicsAreKnown
  BY DEF AnswersInv, Over, PanicsAreKnown
<1>. QED
  BY <1>1, AnswersInvariance, PTL

\* The details of internal errors that pass ErrorHandler stay inside.
THEOREM HiddenDetails == Spec => []InternalDetailsHidden
<1>1. RequestsInv /\ AnswersInv => InternalDetailsHidden
  <2> SUFFICES ASSUME RequestsInv, AnswersInv, NEW s \in Services,
                      response[s].detail = "error", Class(response[s].status) = 5
               PROVE  verbose \/ (err[s] # Nil /\ Outside("TokenContext", "ErrorHandler"))
    BY DEF InternalDetailsHidden
  <2>1. AnswersHere(s)
    BY AnswersKnown
  <2>2. pc[s] \in {"up", "done"} \/ verbose
    <3>1. NoResponse.detail # "error"
      BY DEF NoResponse
    <3>2. pc[s] \in {"idle", "down", "handler", "forwarded", "up", "done", "panicked"}
      BY <2>1 DEF AnswersHere
    <3>3. pc[s] \notin {"idle", "down", "handler", "forwarded"}
      BY <2>1, <3>1 DEF AnswersHere, OnTheWayDown
    <3>4. pc[s] = "panicked" => verbose
      BY <2>1 DEF AnswersHere, Over
    <3>. QED
      BY <3>2, <3>3, <3>4
  <2>. QED
    BY <2>1, <2>2 DEF AnswersHere, OnTheWayUp, Over
<1>. QED
  BY <1>1, Invariance, AnswersInvariance, PTL
=============================================================================
