---------------------------- MODULE SentryProofs ----------------------------
(***************************************************************************)
(* Proofs about Sentry, for any number of clients, calls and users.        *)
(***************************************************************************)
EXTENDS Sentry, TLAPS

\* What the invariant says of the loop of one client.
LoopInv(c) ==
    /\ loopPc[c] \in {"off", "receive", "set", "exited"} => context[c] = Nobody
    /\ loopPc[c] \in {"set", "capture", "clear"} =>
        /\ op[c] \in Requests
        /\ pc[op[c]] = "returned" /\ client[op[c]] = c
        /\ loopPc[c] \in {"set", "capture"} => events[op[c]] = <<>>
        /\ loopPc[c] = "capture" => context[c] = user[op[c]]

\* What it says of one call.
CallInv(r) ==
    /\ user[r] \in {UserOf[r], Nobody}
    /\ pc[r] # "returned" => events[r] = <<>>
    /\ events[r] \in {<<>>, <<user[r]>>}

\* The invariant is the types, every loop and every call.
LEMMA InvParts ==
    SentryInv <=> /\ TypeOK
                  /\ \A c \in Clients : LoopInv(c)
                  /\ \A r \in Requests : CallInv(r)
BY DEF SentryInv, LoopInv, CallInv

\* Initial states satisfy the invariant.
LEMMA InitInv == Init => SentryInv
<1> SUFFICES ASSUME Init PROVE SentryInv
  OBVIOUS
<1> USE SentryAssumption DEF Init
<1>1. TypeOK
  BY DEF TypeOK, People
<1>2. \A c \in Clients : LoopInv(c)
  BY DEF LoopInv
<1>3. \A r \in Requests : CallInv(r)
  BY DEF CallInv
<1> QED
  BY <1>1, <1>2, <1>3, InvParts

-----------------------------------------------------------------------------
(* Steps.                                                                  *)

\* Making and closing clients leaves loops and calls as they are, but for a
\* loop that starts to receive.
LEMMA ClientSteps ==
    ASSUME SentryInv, NEW c \in Clients, NewFails(c) \/ Initialize(c) \/ Close(c)
    PROVE  SentryInv'
<1> USE SentryAssumption
<1>1. TypeOK /\ (\A d \in Clients : LoopInv(d)) /\ \A r \in Requests : CallInv(r)
  BY InvParts
<1>2. TypeOK'
  <2>1. CASE NewFails(c)
    BY <1>1, <2>1 DEF TypeOK, NewFails, InitGoto, loopVars, callVars
  <2>2. CASE Publish(c)
    BY <1>1, <2>2 DEF TypeOK, Publish, InitGoto, loopVars, callVars
  <2>3. CASE ApplyOptions(c)
    <3>1. (c \in WithUser) \in BOOLEAN
      OBVIOUS
    <3>2. userInfo' \in [Clients -> BOOLEAN]
      BY <1>1, <2>3, <3>1 DEF TypeOK, ApplyOptions
    <3> QED
      BY <1>1, <2>3, <3>2 DEF TypeOK, ApplyOptions, InitGoto, loopVars, callVars
  <2>4. CASE StartLoop(c)
    BY <1>1, <2>4 DEF TypeOK, StartLoop, InitGoto, LoopGoto, callVars
  <2>5. CASE Close(c)
    <3>1. open' \in [Clients -> BOOLEAN] /\ initPc' \in [Clients -> {"new", "options", "start",
            "ready", "failed", "closed", "panicked"}]
      BY <1>1, <2>5 DEF TypeOK, Close, InitGoto
    <3> QED
      BY <1>1, <2>5, <3>1 DEF TypeOK, Close, loopVars, callVars
  <2> QED
    BY <2>1, <2>2, <2>3, <2>4, <2>5 DEF Initialize
<1>3. UNCHANGED <<op, context, events, pc, client, user>>
  BY DEF NewFails, Initialize, Publish, ApplyOptions, StartLoop, Close, loopVars, callVars
<1>4. ASSUME NEW d \in Clients
      PROVE  loopPc'[d] = loopPc[d] \/ (loopPc[d] = "off" /\ loopPc'[d] = "receive")
  BY <1>1, <1>4 DEF TypeOK, NewFails, Initialize, Publish, ApplyOptions, StartLoop, Close,
              LoopGoto, loopVars
<1>5. ASSUME NEW d \in Clients PROVE LoopInv(d)'
  <2>1. LoopInv(d)
    BY <1>1
  <2> QED
    BY <1>3, <1>4, <2>1 DEF LoopInv
<1>6. ASSUME NEW r \in Requests PROVE CallInv(r)'
  BY <1>1, <1>3 DEF CallInv
<1> QED
  BY <1>2, <1>5, <1>6 DEF SentryInv, LoopInv, CallInv

\* A call reads the client and its user, panics or stays: nothing is running
\* for it yet.
LEMMA CallSteps ==
    ASSUME SentryInv, NEW r \in Requests, Capturing(r)
    PROVE  SentryInv'
<1> USE SentryAssumption
<1>1. TypeOK /\ (\A d \in Clients : LoopInv(d)) /\ \A q \in Requests : CallInv(q)
  BY InvParts
<1>2. UNCHANGED <<clientVars, loopVars>>
  BY DEF Capturing, Call, ExtractUser, SendPanics
<1>3. /\ pc[r] \in {"call", "user", "send"} /\ pc' = [pc EXCEPT ![r] = pc'[r]]
      /\ pc'[r] \in {"user", "send", "returned", "panicked"}
      /\ client' = [client EXCEPT ![r] = client'[r]] /\ client'[r] \in Clients \cup {Nothing}
      /\ user' = [user EXCEPT ![r] = user'[r]] /\ user'[r] \in {UserOf[r], Nobody}
  <2>1. CASE Call(r)
    BY <1>1, <2>1 DEF TypeOK, Call, CallGoto, CallInv
  <2>2. CASE ExtractUser(r)
    BY <1>1, <2>2 DEF TypeOK, ExtractUser, CallGoto
  <2>3. CASE SendPanics(r)
    BY <1>1, <2>3 DEF TypeOK, SendPanics, CallGoto, CallInv
  <2> QED
    BY <2>1, <2>2, <2>3 DEF Capturing
<1>4. TypeOK'
  <2>1. pc' \in [Requests -> {"call", "user", "send", "returned", "panicked"}]
    BY <1>1, <1>3 DEF TypeOK
  <2>2. client' \in [Requests -> Clients \cup {Nothing}]
    BY <1>1, <1>3 DEF TypeOK
  <2>3. user' \in [Requests -> People]
    BY <1>1, <1>3 DEF TypeOK, People
  <2> QED
    BY <1>1, <1>2, <2>1, <2>2, <2>3 DEF TypeOK, clientVars, loopVars
<1>5. ASSUME NEW d \in Clients PROVE LoopInv(d)'
  <2>1. LoopInv(d)
    BY <1>1
  <2> QED
    BY <1>1, <1>2, <1>3, <2>1 DEF LoopInv, TypeOK, loopVars
<1>6. ASSUME NEW q \in Requests PROVE CallInv(q)'
  <2>1. CallInv(q) /\ CallInv(r)
    BY <1>1
  <2> QED
    BY <1>1, <1>2, <1>3, <2>1 DEF CallInv, TypeOK, loopVars
<1> QED
  BY <1>4, <1>5, <1>6 DEF SentryInv, LoopInv, CallInv

\* The hand-over: the call returns and its closure is the loop's.
LEMMA HandOverStep ==
    ASSUME SentryInv, NEW r \in Requests, NEW c \in Clients, HandOver(r, c)
    PROVE  SentryInv'
<1> USE SentryAssumption
<1>1. TypeOK /\ (\A d \in Clients : LoopInv(d)) /\ \A q \in Requests : CallInv(q)
  BY InvParts
<1>2. /\ client[r] = c /\ pc[r] = "send" /\ pc' = [pc EXCEPT ![r] = "returned"]
      /\ loopPc[c] = "receive" /\ loopPc' = [loopPc EXCEPT ![c] = "set"]
      /\ op' = [op EXCEPT ![c] = r]
      /\ UNCHANGED <<clientVars, context, events, client, user>>
  BY DEF HandOver, CallGoto, LoopGoto
<1>3. TypeOK'
  BY <1>1, <1>2 DEF TypeOK, clientVars
<1>4. ASSUME NEW d \in Clients PROVE LoopInv(d)'
  <2>1. LoopInv(d) /\ LoopInv(c) /\ CallInv(r)
    BY <1>1
  <2>2. CASE d = c
    BY <1>1, <1>2, <2>1, <2>2 DEF LoopInv, CallInv, TypeOK
  <2>3. CASE d # c
    BY <1>1, <1>2, <2>1, <2>3 DEF LoopInv, TypeOK
  <2> QED
    BY <2>2, <2>3
<1>5. ASSUME NEW q \in Requests PROVE CallInv(q)'
  <2>1. CallInv(q)
    BY <1>1
  <2> QED
    BY <1>1, <1>2, <2>1 DEF CallInv, TypeOK
<1> QED
  BY <1>3, <1>4, <1>5 DEF SentryInv, LoopInv, CallInv

\* The steps of a loop: the context is the closure's user from setting it to
\* clearing it, and the one event is made in between.  No other loop runs the
\* same closure, because a call belongs to one client.
LEMMA LoopSteps ==
    ASSUME SentryInv, NEW c \in Clients, Loop(c)
    PROVE  SentryInv'
<1> USE SentryAssumption
<1>1. TypeOK /\ (\A d \in Clients : LoopInv(d)) /\ \A q \in Requests : CallInv(q)
  BY InvParts
<1>2. UNCHANGED <<clientVars, pc, client, user>>
  BY DEF Loop, SetUserContext, Capture, ClearContext, LoopExits, callVars
<1>3. LoopInv(c) /\ (loopPc[c] \in {"set", "capture", "clear"} => op[c] \in Requests)
  BY <1>1 DEF LoopInv
<1>4. CASE SetUserContext(c)
  <2>1. loopPc[c] = "set" /\ op[c] \in Requests /\ context[c] = Nobody
    BY <1>3, <1>4 DEF SetUserContext, LoopGoto, LoopInv
  <2>2. /\ loopPc' = [loopPc EXCEPT ![c] = "capture"]
        /\ context' = [context EXCEPT ![c] = user[op[c]]]
        /\ UNCHANGED <<op, events>>
    BY <1>4, <2>1 DEF SetUserContext, LoopGoto
  <2>3. TypeOK'
    BY <1>1, <1>2, <2>1, <2>2 DEF TypeOK, clientVars
  <2>4. ASSUME NEW d \in Clients PROVE LoopInv(d)'
    <3>1. LoopInv(d)
      BY <1>1
    <3> QED
      BY <1>1, <1>2, <1>3, <2>1, <2>2, <3>1 DEF LoopInv, TypeOK
  <2>5. ASSUME NEW q \in Requests PROVE CallInv(q)'
    BY <1>1, <1>2, <2>2 DEF CallInv
  <2> QED
    BY <2>3, <2>4, <2>5 DEF SentryInv, LoopInv, CallInv
<1>5. CASE Capture(c)
  <2>1. /\ loopPc[c] = "capture" /\ op[c] \in Requests /\ context[c] = user[op[c]]
        /\ events[op[c]] = <<>> /\ client[op[c]] = c /\ pc[op[c]] = "returned"
    BY <1>3, <1>5 DEF Capture, LoopGoto, LoopInv
  <2>2. /\ loopPc' = [loopPc EXCEPT ![c] = "clear"]
        /\ UNCHANGED <<op, context>>
        /\ events' = [events EXCEPT ![op[c]] = Append(@, context[c])]
    BY <1>5 DEF Capture, LoopGoto
  <2>3. Append(events[op[c]], context[c]) = <<user[op[c]]>>
    BY <2>1
  <2>4. <<user[op[c]]>> \in Seq(People)
    BY <1>1, <2>1 DEF TypeOK
  <2>5. TypeOK'
    BY <1>1, <1>2, <2>1, <2>2, <2>3, <2>4 DEF TypeOK, clientVars
  <2>6. ASSUME NEW d \in Clients PROVE LoopInv(d)'
    <3>1. LoopInv(d)
      BY <1>1
    <3>2. CASE d = c
      BY <1>1, <1>2, <2>1, <2>2, <3>2 DEF LoopInv, TypeOK
    <3>3. CASE d # c
      <4>1. loopPc[d] \in {"set", "capture", "clear"} => op[d] # op[c]
        BY <2>1, <3>1, <3>3 DEF LoopInv
      <4> QED
        BY <1>1, <1>2, <2>2, <3>1, <3>3, <4>1 DEF LoopInv, TypeOK
    <3> QED
      BY <3>2, <3>3
  <2>7. ASSUME NEW q \in Requests PROVE CallInv(q)'
    <3>1. CallInv(q)
      BY <1>1
    <3>2. CASE q = op[c]
      BY <1>1, <1>2, <2>1, <2>2, <2>3, <3>1, <3>2 DEF CallInv, TypeOK
    <3>3. CASE q # op[c]
      BY <1>1, <1>2, <2>1, <2>2, <3>1, <3>3 DEF CallInv, TypeOK
    <3> QED
      BY <3>2, <3>3
  <2> QED
    BY <2>5, <2>6, <2>7 DEF SentryInv, LoopInv, CallInv
<1>6. CASE ClearContext(c) \/ LoopExits(c)
  <2>1. UNCHANGED events
    BY <1>6 DEF ClearContext, LoopExits
  <2>2. TypeOK'
    <3>1. CASE ClearContext(c)
      BY <1>1, <1>2, <3>1 DEF TypeOK, ClearContext, LoopGoto, clientVars, People
    <3>2. CASE LoopExits(c)
      BY <1>1, <1>2, <3>2 DEF TypeOK, LoopExits, LoopGoto, clientVars
    <3> QED
      BY <1>6, <3>1, <3>2
  <2>3. ASSUME NEW d \in Clients PROVE LoopInv(d)'
    <3>1. LoopInv(d)
      BY <1>1
    <3>2. CASE ClearContext(c)
      BY <1>1, <1>2, <3>1, <3>2 DEF LoopInv, ClearContext, LoopGoto, TypeOK
    <3>3. CASE LoopExits(c)
      BY <1>1, <1>2, <3>1, <3>3 DEF LoopInv, LoopExits, LoopGoto, TypeOK
    <3> QED
      BY <1>6, <3>2, <3>3
  <2>4. ASSUME NEW q \in Requests PROVE CallInv(q)'
    BY <1>1, <1>2, <2>1 DEF CallInv
  <2> QED
    BY <2>2, <2>3, <2>4 DEF SentryInv, LoopInv, CallInv
<1> QED
  BY <1>4, <1>5, <1>6 DEF Loop

\* The invariant is inductive.
LEMMA Inductive == SentryInv /\ [Next]_vars => SentryInv'
<1> SUFFICES ASSUME SentryInv, [Next]_vars PROVE SentryInv'
  OBVIOUS
<1>1. CASE UNCHANGED vars
  BY <1>1 DEF vars, clientVars, loopVars, callVars, SentryInv, TypeOK
<1>2. CASE Next
  BY <1>2, ClientSteps, CallSteps, HandOverStep, LoopSteps DEF Next
<1> QED
  BY <1>1, <1>2

-----------------------------------------------------------------------------
(* The theorems.                                                           *)

\* The inductive invariant holds in every reachable state.
THEOREM Invariance == Spec => []SentryInv
BY InitInv, Inductive, PTL DEF Spec

\* Every call makes at most one event, which names its own user or nobody,
\* however many calls and clients share the package.
THEOREM NoForeignUser == Spec => []EventsAreOwn
<1>1. SentryInv => EventsAreOwn
  <2> SUFFICES ASSUME SentryInv, NEW r \in Requests
               PROVE  /\ Len(events[r]) <= 1
                      /\ \A k \in DOMAIN events[r] : events[r][k] \in {UserOf[r], Nobody}
    BY DEF EventsAreOwn
  <2>1. user[r] \in {UserOf[r], Nobody} /\ events[r] \in {<<>>, <<user[r]>>}
    BY DEF SentryInv
  <2>2. CASE events[r] = <<>>
    <3>1. Len(events[r]) = 0 /\ DOMAIN events[r] = {}
      BY <2>2
    <3> QED
      BY <3>1
  <2>3. CASE events[r] = <<user[r]>>
    <3>1. /\ Len(events[r]) = 1 /\ DOMAIN events[r] = {1}
          /\ events[r][1] = user[r]
      BY <2>3
    <3> QED
      BY <2>1, <3>1
  <2> QED
    BY <2>1, <2>2, <2>3
<1> QED
  BY <1>1, Invariance, PTL

=============================================================================
