------------------------------- MODULE Sentry -------------------------------
(***************************************************************************)
(* sentry.InitializeSentryClient, its closer, and client.CaptureError: the *)
(* goroutines of requests hand closures over an unbuffered channel to one  *)
(* loop goroutine per client, which runs them against the raven client.    *)
(*                                                                         *)
(* The package keeps the client in a global variable, which every          *)
(* initialization replaces.  raven itself is external: what matters of it  *)
(* is the user context its captures are stamped with.                      *)
(***************************************************************************)
EXTENDS Naturals, Sequences

CONSTANTS
    Clients,    \* calls of InitializeSentryClient, each makes a client
    Requests,   \* calls of CaptureError
    Users,
    UserOf,     \* the user of a request's context, or Nobody
    WithUser,   \* the clients initialized with the option WithUser
    Nobody,     \* no user (nil)
    Nothing     \* no client, no request

ASSUME SentryAssumption ==
    /\ Nobody \notin Users
    /\ UserOf \in [Requests -> Users \cup {Nobody}]
    /\ WithUser \subseteq Clients
    /\ Nothing \notin Clients \cup Requests

VARIABLES
    sentryClient,   \* the global variable
    initPc,         \* where each InitializeSentryClient, or its closer, is
    userInfo,       \* does the client know how to find the user of a context
    open,           \* is the client's channel sendErr open
    loopPc,         \* where the loop goroutine of the client is
    op,             \* the request whose closure the loop is running
    context,        \* the user context of the client's raven.Client
    pc,             \* where each CaptureError is
    client,         \* its receiver c
    user,           \* its local variable
    events          \* per request: the users its raven captures named

clientVars == <<sentryClient, initPc, userInfo, open>>
loopVars == <<loopPc, op, context, events>>
callVars == <<pc, client, user>>
vars == <<clientVars, loopVars, callVars>>

People == Users \cup {Nobody}

TypeOK ==
    /\ sentryClient \in Clients \cup {Nothing}
    /\ initPc \in [Clients -> {"new", "options", "start", "ready", "failed", "closed", "panicked"}]
    /\ userInfo \in [Clients -> BOOLEAN]
    /\ open \in [Clients -> BOOLEAN]
    /\ loopPc \in [Clients -> {"off", "receive", "set", "capture", "clear", "exited"}]
    /\ op \in [Clients -> Requests \cup {Nothing}]
    /\ context \in [Clients -> People]
    /\ pc \in [Requests -> {"call", "user", "send", "returned", "panicked"}]
    /\ client \in [Requests -> Clients \cup {Nothing}]
    /\ user \in [Requests -> People]
    /\ events \in [Requests -> Seq(People)]

Init ==
    /\ sentryClient = Nothing
    /\ initPc = [c \in Clients |-> "new"]
    /\ userInfo = [c \in Clients |-> FALSE]
    /\ open = [c \in Clients |-> FALSE]
    /\ loopPc = [c \in Clients |-> "off"]
    /\ op = [c \in Clients |-> Nothing]
    /\ context = [c \in Clients |-> Nobody]
    /\ pc = [r \in Requests |-> "call"]
    /\ client = [r \in Requests |-> Nothing]
    /\ user = [r \in Requests |-> Nobody]
    /\ events = [r \in Requests |-> <<>>]

InitGoto(c, from, to) == initPc[c] = from /\ initPc' = [initPc EXCEPT ![c] = to]
LoopGoto(c, from, to) == loopPc[c] = from /\ loopPc' = [loopPc EXCEPT ![c] = to]
CallGoto(r, from, to) == pc[r] = from /\ pc' = [pc EXCEPT ![r] = to]

-----------------------------------------------------------------------------
(* InitializeSentryClient.                                                 *)

\* raven.New fails: nothing is published.
NewFails(c) ==
    /\ InitGoto(c, "new", "failed")
    /\ UNCHANGED <<sentryClient, userInfo, open, loopVars, callVars>>

\* The client is in the global variable before it is configured.  One
\* goroutine makes the clients, one after the other.
Publish(c) ==
    /\ \A other \in Clients : initPc[other] \notin {"options", "start"}
    /\ InitGoto(c, "new", "options")
    /\ sentryClient' = c
    /\ open' = [open EXCEPT ![c] = TRUE]
    /\ UNCHANGED <<userInfo, loopVars, callVars>>

\* opt(sentryClient) for every option.
ApplyOptions(c) ==
    /\ InitGoto(c, "options", "start")
    /\ userInfo' = [userInfo EXCEPT ![sentryClient] = (c \in WithUser)]
    /\ UNCHANGED <<sentryClient, open, loopVars, callVars>>

\* Mutant: the loop goroutine is not started.
NoLoop(c) ==
    /\ InitGoto(c, "start", "ready")
    /\ UNCHANGED <<sentryClient, userInfo, open, loopVars, callVars>>

\* go sentryClient.loop()
StartLoop(c) ==
    /\ InitGoto(c, "start", "ready")
    /\ LoopGoto(sentryClient, "off", "receive")
    /\ UNCHANGED <<sentryClient, userInfo, open, op, context, events, callVars>>

\* The function InitializeSentryClient returned for c: it closes the channel
\* of the client that is in the global variable now.
Close(c) ==
    /\ InitGoto(c, "ready", IF open[sentryClient] THEN "closed" ELSE "panicked")
    /\ open' = [open EXCEPT ![sentryClient] = FALSE]
    /\ UNCHANGED <<sentryClient, userInfo, loopVars, callVars>>

-----------------------------------------------------------------------------
(* CaptureError, called as Sentry().CaptureError(ctx, err).                *)

\* Read the global; an uninitialized client is ignored.
Call(r) ==
    /\ CallGoto(r, "call", IF sentryClient = Nothing THEN "returned" ELSE "user")
    /\ client' = [client EXCEPT ![r] = sentryClient]
    /\ UNCHANGED <<clientVars, loopVars, user>>

ExtractUser(r) ==
    /\ CallGoto(r, "user", "send")
    /\ user' = [user EXCEPT ![r] = IF userInfo[client[r]] THEN UserOf[r] ELSE Nobody]
    /\ UNCHANGED <<clientVars, loopVars, client>>

\* The channel is unbuffered: send and receive are one step.
HandOver(r, c) ==
    /\ client[r] = c /\ open[c]
    /\ CallGoto(r, "send", "returned")
    /\ LoopGoto(c, "receive", "set")
    /\ op' = [op EXCEPT ![c] = r]
    /\ UNCHANGED <<clientVars, context, events, client, user>>

\* Sending on a closed channel panics, also for a sender that was waiting.
SendPanics(r) ==
    /\ pc[r] = "send" /\ ~open[client[r]]
    /\ CallGoto(r, "send", "panicked")
    /\ UNCHANGED <<clientVars, loopVars, client, user>>

-----------------------------------------------------------------------------
(* The loop goroutine of client c.                                         *)

\* if user != nil { c.c.SetUserContext(user) }
SetUserContext(c) ==
    /\ LoopGoto(c, "set", "capture")
    /\ context' = [context EXCEPT ![c] = IF user[op[c]] = Nobody THEN @ ELSE user[op[c]]]
    /\ UNCHANGED <<clientVars, op, events, callVars>>

\* raven stamps the packet with the context of the moment.
Capture(c) ==
    /\ LoopGoto(c, "capture", "clear")
    /\ events' = [events EXCEPT ![op[c]] = Append(@, context[c])]
    /\ UNCHANGED <<clientVars, op, context, callVars>>

\* Mutant: the context is not cleared for the next closure.
KeepContext(c) ==
    /\ LoopGoto(c, "clear", "receive")
    /\ op' = [op EXCEPT ![c] = Nothing]
    /\ UNCHANGED <<clientVars, context, events, callVars>>

ClearContext(c) ==
    /\ LoopGoto(c, "clear", "receive")
    /\ op' = [op EXCEPT ![c] = Nothing]
    /\ context' = [context EXCEPT ![c] = Nobody]
    /\ UNCHANGED <<clientVars, events, callVars>>

\* Mutant: the loop looks whether the channel is closed before it runs the
\* closure it received.
DropWhenClosed(c) ==
    /\ ~open[c]
    /\ LoopGoto(c, "receive", "exited") \/ LoopGoto(c, "set", "exited")
    /\ UNCHANGED <<clientVars, op, context, events, callVars>>

\* The range over a closed channel ends.
LoopExits(c) ==
    /\ ~open[c]
    /\ LoopGoto(c, "receive", "exited")
    /\ UNCHANGED <<clientVars, op, context, events, callVars>>

-----------------------------------------------------------------------------
Initialize(c) == Publish(c) \/ ApplyOptions(c) \/ StartLoop(c)
Capturing(r) == Call(r) \/ ExtractUser(r) \/ SendPanics(r)
Loop(c) == SetUserContext(c) \/ Capture(c) \/ ClearContext(c) \/ LoopExits(c)

Next == \/ \E c \in Clients : NewFails(c) \/ Initialize(c) \/ Close(c) \/ Loop(c)
        \/ \E r \in Requests : Capturing(r) \/ \E c \in Clients : HandOver(r, c)

Spec == Init /\ [][Next]_vars

\* Goroutines are scheduled, and the runtime serves the waiting senders of a
\* channel first come, first served.  Nobody is obliged to initialize a client
\* or to close one.
Fairness ==
    /\ \A c \in Clients : /\ WF_vars(ApplyOptions(c) \/ StartLoop(c))
                          /\ WF_vars(Loop(c))
    /\ \A r \in Requests : /\ WF_vars(Capturing(r))
                           /\ \A c \in Clients : SF_vars(HandOver(r, c))

FairSpec == Spec /\ Fairness

-----------------------------------------------------------------------------
\* What reaches raven for a call is at most one event, and it never names
\* another call's user, although all calls share the client's user context,
\* clients are replaced, and channels are closed at any time.
EventsAreOwn ==
    \A r \in Requests : /\ Len(events[r]) <= 1
                        /\ \A k \in DOMAIN events[r] : events[r][k] \in {UserOf[r], Nobody}

\* CaptureError does not block forever: it returns, or panics.
CallsEnd ==
    \A r \in Requests : pc[r] # "call" ~> pc[r] \in {"returned", "panicked"}

\* An error that CaptureError handed to a client reaches raven, also when the
\* client is closed or replaced in the meantime.
HandedOverIsCaptured ==
    \A r \in Requests :
        pc[r] = "returned" /\ client[r] # Nothing ~> Len(events[r]) = 1

-----------------------------------------------------------------------------
\* The loop of c runs a closure, and no other loop runs the same.
Runs(c, r) == loopPc[c] \in {"set", "capture", "clear"} /\ op[c] = r

\* The inductive invariant: between two closures the user context is empty,
\* a running closure belongs to a call that has returned and to no other
\* loop, and its event is made exactly when its user is the context.
SentryInv ==
    /\ TypeOK
    /\ \A c \in Clients :
        /\ loopPc[c] \in {"off", "receive", "set", "exited"} => context[c] = Nobody
        /\ loopPc[c] \in {"set", "capture", "clear"} =>
            /\ op[c] \in Requests
            /\ pc[op[c]] = "returned" /\ client[op[c]] = c
            /\ loopPc[c] \in {"set", "capture"} => events[op[c]] = <<>>
            /\ loopPc[c] = "capture" => context[c] = user[op[c]]
    /\ \A r \in Requests :
        /\ user[r] \in {UserOf[r], Nobody}
        /\ pc[r] # "returned" => events[r] = <<>>
        /\ events[r] \in {<<>>, <<user[r]>>}
=============================================================================
