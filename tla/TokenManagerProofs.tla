------------------------- MODULE TokenManagerProofs -------------------------
(***************************************************************************)
(* What NewManager and DefaultManager promise, for any number of callers,  *)
(* any configurations and any answers of the Auth service.  What the calls *)
(* of FetchKeys keep is proved in AuthClientProofs.                        *)
(***************************************************************************)
EXTENDS TokenManager, AuthClientProofs, TLAPS

\* A manager or an error is never taken for the zero values of the globals.
LEMMA BuiltIsSomething ==
    ASSUME NEW c \in Calls
    PROVE  Built(c) # Nothing /\ Built(c) \in Outcomes
<1>1. RemoteKeys(c) \cup DevKeys(c) \in SUBSET {"auth", "dev"}
  BY DEF RemoteKeys, DevKeys
<1>2. RemoteKeys(c) \cup DevKeys(c) # NoManager
  BY <1>1 DEF NoManager
<1>. QED
  BY <1>1, <1>2 DEF Built, ManagerOf, Failure, Nothing, NoManager, Outcomes

\* The steps of FetchKeys, of direct callers and of the Once preserve it.
LEMMA OnceStep ==
    OnceInv /\ [ManagerNext]_allVars => OnceInv'
<1> SUFFICES ASSUME OnceInv, [ManagerNext]_allVars PROVE OnceInv'
  OBVIOUS
<1> USE TokenManagerAssumption
<1>1. CASE UNCHANGED allVars
  BY <1>1 DEF OnceInv, allVars, managerVars
<1>2. CASE ManagerNext
  <2>0. PICK c \in Calls : Manager(c)
    BY <1>2 DEF ManagerNext
  <2>1. CASE NewManager(c)
    BY <2>1 DEF OnceInv, NewManager, StepTo
  <2>2. CASE Fetch(c)
    BY <2>2 DEF OnceInv, Fetch, managerVars
  <2>3. CASE NewManagerReturns(c)
    BY <2>3, BuiltIsSomething DEF OnceInv, NewManagerReturns, Returns, StepTo
  <2>4. CASE NewManagerPanics(c)
    BY <2>4 DEF OnceInv, NewManagerPanics, StepTo
  <2>5. CASE EnterOnce(c)
    BY <2>5 DEF OnceInv, EnterOnce, StepTo
  <2>6. CASE OnceReturns(c)
    <3>1. Built(c) # Nothing
      BY BuiltIsSomething
    <3>2. \A d \in DefaultCallers : step'[d] # "fetch" /\ (step'[d] = "returned" => d = c)
      BY <2>6 DEF OnceInv, OnceReturns, Returns, StepTo
    <3>3. returned'[c] = default' /\ once' = "done" /\ default' # Nothing
      BY <2>6, <3>1 DEF OnceInv, OnceReturns, Returns
    <3>4. step' \in [Calls -> {"call", "fetch", "returned", "panicked"}] /\ returned' \in [Calls -> Outcomes] /\ default' \in Outcomes
      BY <2>6, BuiltIsSomething DEF OnceInv, OnceReturns, Returns, StepTo
    <3>5. OnceInv'
      BY <3>2, <3>3, <3>4 DEF OnceInv
    <3>. QED
      BY <3>5
  <2>7. CASE ReturnsDefault(c)
    BY <2>7 DEF OnceInv, ReturnsDefault, StepTo
  <2>. QED
    BY <2>0, <2>1, <2>2, <2>3, <2>4, <2>5, <2>6, <2>7 DEF Manager, DefaultManager
<1>. QED
  BY <1>1, <1>2

\* The invariant of the Once holds in every state.
THEOREM OnceInvariance == ManagerSpec => []OnceInv
<1>1. ManagerInit => OnceInv
  BY TokenManagerAssumption DEF ManagerInit, OnceInv, Nothing, NoManager, Outcomes
<1>. QED
  BY <1>1, OnceStep, PTL DEF ManagerSpec

\* All callers of DefaultManager get the same manager and error.
THEOREM Agreement == ManagerSpec => []CallersAgree
<1>1. OnceInv => CallersAgree
  BY DEF OnceInv, CallersAgree
<1>. QED
  BY <1>1, OnceInvariance, PTL

\* DefaultManager returns nothing only after a panic of the first caller.
THEOREM NothingNeedsPanic == ManagerSpec => []NothingOnlyAfterPanic
<1>1. OnceInv => NothingOnlyAfterPanic
  BY DEF OnceInv, NothingOnlyAfterPanic
<1>. QED
  BY <1>1, OnceInvariance, PTL

-----------------------------------------------------------------------------
(* What a manager is made of.                                              *)

\* The whole of a 200 answer was read, and the result is what it grants.
Fetched(c) ==
    /\ answer[c].status = "ok" /\ answer[c].body # "cut" /\ body[c] = "drained"
    /\ \/ result[c] = "granted" /\ answer[c].payload = "granted"
       \/ result[c] = "empty" /\ answer[c].payload = "withheld"

FetchInv(c) == pc[c] \in {"close", "returned"} => result[c] = "error" \/ Fetched(c)

\* A result of NewManager is built from what its own call fetched, and so are
\* the globals, from the call of one that has returned.
WholeInv ==
    /\ ClientInv
    /\ \A c \in Calls : FetchInv(c)
    /\ \A c \in Calls \ DefaultCallers :
          step[c] = "returned" => pc[c] = "returned" /\ returned[c] = Built(c)
    /\ default # Nothing =>
          \E d \in DefaultCallers :
              step[d] = "returned" /\ pc[d] = "returned" /\ default = Built(d)

\* A step of FetchKeys is about its own call only, and ends with the verdict
\* of a whole answer or an error.
LEMMA FetchStep ==
  ASSUME TypeOK, NEW c \in Calls, FetchKeys(c), FetchInv(c)
  PROVE  /\ \A d \in Calls \ {c} : /\ pc'[d] = pc[d] /\ answer'[d] = answer[d]
                                   /\ body'[d] = body[d] /\ result'[d] = result[d]
         /\ FetchInv(c)'
<1> USE DEF TypeOK, Goto, FetchInv, Fetched
<1>1. CASE Configure(c)
  BY <1>1 DEF Configure
<1>2. CASE AssignTransport(c)
  BY <1>2 DEF AssignTransport
<1>3. CASE Send(c) \/ SendTorn(c)
  BY <1>3 DEF Send, SendTorn
<1>4. CASE RequestFails(c)
  BY <1>4 DEF RequestFails, Return
<1>5. CASE Receive(c)
  BY <1>5 DEF Receive
<1>6. CASE ReadKeys(c)
  <2>1. answer[c] \in Answers \cup {NoAnswer}
    OBVIOUS
  <2>2. answer[c].payload \in {"granted", "withheld", "damaged", "null", "garbage"}
    BY <2>1 DEF Answers, NoAnswer
  <2>3. /\ UNCHANGED answer /\ pc' = [pc EXCEPT ![c] = "close"]
        /\ body' = [body EXCEPT ![c] = Drained(c)]
        /\ result' = [result EXCEPT ![c] = FetchedKeys(c)]
    BY <1>6 DEF ReadKeys
  <2>4. FetchedKeys(c) # "error" =>
          /\ answer[c].status = "ok" /\ answer[c].body # "cut" /\ Drained(c) = "drained"
          /\ \/ FetchedKeys(c) = "granted" /\ answer[c].payload = "granted"
             \/ FetchedKeys(c) = "empty" /\ answer[c].payload = "withheld"
    BY <2>2 DEF FetchedKeys, Drained
  <2>. QED
    BY <2>3, <2>4
<1>7. CASE CloseResponse(c)
  BY <1>7 DEF CloseResponse, Drained, Unwound
<1>. QED
  BY <1>1, <1>2, <1>3, <1>4, <1>5, <1>6, <1>7 DEF FetchKeys, Do

\* Every step preserves the invariant.
LEMMA WholeStep == OnceInv /\ WholeInv /\ [ManagerNext]_allVars => WholeInv'
<1> SUFFICES ASSUME OnceInv, WholeInv, [ManagerNext]_allVars PROVE WholeInv'
  OBVIOUS
<1>0. DOMAIN step = Calls /\ DOMAIN returned = Calls
  BY DEF OnceInv
<1> USE TokenManagerAssumption
<1>1. CASE UNCHANGED vars
  <2>1. ClientInv' /\ (\A c \in Calls : FetchInv(c)' /\ Built(c)' = Built(c)) /\ pc' = pc
    BY <1>1, ClientStep DEF WholeInv, FetchInv, Fetched, Built, RemoteKeys, DevKeys, vars
  <2>2. CASE UNCHANGED managerVars
    BY <2>1, <2>2 DEF WholeInv, managerVars
  <2>3. ASSUME NEW c \in Calls,
               \/ NewManager(c) \/ NewManagerPanics(c) \/ EnterOnce(c) \/ ReturnsDefault(c)
        PROVE  WholeInv'
    <3>1. /\ \A d \in Calls \ DefaultCallers :
                step'[d] = "returned" => step[d] = "returned" /\ returned'[d] = returned[d]
          /\ \A d \in Calls : step[d] = "returned" => step'[d] = "returned"
          /\ default' = default
      <4>1. /\ \E to \in {"fetch", "panicked", "returned"} : step' = [step EXCEPT ![c] = to]
            /\ step[c] # "returned" /\ default' = default
        BY <2>3 DEF NewManager, NewManagerPanics, EnterOnce, ReturnsDefault, StepTo
      <4>2. c \in DefaultCallers \/ (returned' = returned /\ step'[c] # "returned")
        BY <1>0, <2>3 DEF NewManager, NewManagerPanics, EnterOnce, ReturnsDefault, StepTo
      <4>3. \A d \in Calls \ {c} : step'[d] = step[d] /\ returned'[d] = returned[d]
        BY <1>0, <2>3 DEF NewManager, NewManagerPanics, EnterOnce, ReturnsDefault, StepTo
      <4>. QED
        BY <1>0, <4>1, <4>2, <4>3
    <3>. QED
      BY <2>1, <3>1 DEF WholeInv
  <2>4. ASSUME NEW c \in Calls, NewManagerReturns(c) PROVE WholeInv'
    <3>1. /\ pc[c] = "returned" /\ c \notin DefaultCallers /\ step[c] = "fetch"
          /\ step' = [step EXCEPT ![c] = "returned"]
          /\ returned' = [returned EXCEPT ![c] = Built(c)] /\ default' = default
      BY <2>4 DEF NewManagerReturns, Returns, StepTo
    <3>2. \A d \in Calls : step[d] = "returned" => step'[d] = "returned" /\ returned'[d] = returned[d]
      BY <1>0, <3>1
    <3>3. \A d \in Calls \ DefaultCallers :
            step'[d] = "returned" => pc'[d] = "returned" /\ returned'[d] = Built(d)'
      <4>1. pc'[c] = "returned" /\ returned'[c] = Built(c)'
        BY <1>0, <2>1, <3>1
      <4>2. \A d \in Calls \ {c} : step'[d] = step[d] /\ returned'[d] = returned[d]
        BY <1>0, <3>1
      <4>. QED
        BY <2>1, <4>1, <4>2 DEF WholeInv
    <3>4. default' # Nothing =>
            \E d \in DefaultCallers :
                step'[d] = "returned" /\ pc'[d] = "returned" /\ default' = Built(d)'
      BY <2>1, <3>1, <3>2 DEF WholeInv
    <3>. QED
      BY <2>1, <3>3, <3>4 DEF WholeInv
  <2>5. ASSUME NEW c \in Calls, OnceReturns(c) PROVE WholeInv'
    <3>1. /\ pc[c] = "returned" /\ c \in DefaultCallers /\ step[c] = "fetch"
          /\ step' = [step EXCEPT ![c] = "returned"]
          /\ returned' = [returned EXCEPT ![c] = Built(c)] /\ default' = Built(c)
      BY <2>5 DEF OnceReturns, Returns, StepTo
    <3>2. \A d \in Calls \ DefaultCallers : step'[d] = step[d] /\ returned'[d] = returned[d]
      BY <1>0, <3>1
    <3>3. step'[c] = "returned" /\ pc'[c] = "returned" /\ default' = Built(c)'
      BY <1>0, <2>1, <3>1
    <3>. QED
      BY <2>1, <3>1, <3>2, <3>3 DEF WholeInv
  <2>6. ASSUME NEW c \in Calls, Fetch(c) PROVE WholeInv'
    BY <2>2, <2>6 DEF Fetch
  <2>. QED
    BY <2>2, <2>3, <2>4, <2>5, <2>6 DEF ManagerNext, Manager, DefaultManager, allVars
<1>2. ASSUME NEW c \in Calls, Fetch(c) PROVE WholeInv'
  <2>1. FetchKeys(c) /\ step[c] = "fetch" /\ UNCHANGED <<step, returned, default>>
    BY <1>2 DEF Fetch, managerVars
  <2>2. ClientInv'
    BY <2>1, ClientStep DEF WholeInv, Next, Call
  <2>3. /\ \A d \in Calls \ {c} : /\ pc'[d] = pc[d] /\ answer'[d] = answer[d]
                                  /\ body'[d] = body[d] /\ result'[d] = result[d]
        /\ FetchInv(c)'
    BY <2>1, FetchStep DEF WholeInv, ClientInv
  <2>4. \A d \in Calls : FetchInv(d)'
    BY <2>3 DEF WholeInv, FetchInv, Fetched
  <2>5. \A d \in Calls \ {c} : Built(d)' = Built(d) /\ pc'[d] = pc[d]
    BY <2>3 DEF Built, RemoteKeys, DevKeys
  <2>6. \A d \in Calls : step[d] = "returned" => Built(d)' = Built(d) /\ pc'[d] = pc[d]
    BY <2>1, <2>5
  <2>. QED
    BY <2>1, <2>2, <2>4, <2>6 DEF WholeInv
<1>3. ASSUME NEW c \in Calls, Manager(c), ~Fetch(c) PROVE UNCHANGED vars
  BY <1>3 DEF Manager, DefaultManager, NewManager, NewManagerReturns, NewManagerPanics,
    EnterOnce, OnceReturns, ReturnsDefault
<1>. QED
  BY <1>1, <1>2, <1>3 DEF ManagerNext, allVars

\* Whatever the service answers, and however the calls race, a manager has all
\* the keys of one 200 answer that was read to its end, and the dev-mode key.
THEOREM Wholeness == ManagerSpec => []ManagersAreWhole
<1>1. ManagerInit => WholeInv
  BY Initially, TokenManagerAssumption DEF ManagerInit, Init, WholeInv, FetchInv
<1>2. OnceInv /\ WholeInv => ManagersAreWhole
  <2> SUFFICES ASSUME OnceInv, WholeInv, NEW c \in Calls,
                      step[c] = "returned", returned[c].manager # NoManager
               PROVE  \E d \in Calls :
                        /\ (c \notin DefaultCallers => d = c) /\ (c \in DefaultCallers => d \in DefaultCallers)
                        /\ answer[d].status = "ok" /\ body[d] = "drained"
                        /\ DevKey[d] # "invalid"
                        /\ "auth" \in returned[c].manager <=> answer[d].payload = "granted"
                        /\ "dev" \in returned[c].manager <=> DevKey[d] = "valid"
    BY DEF ManagersAreWhole
  <2>1. ASSUME NEW d \in Calls, pc[d] = "returned", returned[c] = Built(d)
        PROVE  /\ answer[d].status = "ok" /\ body[d] = "drained"
               /\ DevKey[d] # "invalid"
               /\ "auth" \in returned[c].manager <=> answer[d].payload = "granted"
               /\ "dev" \in returned[c].manager <=> DevKey[d] = "valid"
    <3>1. result[d] # "error" /\ DevKey[d] # "invalid"
      BY <2>1 DEF Built, Failure
    <3>2. Fetched(d)
      BY <2>1, <3>1 DEF WholeInv, FetchInv
    <3>3. returned[c].manager = RemoteKeys(d) \cup DevKeys(d)
      BY <2>1, <3>1 DEF Built, ManagerOf
    <3>. QED
      BY <3>1, <3>2, <3>3 DEF Fetched, RemoteKeys, DevKeys
  <2>2. CASE c \notin DefaultCallers
    BY <2>1, <2>2 DEF WholeInv
  <2>3. CASE c \in DefaultCallers
    <3>1. returned[c] = default /\ default # Nothing
      BY <2>3 DEF OnceInv, Nothing
    <3>2. PICK d \in DefaultCallers : pc[d] = "returned" /\ default = Built(d)
      BY <3>1 DEF WholeInv
    <3>. QED
      BY <2>1, <2>3, <3>1, <3>2, TokenManagerAssumption
  <2>. QED
    BY <2>2, <2>3
<1>. QED
  BY <1>1, <1>2, WholeStep, OnceInvariance, PTL DEF ManagerSpec
=============================================================================
