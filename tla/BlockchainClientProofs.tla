------------------------ MODULE BlockchainClientProofs ------------------------
(***************************************************************************)
(* The circuit breaker of the client, for any number of requests and any   *)
(* retries, threshold and pause.                                           *)
(*                                                                         *)
(* The argument: one call at a time holds the loop, so the failure that    *)
(* opens the breaker is one of the call that is under way, and that call   *)
(* stops attempting with it.  How long a call has held the loop is bounded *)
(* by the attempts so far and the sleeps between them, which add up to one *)
(* less than the next sleep.  Only the call under way could close a        *)
(* breaker early, and it ends when the breaker opens.                      *)
(***************************************************************************)
EXTENDS BlockchainClient, TLAPS

USE ClientAssumption

Holds(r) == req[r].pc \in {"calling", "sleeping"}

\* The part of the type invariant the breaker needs.
ClientParts ==
    /\ service \in Request \union {Null}
    /\ failures \in [Request -> 0 .. Threshold]
    /\ quiet \in [Request -> 0 .. Pause]
    /\ req \in [Request -> RequestState]

\* A request that has constructed a client finds one, and calls one.
ClientsExist ==
    \A r \in Request :
        /\ req[r].pc = "constructed" => service # Null
        /\ req[r].pc \in {"ready", "calling", "sleeping"} => req[r].client \in Request

OneHoldsTheLoop ==
    \A r, s \in Request : Holds(r) /\ Holds(s) => r = s

ClientInv ==
    /\ ClientParts
    /\ ClientsExist
    /\ OneHoldsTheLoop
    /\ PausedMeansQuiet

-----------------------------------------------------------------------------

LEMMA InitImpliesClientInv == Init => ClientInv
BY DEF Init, ClientInv, ClientParts, ClientsExist, OneHoldsTheLoop, PausedMeansQuiet,
   Holds, New, RequestState

\* What a failure does to the counters.
LEMMA FailureIsRecorded ==
    ASSUME ClientParts, NEW i \in Request, RecordFailure(i)
    PROVE  /\ failures' \in [Request -> 0 .. Threshold]
           /\ quiet' \in [Request -> 0 .. Pause]
<1>1. failures[i] \in 0 .. Threshold
  BY DEF ClientParts
<1>2. AtMost(failures[i] + 1, Threshold) \in 0 .. Threshold
  BY <1>1 DEF AtMost
<1> QED
  BY <1>2 DEF ClientParts, RecordFailure

\* Counters and requests keep values of their domains, and a client that was
\* published stays.
LEMMA PartsArePreserved ==
    ASSUME ClientInv, [Next]_vars
    PROVE  ClientParts' /\ ClientsExist'
<1>0. ClientParts /\ ClientsExist
  BY DEF ClientInv
<1> USE DEF ClientParts, ClientsExist, RequestState
<1>1. CASE UNCHANGED vars
  BY <1>0, <1>1 DEF vars
<1>2. CASE Tick
  <2>1. \A i \in Request : AtMost(quiet[i] + 1, Pause) \in 0 .. Pause
    BY <1>0 DEF AtMost
  <2>2. quiet' \in [Request -> 0 .. Pause]
    BY <1>2, <2>1 DEF Tick
  <2> QED
    BY <1>0, <1>2, <2>2 DEF Tick
<1>3. ASSUME NEW r \in Request, GetClient(r)
      PROVE  ClientParts' /\ ClientsExist'
  BY <1>0, <1>3 DEF GetClient, Goto
<1>4. ASSUME NEW r \in Request, Construct(r)
      PROVE  ClientParts' /\ ClientsExist'
  BY <1>0, <1>4 DEF Construct, Goto
<1>5. ASSUME NEW r \in Request, ConstructFails(r)
      PROVE  ClientParts' /\ ClientsExist'
  BY <1>0, <1>5 DEF ConstructFails, Goto
<1>6. ASSUME NEW r \in Request, Injected(r)
      PROVE  ClientParts' /\ ClientsExist'
  BY <1>0, <1>6 DEF Injected
<1>7. ASSUME NEW r \in Request, StartCall(r) \/ RefuseCall(r)
      PROVE  ClientParts' /\ ClientsExist'
  BY <1>0, <1>7 DEF StartCall, RefuseCall, Refused, Goto
<1>8. ASSUME NEW r \in Request, Succeed(r)
      PROVE  ClientParts' /\ ClientsExist'
  BY <1>0, <1>8 DEF Succeed, Goto
<1>9. ASSUME NEW r \in Request, FailAtOnce(r) \/ FailAttempt(r)
      PROVE  ClientParts' /\ ClientsExist'
  <2>1. RecordFailure(req[r].client) /\ req[r].client \in Request
    BY <1>0, <1>9 DEF FailAtOnce, FailAttempt
  <2>2. failures' \in [Request -> 0 .. Threshold] /\ quiet' \in [Request -> 0 .. Pause]
    BY <1>0, <2>1, FailureIsRecorded
  <2> QED
    BY <1>0, <1>9, <2>2 DEF FailAtOnce, FailAttempt, Goto
<1>10. ASSUME NEW r \in Request, WakeUp(r)
       PROVE  ClientParts' /\ ClientsExist'
  BY <1>0, <1>10 DEF WakeUp, Refused, Goto
<1>11. ASSUME NEW r \in Request, Finish(r)
       PROVE  ClientParts' /\ ClientsExist'
  BY <1>0, <1>11 DEF Finish, New
<1> QED
  BY <1>1, <1>2, <1>3, <1>4, <1>5, <1>6, <1>7, <1>8, <1>9, <1>10, <1>11
  DEF Next, Inject, GoOn

\* A call starts when no other is under way.
LEMMA LoopIsHeldByOne ==
    ASSUME ClientInv, [Next]_vars
    PROVE  OneHoldsTheLoop'
<1>0. req \in [Request -> RequestState] /\ OneHoldsTheLoop
  BY DEF ClientInv, ClientParts
<1>1. ASSUME NEW r \in Request, StartCall(r)
      PROVE  OneHoldsTheLoop'
  BY <1>0, <1>1 DEF StartCall, Goto, LoopFree, OneHoldsTheLoop, Holds
<1>2. ASSUME \A s \in Request : Holds(s)' => Holds(s)
      PROVE  OneHoldsTheLoop'
  BY <1>0, <1>2 DEF OneHoldsTheLoop, Holds
<1>3. ASSUME NEW r \in Request,
             Inject(r) \/ RefuseCall(r) \/ GoOn(r) \/ Finish(r)
      PROVE  \A s \in Request : Holds(s)' => Holds(s)
  BY <1>0, <1>3 DEF Inject, GetClient, Construct, ConstructFails, Injected, RefuseCall,
     GoOn, Succeed, FailAtOnce, FailAttempt, WakeUp, Finish, New, Goto, Holds,
     RequestState
<1>4. CASE Tick \/ UNCHANGED vars
  BY <1>2, <1>4 DEF Tick, vars, Holds
<1> QED
  BY <1>1, <1>2, <1>3, <1>4 DEF Next

\* The breaker is asked before every attempt, and only the call that is under way
\* can open it.
LEMMA PausesStayQuiet ==
    ASSUME ClientInv, [Next]_vars
    PROVE  PausedMeansQuiet'
<1>0. /\ failures \in [Request -> 0 .. Threshold] /\ quiet \in [Request -> 0 .. Pause]
      /\ req \in [Request -> RequestState]
      /\ ClientsExist /\ OneHoldsTheLoop /\ PausedMeansQuiet
  BY DEF ClientInv, ClientParts
<1> DEFINE OpenFor(r) == /\ failures'[req'[r].client] = Threshold
                         /\ quiet'[req'[r].client] < Pause
<1>1. SUFFICES ASSUME NEW s \in Request, req'[s].pc = "calling"
               PROVE  ~ OpenFor(s)
  BY DEF PausedMeansQuiet, BreakerOpen
<1>2. ASSUME req'[s] = req[s],
             \A i \in Request :
                /\ failures'[i] = failures[i] \/ failures'[i] = 0
                /\ quiet'[i] >= quiet[i]
      PROVE  ~ OpenFor(s)
  <2> DEFINE i == req[s].client
  <2>1. i \in Request /\ req[s].pc = "calling"
    BY <1>0, <1>1, <1>2 DEF ClientsExist
  <2>2. failures[i] # Threshold \/ ~ (quiet[i] < Pause)
    BY <1>0, <2>1 DEF PausedMeansQuiet, BreakerOpen
  <2>3. quiet[i] \in Nat /\ quiet'[i] >= quiet[i] /\ quiet'[i] \in Nat
    BY <1>0, <1>2, <2>1, PartsArePreserved DEF ClientParts
  <2> QED
    BY <1>2, <2>1, <2>2, <2>3
<1>3. CASE UNCHANGED <<failures, quiet, req>>
  BY <1>0, <1>2, <1>3
<1>4. CASE Tick
  <2>1. \A i \in Request : quiet'[i] >= quiet[i]
    BY <1>0, <1>4 DEF Tick, AtMost
  <2> QED
    BY <1>2, <1>4, <2>1 DEF Tick
<1>5. ASSUME NEW r \in Request, r # s,
             GetClient(r) \/ Construct(r) \/ ConstructFails(r) \/ Injected(r)
                \/ RefuseCall(r) \/ Finish(r)
      PROVE  ~ OpenFor(s)
  <2>1. req'[s] = req[s]
    BY <1>0, <1>5 DEF GetClient, Construct, ConstructFails, Injected, RefuseCall,
       Finish, Goto
  <2>2. \A i \in Request :
           /\ failures'[i] = failures[i] \/ failures'[i] = 0
           /\ quiet'[i] >= quiet[i]
    BY <1>0, <1>5 DEF GetClient, Construct, ConstructFails, Injected, RefuseCall,
       Refused, Finish
  <2> QED
    BY <1>2, <2>1, <2>2
<1>6. ASSUME NEW r \in Request, StartCall(r) \/ WakeUp(r)
      PROVE  ~ OpenFor(s)
  <2>1. CASE r = s
    <3>1. /\ Admits(req[s].client) /\ req'[s].client = req[s].client
          /\ failures' = failures /\ quiet' = quiet /\ req[s].client \in Request
      BY <1>0, <1>1, <1>6, <2>1 DEF StartCall, WakeUp, Goto, ClientsExist, RequestState
    <3> QED
      BY <1>0, <3>1 DEF Admits
  <2>2. CASE r # s
    <3>1. req[s].pc = "calling" /\ (LoopFree \/ Holds(r))
      BY <1>0, <1>1, <1>6, <2>2 DEF StartCall, WakeUp, Goto, Holds
    <3> QED
      BY <1>0, <2>2, <3>1 DEF LoopFree, OneHoldsTheLoop, Holds
  <2> QED
    BY <2>1, <2>2
<1>7. ASSUME NEW r \in Request, Succeed(r) \/ FailAtOnce(r) \/ FailAttempt(r)
      PROVE  FALSE
  <2>1. req'[r].pc # "calling" /\ Holds(r)
    BY <1>0, <1>7 DEF Succeed, FailAtOnce, FailAttempt, Goto, Holds, RequestState
  <2>2. r # s
    BY <1>1, <2>1
  <2>3. req'[s] = req[s]
    BY <1>0, <1>7, <2>2 DEF Succeed, FailAtOnce, FailAttempt, Goto
  <2> QED
    BY <1>0, <1>1, <2>1, <2>2, <2>3 DEF OneHoldsTheLoop, Holds
<1>8. ASSUME GetClient(s) \/ Construct(s) \/ ConstructFails(s) \/ Injected(s)
                \/ Finish(s)
      PROVE  FALSE
  BY <1>0, <1>1, <1>8 DEF GetClient, Construct, ConstructFails, Injected, Finish, New,
     Goto, RequestState
<1>9. CASE RefuseCall(s)
  BY <1>3, <1>9 DEF RefuseCall, Refused
<1> QED
  BY <1>3, <1>4, <1>5, <1>6, <1>7, <1>8, <1>9 DEF Next, Inject, GoOn, vars

\* The inductive invariant holds in every behaviour.
THEOREM ClientInvariant == Spec => []ClientInv
<1>1. ClientInv /\ [Next]_vars => ClientInv'
  BY PartsArePreserved, LoopIsHeldByOne, PausesStayQuiet DEF ClientInv
<1> QED
  BY InitImpliesClientInv, <1>1, PTL DEF Spec

\* While the breaker is open nothing is attempted, by no request and not by a
\* call that was retrying when it opened.
THEOREM PausesAreQuiet == Spec => []PausedMeansQuiet
BY ClientInvariant, PTL DEF ClientInv

\* At most one call is under way in a process, its sleeps included.
THEOREM OneCallAtATime == Spec => []OneHoldsTheLoop
BY ClientInvariant, PTL DEF ClientInv

-----------------------------------------------------------------------------
(* How long the loop is held.                                              *)

\* So many seconds an attempt and the sleeps before it take at most.
Spent(attempt) == attempt * RpcTimeout + Backoff(attempt) - 1

\* A call has not used more time than its attempts, and keeps to it.
CallsKeepTime ==
    \A r \in Request :
        /\ req[r].pc = "calling" => call.held + call.left <= Spent(call.attempt)
        /\ req[r].pc = "sleeping" =>
              /\ call.attempt < MaxRetries
              /\ call.held + call.left <= Spent(call.attempt) + Backoff(call.attempt)

TimeInv ==
    /\ call \in CallState
    /\ CallsKeepTime
    /\ call.held <= Spent(MaxRetries)

\* Every attempt fits the time of the last one.
LEMMA SpentGrows ==
    ASSUME NEW n \in 1 .. MaxRetries
    PROVE  /\ Backoff(n) \in Nat
           /\ Spent(n) \in Nat
           /\ Spent(n) <= Spent(MaxRetries)
           /\ Spent(n + 1) = Spent(n) + Backoff(n) + RpcTimeout
<1>1. /\ n \in Nat /\ n + 1 \in Nat /\ MaxRetries \in 1 .. MaxRetries
      /\ MaxRetries \in Nat /\ RpcTimeout \in Nat
      /\ n <= MaxRetries
  OBVIOUS
<1>2. /\ Backoff(n) \in Nat \ {0} /\ Backoff(n + 1) = 2 * Backoff(n)
      /\ Backoff(n) <= Backoff(MaxRetries) /\ Backoff(MaxRetries) \in Nat
  BY <1>1, BackoffsDouble
<1>3. /\ n * RpcTimeout \in Nat /\ MaxRetries * RpcTimeout \in Nat
      /\ n * RpcTimeout <= MaxRetries * RpcTimeout
      /\ (n + 1) * RpcTimeout = n * RpcTimeout + RpcTimeout
  <2>1. \A a, b, t \in Nat : a <= b => a * t <= b * t
    OBVIOUS
  <2>2. \A a, t \in Nat : a * t \in Nat /\ (a + 1) * t = a * t + t
    OBVIOUS
  <2> QED
    BY <1>1, <2>1, <2>2
<1> QED
  BY <1>2, <1>3 DEF Spent

\* The first attempt has its timeout.
LEMMA SpentFirst == Spent(1) = RpcTimeout
  BY BackoffsDouble DEF Spent

LEMMA InitImpliesTimeInv == Init => TimeInv
<1> SUFFICES ASSUME Init PROVE TimeInv
  OBVIOUS
<1>1. call = [attempt |-> 1, left |-> 0, held |-> 0] /\ \A r \in Request : req[r].pc = "new"
  BY DEF Init, New
<1>2. Spent(MaxRetries) \in Nat
  BY SpentGrows
<1> QED
  BY <1>1, <1>2 DEF TimeInv, CallState, CallsKeepTime

\* Only the call that holds the loop is timed.
LEMMA TimeStep ==
    ASSUME ClientInv, TimeInv, [Next]_vars
    PROVE  TimeInv'
<1>0. /\ req \in [Request -> RequestState] /\ OneHoldsTheLoop
      /\ call \in CallState /\ CallsKeepTime /\ call.held <= Spent(MaxRetries)
  BY DEF ClientInv, ClientParts, TimeInv
<1>1. /\ call.attempt \in 1 .. MaxRetries /\ call.left \in Nat /\ call.held \in Nat
      /\ Backoff(call.attempt) \in Nat /\ Spent(call.attempt) \in Nat
      /\ Spent(call.attempt) <= Spent(MaxRetries) /\ Spent(MaxRetries) \in Nat
      /\ Spent(call.attempt + 1) = Spent(call.attempt) + Backoff(call.attempt) + RpcTimeout
  BY <1>0, SpentGrows DEF CallState
<1>2. ASSUME UNCHANGED call, \A r \in Request : Holds(r)' => req'[r] = req[r]
      PROVE  TimeInv'
  BY <1>0, <1>2 DEF TimeInv, CallsKeepTime, Holds
<1>3. ASSUME NEW r \in Request,
             Inject(r) \/ RefuseCall(r) \/ Succeed(r) \/ FailAtOnce(r) \/ Finish(r)
      PROVE  TimeInv'
  <2>1. UNCHANGED call /\ \A s \in Request : Holds(s)' => req'[s] = req[s]
    BY <1>0, <1>3 DEF Inject, GetClient, Construct, ConstructFails, Injected, RefuseCall,
       Succeed, FailAtOnce, Finish, New, Goto, Holds, RequestState
  <2> QED
    BY <1>2, <2>1
<1>4. ASSUME NEW r \in Request, StartCall(r)
      PROVE  TimeInv'
  <2>1. /\ call' = [attempt |-> 1, left |-> RpcTimeout, held |-> 0]
        /\ \A s \in Request : Holds(s)' => s = r
        /\ req'[r].pc = "calling"
    BY <1>0, <1>4 DEF StartCall, Goto, LoopFree, Holds, RequestState
  <2>2. call' \in CallState /\ call'.held + call'.left <= Spent(call'.attempt)
    BY <2>1, SpentFirst DEF CallState
  <2>3. call'.held <= Spent(MaxRetries)
    BY <1>1, <2>1
  <2> QED
    BY <2>1, <2>2, <2>3 DEF TimeInv, CallsKeepTime, Holds
<1>5. ASSUME NEW r \in Request, FailAttempt(r)
      PROVE  TimeInv'
  <2>1. req[r].pc = "calling" /\ call.held + call.left <= Spent(call.attempt)
    BY <1>0, <1>5 DEF FailAttempt, CallsKeepTime
  <2>2. CASE Goto(r, "sleeping") /\ MayRetry(call.attempt)
             /\ call' = [call EXCEPT !.left = Backoff(call.attempt)]
    <3>1. \A s \in Request : Holds(s)' => s = r
      BY <1>0, <2>1, <2>2 DEF Goto, OneHoldsTheLoop, Holds, RequestState
    <3>2. req'[r].pc = "sleeping"
      BY <1>0, <2>2 DEF Goto, RequestState
    <3>3. /\ call' \in CallState /\ call'.attempt = call.attempt
          /\ call'.left = Backoff(call.attempt) /\ call'.held = call.held
      BY <1>0, <1>1, <2>2 DEF CallState
    <3>4. /\ call'.attempt < MaxRetries
          /\ call'.held + call'.left <= Spent(call'.attempt) + Backoff(call'.attempt)
      BY <1>1, <2>1, <2>2, <3>3 DEF MayRetry
    <3> QED
      BY <1>0, <3>1, <3>2, <3>3, <3>4 DEF TimeInv, CallsKeepTime, Holds
  <2>3. CASE Goto(r, "ready") /\ UNCHANGED call
    <3>1. \A s \in Request : Holds(s)' => req'[s] = req[s]
      BY <1>0, <2>3 DEF Goto, Holds, RequestState
    <3> QED
      BY <1>2, <2>3, <3>1
  <2> QED
    BY <1>5, <2>2, <2>3 DEF FailAttempt
<1>6. ASSUME NEW r \in Request, WakeUp(r)
      PROVE  TimeInv'
  <2>1. /\ req[r].pc = "sleeping" /\ call.left = 0 /\ call.attempt < MaxRetries
        /\ call.held + call.left <= Spent(call.attempt) + Backoff(call.attempt)
    BY <1>0, <1>6 DEF WakeUp, CallsKeepTime
  <2>2. CASE Goto(r, "calling")
             /\ call' = [call EXCEPT !.attempt = call.attempt + 1, !.left = RpcTimeout]
    <3>1. \A s \in Request : Holds(s)' => s = r
      BY <1>0, <2>1, <2>2 DEF Goto, OneHoldsTheLoop, Holds, RequestState
    <3>2. req'[r].pc = "calling"
      BY <1>0, <2>2 DEF Goto, RequestState
    <3>3. /\ call' \in CallState /\ call'.attempt = call.attempt + 1
          /\ call'.left = RpcTimeout /\ call'.held = call.held
      <4>1. call' = [attempt |-> call.attempt + 1, left |-> RpcTimeout, held |-> call.held]
        BY <1>0, <2>2 DEF CallState
      <4>2. call.attempt + 1 \in 1 .. MaxRetries /\ RpcTimeout \in Nat
        BY <1>1, <2>1
      <4> QED
        BY <1>1, <4>1, <4>2 DEF CallState
    <3>4. call'.held + call'.left <= Spent(call'.attempt)
      BY <1>1, <2>1, <3>3
    <3> QED
      BY <1>0, <3>1, <3>2, <3>3, <3>4 DEF TimeInv, CallsKeepTime, Holds
  <2>3. CASE Goto(r, "ready") /\ UNCHANGED call
    <3>1. \A s \in Request : Holds(s)' => req'[s] = req[s]
      BY <1>0, <2>3 DEF Goto, Holds, RequestState
    <3> QED
      BY <1>2, <2>3, <3>1
  <2> QED
    BY <1>6, <2>2, <2>3 DEF WakeUp
<1>7. CASE Tick
  <2>1. UNCHANGED req
    BY <1>7 DEF Tick
  <2>2. CASE LoopFree
    BY <1>2, <1>7, <2>1, <2>2 DEF Tick
  <2>3. CASE ~ LoopFree
    <3>1. PICK r \in Request : Holds(r)
      BY <2>3 DEF LoopFree, Holds
    <3>2. /\ call.left > 0
          /\ call' = [call EXCEPT !.left = call.left - 1, !.held = call.held + 1]
      BY <1>7, <2>3 DEF Tick
    <3>3. /\ call' \in CallState /\ call'.attempt = call.attempt
          /\ call'.left = call.left - 1 /\ call'.held = call.held + 1
      <4>1. call' = [attempt |-> call.attempt, left |-> call.left - 1, held |-> call.held + 1]
        BY <1>0, <3>2 DEF CallState
      <4>2. call.left - 1 \in Nat /\ call.held + 1 \in Nat
        BY <1>1, <3>2
      <4> QED
        BY <1>1, <4>1, <4>2 DEF CallState
    <3>4. CallsKeepTime'
      BY <1>0, <1>1, <2>1, <3>2, <3>3 DEF CallsKeepTime
    <3>5. call.held + call.left <= Spent(MaxRetries)
      <4>1. CASE req[r].pc = "calling"
        BY <1>0, <1>1, <4>1 DEF CallsKeepTime
      <4>2. CASE req[r].pc = "sleeping"
        <5>1. /\ call.attempt < MaxRetries
              /\ call.held + call.left <= Spent(call.attempt) + Backoff(call.attempt)
          BY <1>0, <4>2 DEF CallsKeepTime
        <5>2. call.attempt + 1 \in 1 .. MaxRetries
          BY <1>1, <5>1
        <5>3. Spent(call.attempt + 1) <= Spent(MaxRetries)
          BY <5>2, SpentGrows
        <5> QED
          BY <1>1, <5>1, <5>3
      <4> QED
        BY <3>1, <4>1, <4>2 DEF Holds
    <3>6. call'.held <= Spent(MaxRetries)
      BY <1>1, <3>2, <3>3, <3>5
    <3> QED
      BY <3>3, <3>4, <3>6 DEF TimeInv
  <2> QED
    BY <2>2, <2>3
<1>8. CASE UNCHANGED vars
  BY <1>2, <1>8 DEF vars
<1> QED
  BY <1>3, <1>4, <1>5, <1>6, <1>7, <1>8 DEF Next, GoOn

LEMMA TimeInvariant == Spec => []TimeInv
<1>1. ClientInv /\ TimeInv /\ [Next]_vars => TimeInv'
  BY TimeStep
<1> QED
  BY InitImpliesTimeInv, <1>1, ClientInvariant, PTL DEF Spec

\* However its attempts fail, a call holds the event loop no longer than all its
\* timeouts and the sleeps between them.
THEOREM LoopIsReleased == Spec => []BlockedAtMost
<1>1. TimeInv => BlockedAtMost
  BY DEF TimeInv, BlockedAtMost, Spent, Backoff
<1> QED
  BY <1>1, TimeInvariant, PTL

InitErrorOK == initError \in BOOLEAN

\* Clients, requests and calls keep values of their domains.
THEOREM ClientTypes == Spec => []ClientTypeOK
<1>1. Init => InitErrorOK
  BY DEF Init, InitErrorOK
<1>2. InitErrorOK /\ [Next]_vars => InitErrorOK'
  BY Zenon DEF InitErrorOK, Next, vars, Tick, Inject, GetClient, Construct,
     ConstructFails, Injected, StartCall, RefuseCall, GoOn, Succeed, FailAtOnce,
     FailAttempt, WakeUp, Finish
<1>3. ClientInv /\ TimeInv /\ InitErrorOK => ClientTypeOK
  BY DEF ClientInv, ClientParts, TimeInv, InitErrorOK, ClientTypeOK
<1> QED
  BY <1>1, <1>2, <1>3, ClientInvariant, TimeInvariant, PTL DEF Spec

-----------------------------------------------------------------------------
(* The end of a pause.                                                     *)

\* Nobody uses client i yet.
Unused(i) ==
    /\ service # i
    /\ failures[i] = 0
    /\ \A r \in Request : req[r].client # i

\* A client is constructed before it is used, and once.
ConstructedOnce ==
    /\ service = Null => \A i \in Request : Unused(i)
    /\ \A i \in Request : req[i].pc = "constructing" => Unused(i)

LEMMA UnusedStays ==
    ASSUME ClientInv, [Next]_vars, NEW i \in Request, Unused(i), ~ Construct(i)
    PROVE  Unused(i)'
<1>0. /\ service \in Request \union {Null}
      /\ failures \in [Request -> 0 .. Threshold]
      /\ req \in [Request -> RequestState]
      /\ ClientsExist
  BY DEF ClientInv, ClientParts
<1>1. ASSUME NEW r \in Request, GetClient(r) \/ Injected(r)
      PROVE  Unused(i)'
  <2>1. /\ service' = service /\ failures' = failures
        /\ \/ req' = [req EXCEPT ![r] = [pc |-> "ready", client |-> service]]
           \/ req' = [req EXCEPT ![r].pc = "constructing"]
    BY <1>1 DEF GetClient, Injected, Goto
  <2>2. \A s \in Request : req'[s].client \in {req[s].client, service}
    BY <1>0, <2>1 DEF RequestState
  <2> QED
    BY <2>1, <2>2 DEF Unused
<1>2. ASSUME NEW r \in Request, Construct(r)
      PROVE  Unused(i)'
  <2>1. r # i
    BY <1>2
  <2>2. /\ service' = r /\ failures' = [failures EXCEPT ![r] = 0]
        /\ req' = [req EXCEPT ![r].pc = "constructed"]
    BY <1>2 DEF Construct, Goto
  <2>3. \A s \in Request : req'[s].client = req[s].client
    BY <1>0, <2>2 DEF RequestState
  <2> QED
    BY <1>0, <2>1, <2>2, <2>3 DEF Unused
<1>3. ASSUME NEW r \in Request, GoOn(r)
      PROVE  Unused(i)'
  <2>1. /\ service' = service
        /\ \/ failures' = failures
           \/ failures' = [failures EXCEPT ![req[r].client] = 0]
           \/ RecordFailure(req[r].client)
        /\ \/ req' = [req EXCEPT ![r].pc = "ready"]
           \/ req' = [req EXCEPT ![r].pc = "sleeping"]
           \/ req' = [req EXCEPT ![r].pc = "calling"]
    BY <1>3 DEF GoOn, Succeed, FailAtOnce, FailAttempt, WakeUp, Refused, Goto
  <2>2. req[r].client # i
    BY DEF Unused
  <2>3. failures'[i] = failures[i]
    BY <1>0, <2>1, <2>2 DEF RecordFailure
  <2>4. \A s \in Request : req'[s].client = req[s].client
    BY <1>0, <2>1 DEF RequestState
  <2> QED
    BY <2>1, <2>3, <2>4 DEF Unused
<1>4. ASSUME NEW r \in Request, ConstructFails(r) \/ StartCall(r) \/ RefuseCall(r)
      PROVE  Unused(i)'
  <2>1. /\ service' = service /\ failures' = failures
        /\ \/ req' = req
           \/ \E pc : req' = [req EXCEPT ![r].pc = pc]
    BY <1>4 DEF ConstructFails, StartCall, RefuseCall, Refused, Goto
  <2>2. \A s \in Request : req'[s].client = req[s].client
    BY <1>0, <2>1 DEF RequestState
  <2> QED
    BY <2>1, <2>2 DEF Unused
<1>5. ASSUME NEW r \in Request, Finish(r)
      PROVE  Unused(i)'
  <2>1. /\ service' = service /\ failures' = failures
        /\ req' = [req EXCEPT ![r] = New]
    BY <1>5 DEF Finish
  <2>2. \A s \in Request : req'[s].client \in {req[s].client, Null}
    BY <1>0, <2>1 DEF New, RequestState
  <2> QED
    BY <2>1, <2>2 DEF Unused
<1>6. CASE Tick \/ UNCHANGED vars
  BY <1>6 DEF Tick, vars, Unused
<1> QED
  BY <1>1, <1>2, <1>3, <1>4, <1>5, <1>6 DEF Next, Inject

LEMMA ConstructedOnceStep ==
    ASSUME ClientInv, ConstructedOnce, [Next]_vars
    PROVE  ConstructedOnce'
<1>0. req \in [Request -> RequestState] /\ service \in Request \union {Null}
  BY DEF ClientInv, ClientParts
<1>1. ASSUME NEW i \in Request, Construct(i)
      PROVE  service' # Null /\ req'[i].pc = "constructed"
  BY <1>0, <1>1 DEF Construct, Goto, RequestState
<1>2. service' = Null => service = Null
  BY <1>0 DEF Next, vars, Tick, Inject, GetClient, Construct, ConstructFails, Injected,
     StartCall, RefuseCall, GoOn, Succeed, FailAtOnce, FailAttempt, WakeUp, Finish
<1>3. ASSUME NEW i \in Request, req'[i].pc = "constructing"
      PROVE  Unused(i)
  <2>1. CASE req[i].pc = "constructing"
    BY <2>1 DEF ConstructedOnce
  <2>2. CASE req[i].pc # "constructing"
    <3>1. service = Null
      BY <1>0, <1>3, <2>2
      DEF Next, vars, Tick, Inject, GetClient, Construct, ConstructFails, Injected, Goto,
          StartCall, RefuseCall, GoOn, Succeed, FailAtOnce, FailAttempt, WakeUp, Finish,
          New, RequestState
    <3> QED
      BY <3>1 DEF ConstructedOnce
  <2> QED
    BY <2>1, <2>2
<1> QED
  BY <1>1, <1>2, <1>3, UnusedStays DEF ConstructedOnce

\* An open breaker closes when a second passes, and by nothing else.
ClosedByTimeOnly ==
    [][\A i \in Request : BreakerOpen(i) /\ ~ BreakerOpen(i)' => Tick]_vars

\* Neither the success of a call that was under way, nor a request that asks again,
\* nor a client constructed by another thread ends a pause (_check_circuit_breaker,
\* get_blockchain_service).
THEOREM PausesLastTheirTime == Spec => ClosedByTimeOnly
<1>1. Init => ConstructedOnce
  BY DEF Init, ConstructedOnce, Unused, New
<1>2. ClientInv /\ ConstructedOnce /\ [Next]_vars => ConstructedOnce'
  BY ConstructedOnceStep
<1>3. ClientInv /\ ConstructedOnce /\ [Next]_vars =>
      [\A i \in Request : BreakerOpen(i) /\ ~ BreakerOpen(i)' => Tick]_vars
  <2> SUFFICES ASSUME ClientInv, ConstructedOnce, [Next]_vars, NEW i \in Request,
                      BreakerOpen(i), ~ BreakerOpen(i)', ~ Tick
               PROVE  FALSE
    OBVIOUS
  <2>0. /\ failures \in [Request -> 0 .. Threshold] /\ quiet \in [Request -> 0 .. Pause]
        /\ failures[i] = Threshold /\ Threshold >= 1 /\ quiet[i] < Pause
    BY DEF BreakerOpen, ClientInv, ClientParts
  <2>1. failures'[i] # failures[i] \/ quiet'[i] # quiet[i]
    BY DEF BreakerOpen
  <2>2. ASSUME NEW r \in Request, Construct(r)
        PROVE  FALSE
    <3>1. failures' = [failures EXCEPT ![r] = 0] /\ quiet' = quiet
      BY <2>2 DEF Construct
    <3>2. r = i
      BY <2>0, <2>1, <3>1
    <3>3. failures[r] = 0
      BY <2>2 DEF Construct, ConstructedOnce, Unused
    <3> QED
      BY <2>0, <3>2, <3>3
  <2>3. ASSUME NEW r \in Request, req[r].pc = "calling",
               Succeed(r) \/ FailAtOnce(r) \/ FailAttempt(r)
        PROVE  FALSE
    <3>1. req[r].client # i
      BY <2>3 DEF ClientInv, PausedMeansQuiet
    <3>2. failures'[i] = failures[i] /\ quiet'[i] = quiet[i]
      BY <2>0, <2>3, <3>1 DEF Succeed, FailAtOnce, FailAttempt, RecordFailure
    <3> QED
      BY <2>1, <3>2
  <2>4. CASE UNCHANGED <<failures, quiet>>
    BY <2>1, <2>4
  <2> QED
    BY <2>2, <2>3, <2>4
    DEF Next, vars, Inject, GetClient, ConstructFails, Injected, StartCall, RefuseCall,
        Refused, GoOn, Succeed, FailAtOnce, FailAttempt, WakeUp, Finish
<1> QED
  BY <1>1, <1>2, <1>3, ClientInvariant, PTL DEF Spec, ClosedByTimeOnly
=============================================================================
