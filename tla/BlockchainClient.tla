---------------------------- MODULE BlockchainClient ----------------------------
(***************************************************************************)
(* The read-only client of the contract (blockchain/blockchain_service.py) *)
(* and the singleton the requests get it from (dependencies/services.py):  *)
(* retries with exponential backoff and a circuit breaker.                 *)
(*                                                                         *)
(* Services are coroutines and call the client without awaiting, so a call *)
(* with its retries and sleeps holds the event loop: at most one call is   *)
(* in progress in a process, and a request that holds the loop keeps every *)
(* other one waiting.  get_blockchain_service is a plain function, which   *)
(* FastAPI runs in a thread: several requests may construct a client.      *)
(***************************************************************************)
EXTENDS Naturals

CONSTANTS
    Request,       \* slots for requests in progress
    Null,
    MaxRetries,    \* BLOCKCHAIN_MAX_RETRIES
    Threshold,     \* BLOCKCHAIN_CIRCUIT_BREAKER_THRESHOLD
    Pause,         \* BLOCKCHAIN_CIRCUIT_BREAKER_PAUSE_SECONDS
    RpcTimeout     \* BLOCKCHAIN_RPC_TIMEOUT_SECONDS, or what an attempt takes
                   \* in all when the library sends a request several times

ASSUME ClientAssumption ==
    /\ Null \notin Request
    /\ MaxRetries \in Nat \ {0}
    /\ Threshold \in Nat \ {0}
    /\ Pause \in Nat
    /\ RpcTimeout \in Nat

\* A client is named by the request that constructed it: no request starts to
\* construct one once there is one.
VARIABLES
    service,    \* _blockchain_service
    initError,  \* _blockchain_init_error is set
    failures,   \* of each client: _consecutive_failures, up to the threshold
    quiet,      \* of each client: seconds since _last_failure_time, up to Pause
    req,        \* requests in progress
    call        \* the call that holds the event loop

vars == <<service, initError, failures, quiet, req, call>>

RequestState ==
    [pc : {"new", "constructing", "constructed", "ready", "calling", "sleeping"},
     client : Request \union {Null}]

New == [pc |-> "new", client |-> Null]

\* left: until the timeout of the attempt, or until the end of the sleep; held:
\* for how long the loop has been held.
CallState == [attempt : 1 .. MaxRetries, left : Nat, held : Nat]

LoopFree == \A r \in Request : req[r].pc \notin {"calling", "sleeping"}

Goto(r, pc) == req' = [req EXCEPT ![r].pc = pc]

AtMost(n, limit) == IF n < limit THEN n ELSE limit

-----------------------------------------------------------------------------
(* Getting the client.                                                     *)

GetClient(r) ==
    /\ req[r].pc = "new"
    /\ \/ /\ service # Null
          /\ req' = [req EXCEPT ![r] = [pc |-> "ready", client |-> service]]
       \/ /\ service = Null
          /\ ~ initError
          /\ Goto(r, "constructing")
    /\ UNCHANGED <<service, initError, failures, quiet, call>>

Construct(r) ==
    /\ req[r].pc = "constructing"
    /\ service' = r
    /\ failures' = [failures EXCEPT ![r] = 0]
    /\ Goto(r, "constructed")
    /\ UNCHANGED <<initError, quiet, call>>

\* The ABI cannot be read or the address is invalid.
ConstructFails(r) ==
    /\ req[r].pc = "constructing"
    /\ initError' = TRUE
    /\ Goto(r, "new")
    /\ UNCHANGED <<service, failures, quiet, call>>

\* The function returns the global, which another thread may have replaced.
Injected(r) ==
    /\ req[r].pc = "constructed"
    /\ req' = [req EXCEPT ![r] = [pc |-> "ready", client |-> service]]
    /\ UNCHANGED <<service, initError, failures, quiet, call>>

-----------------------------------------------------------------------------
(* The circuit breaker.                                                    *)

BreakerOpen(i) == failures[i] = Threshold /\ quiet[i] < Pause

\* Fault: the comparison of the elapsed time turned round.
AdmitsWhilePaused(i) == failures[i] < Threshold \/ quiet[i] < Pause

\* _check_circuit_breaker returns.  Half-open, it leaves the counter alone.
Admits(i) == failures[i] < Threshold \/ quiet[i] = Pause

RecordFailure(i) ==
    /\ failures' = [failures EXCEPT ![i] = AtMost(@ + 1, Threshold)]
    /\ quiet' = [quiet EXCEPT ![i] = 0]

\* Fault: the refusal of the breaker caught with the other connection errors.
RefusalCounts(i) == RecordFailure(i)

\* A call the breaker refuses is no failure.
Refused(i) == UNCHANGED <<failures, quiet>>

-----------------------------------------------------------------------------
(* _execute_with_retry.                                                    *)

\* Fault: one retry too many.
RetryOnceMore(attempt) == attempt <= MaxRetries

MayRetry(attempt) == attempt < MaxRetries

Backoff(attempt) == 2 ^ (attempt - 1)

\* Arithmetic, for the provers: the backoffs are 1, 2, 4, ...
ASSUME BackoffsDouble ==
    /\ Backoff(1) = 1
    /\ \A n \in 1 .. MaxRetries :
          /\ Backoff(n) \in Nat \ {0}
          /\ Backoff(n + 1) = 2 * Backoff(n)
          /\ Backoff(n) <= Backoff(MaxRetries)

StartCall(r) ==
    /\ req[r].pc = "ready"
    /\ LoopFree
    /\ Admits(req[r].client)
    /\ Goto(r, "calling")
    /\ call' = [attempt |-> 1, left |-> RpcTimeout, held |-> 0]
    /\ UNCHANGED <<service, initError, failures, quiet>>

RefuseCall(r) ==
    /\ req[r].pc = "ready"
    /\ LoopFree
    /\ ~ Admits(req[r].client)
    /\ Refused(req[r].client)
    /\ UNCHANGED <<service, initError, req, call>>

Succeed(r) ==
    /\ req[r].pc = "calling"
    /\ failures' = [failures EXCEPT ![req[r].client] = 0]
    /\ Goto(r, "ready")
    /\ UNCHANGED <<service, initError, quiet, call>>

\* The contract reverts, or TimeExhausted: no retry.
FailAtOnce(r) ==
    /\ req[r].pc = "calling"
    /\ RecordFailure(req[r].client)
    /\ Goto(r, "ready")
    /\ UNCHANGED <<service, initError, call>>

\* The node cannot be reached, or any other exception.
FailAttempt(r) ==
    /\ req[r].pc = "calling"
    /\ RecordFailure(req[r].client)
    /\ \/ /\ MayRetry(call.attempt)
          /\ Goto(r, "sleeping")
          /\ call' = [call EXCEPT !.left = Backoff(call.attempt)]
       \/ /\ ~ MayRetry(call.attempt)
          /\ Goto(r, "ready")
          /\ UNCHANGED call
    /\ UNCHANGED <<service, initError>>

\* After the sleep the breaker is asked again.
WakeUp(r) ==
    /\ req[r].pc = "sleeping"
    /\ call.left = 0
    /\ \/ /\ Admits(req[r].client)
          /\ Goto(r, "calling")
          /\ call' = [call EXCEPT !.attempt = @ + 1, !.left = RpcTimeout]
          /\ UNCHANGED <<failures, quiet>>
       \/ /\ ~ Admits(req[r].client)
          /\ Refused(req[r].client)
          /\ Goto(r, "ready")
          /\ UNCHANGED call
    /\ UNCHANGED <<service, initError>>

\* The request makes no more calls.
Finish(r) ==
    /\ req[r].pc = "ready"
    /\ req' = [req EXCEPT ![r] = New]
    /\ UNCHANGED <<service, initError, failures, quiet, call>>

\* A second passes.  An attempt ends by its timeout and a sleep on time.
Tick ==
    /\ LoopFree \/ call.left > 0
    /\ quiet' = [i \in Request |-> AtMost(quiet[i] + 1, Pause)]
    /\ call' = IF LoopFree THEN call
               ELSE [call EXCEPT !.left = @ - 1, !.held = @ + 1]
    /\ UNCHANGED <<service, initError, failures, req>>

-----------------------------------------------------------------------------

Init ==
    /\ service = Null
    /\ initError = FALSE
    /\ failures = [i \in Request |-> 0]
    /\ quiet = [i \in Request |-> Pause]
    /\ req = [r \in Request |-> New]
    /\ call = [attempt |-> 1, left |-> 0, held |-> 0]

Inject(r) == GetClient(r) \/ Construct(r) \/ ConstructFails(r) \/ Injected(r)

\* The loop is held: the call goes on by itself.
GoOn(r) == Succeed(r) \/ FailAtOnce(r) \/ FailAttempt(r) \/ WakeUp(r)

Next ==
    \/ Tick
    \/ \E r \in Request :
          Inject(r) \/ StartCall(r) \/ RefuseCall(r) \/ GoOn(r) \/ Finish(r)

\* Time passes, and what a call waits for has a timeout.
Fairness == WF_vars(Tick) /\ \A r \in Request : WF_vars(GoOn(r))

Spec == Init /\ [][Next]_vars /\ Fairness

-----------------------------------------------------------------------------
(* Correctness.                                                            *)

\* No attempt has a number beyond BLOCKCHAIN_MAX_RETRIES.
ClientTypeOK ==
    /\ service \in Request \union {Null}
    /\ initError \in BOOLEAN
    /\ failures \in [Request -> 0 .. Threshold]
    /\ quiet \in [Request -> 0 .. Pause]
    /\ req \in [Request -> RequestState]
    /\ call \in CallState

\* While the breaker is open no attempt is under way, also not the next one of
\* a call that was already retrying when its own failures opened it; half-open,
\* a single failed attempt opens it again.
PausedMeansQuiet ==
    \A r \in Request : req[r].pc = "calling" => ~ BreakerOpen(req[r].client)

\* How long a call can keep every other request of the process waiting: all its
\* attempts time out, and it sleeps between them.
BlockedAtMost ==
    call.held <= MaxRetries * RpcTimeout + 2 ^ (MaxRetries - 1) - 1

\* A pause ends however often requests ask meanwhile.
PauseEnds == \A i \in Request : BreakerOpen(i) ~> ~ BreakerOpen(i)
=============================================================================
