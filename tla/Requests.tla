-------------------------------- MODULE Requests --------------------------------
(***************************************************************************)
(* What every HTTP request goes through before and around its service: the *)
(* access token, the session of get_db and its connection, the user loaded *)
(* by get_current_user, the gate of require_role, the service's blocks     *)
(* `async with db.begin()`, the close.  What the blocks do is in the other *)
(* modules.                                                                *)
(*                                                                         *)
(* A session takes a connection from the pool with its first query after a *)
(* begin and gives it back when the transaction ends.  A query outside a   *)
(* block begins a transaction too (autobegin), which lasts until the close *)
(* of the session; begin() raises in a session that has begun.             *)
(***************************************************************************)
EXTENDS Naturals, FiniteSets

CONSTANTS
    User,         \* rows of users
    RoleOf,       \* users.role, which nothing changes
    Request,      \* slots for requests in progress
    Null,
    Offered,      \* the routes that clients use
    PoolSize      \* pool_size + max_overflow

Role == {"STUDENT", "EMPLOYER", "UNIVERSITY_ADMIN", "SUPER_ADMIN"}

-----------------------------------------------------------------------------
(* The routes, by router.                                                  *)

AuthRoute == {"register", "login", "refresh", "logout"}
UniversityRoute == {"universities", "wallet"}
CertificateRoute ==
    {"upload", "confirmHash", "certificates", "certificate", "revoke",
     "confirmRevocation"}
QrRoute == {"generateQr"}
VerificationRoute == {"verifyFile", "scanQr", "result"}
EmployerRoute == {"employer", "updateProfile"}
StudentRoute == {"credentials"}
LogRoute == {"logs", "certificateLogs"}

Route ==
    UNION {AuthRoute, UniversityRoute, CertificateRoute, QrRoute,
           VerificationRoute, EmployerRoute, StudentRoute, LogRoute}

PublicRoute == {"register", "login", "refresh", "scanQr"}

\* The gates: require_role, or any active user.
Roles(route) ==
    CASE route \in {"logout", "certificate", "certificateLogs"} -> Role
      [] route \in {"verifyFile", "result"} \union EmployerRoute -> {"EMPLOYER"}
      [] route \in StudentRoute -> {"STUDENT"}
      [] OTHER -> {"UNIVERSITY_ADMIN"}

\* How many blocks the service runs, one after the other: none where it only reads.
\* A logout has one for the refresh token in its cookie, but the cookie's path
\* (/api/v1/auth/refresh) keeps clients from sending it to /logout.
Blocks(route) ==
    CASE route \in {"universities", "certificates", "certificate", "result",
                    "employer", "credentials", "logs", "certificateLogs", "logout"} -> 0
      [] route \in {"login", "confirmHash"} -> 2
      [] OTHER -> 1

\* The routes that answer with an access token.
TokenRoute == {"login", "refresh"}

ASSUME RequestAssumption ==
    /\ RoleOf \in [User -> Role]
    /\ Null \notin User
    /\ IsFiniteSet(Request)
    /\ Offered \subseteq Route
    /\ PoolSize \in Nat \ {0}

-----------------------------------------------------------------------------

VARIABLES
    active,   \* users with is_active
    tokens,   \* users with an access token that has not expired
    free,     \* connections the pool can still give
    req       \* requests in progress

vars == <<active, tokens, free, req>>

\* "loading": get_current_user is about to query; "serving": the service is
\* running, outside its blocks; "block": inside one.
RequestState ==
    [pc : {"idle", "loading", "serving", "block", "closing"},
     route : Offered \union {Null},
     user : User \union {Null},    \* who presents a token or logs in
     begun : BOOLEAN,              \* the session is in a transaction
     conn : BOOLEAN,               \* and has a connection for it
     left : 0 .. 2,                \* blocks still to run
     seen : BOOLEAN,               \* is_active, as the session loaded it
     fresh : BOOLEAN,              \* history: the user was active on arrival
     refused : BOOLEAN]            \* begin() raised

Idle ==
    [pc |-> "idle", route |-> Null, user |-> Null, begun |-> FALSE,
     conn |-> FALSE, left |-> 0, seen |-> FALSE, fresh |-> FALSE,
     refused |-> FALSE]

\* Fault: the session keeps the connection it gave back.
StillHeld(q) == [q EXCEPT !.begun = FALSE]

\* The transaction of the session ends: the connection returns to the pool.
Ended(q) == [q EXCEPT !.begun = FALSE, !.conn = FALSE]

Released(q) == IF q.conn THEN free + 1 ELSE free

Waiting(q) == q.pc \in {"loading", "block"} /\ q.begun /\ ~ q.conn

-----------------------------------------------------------------------------
(* Arrival.                                                                *)

\* A request without a token, on somebody's behalf or nobody's.
Arrive(r, route, u) ==
    /\ req[r] = Idle
    /\ route \in PublicRoute
    /\ u = Null <=> route \notin TokenRoute
    /\ req' = [req EXCEPT ![r] =
          [Idle EXCEPT !.pc = "serving", !.route = route, !.user = u,
                       !.left = Blocks(route)]]
    /\ UNCHANGED <<active, tokens, free>>

\* verify_token accepts the token; get_current_user turns to the database, and
\* the query begins a transaction.
ArriveWithToken(r, route, u) ==
    /\ req[r] = Idle
    /\ route \notin PublicRoute
    /\ u \in tokens
    /\ req' = [req EXCEPT ![r] =
          [Idle EXCEPT !.pc = "loading", !.route = route, !.user = u,
                       !.begun = TRUE, !.left = Blocks(route),
                       !.fresh = u \in active]]
    /\ UNCHANGED <<active, tokens, free>>

-----------------------------------------------------------------------------
(* The pool.                                                               *)

\* The session keeps the row of a user it has loaded (expire_on_commit=False).
FirstQuery(q) == q.pc = "loading" \/ q.left = Blocks(q.route)

Connected(q) ==
    [q EXCEPT !.conn = TRUE,
              !.seen = IF FirstQuery(q) THEN q.user \in active ELSE @]

\* A waiting request gets a connection; its query reads the user.
Connect(r) ==
    /\ Waiting(req[r])
    /\ free > 0
    /\ free' = free - 1
    /\ req' = [req EXCEPT ![r] = Connected(@)]
    /\ UNCHANGED <<active, tokens>>

\* Fault: no pool_timeout.
WaitsForEver(r) == FALSE

\* pool_timeout
TimesOut(r) == Waiting(req[r]) /\ free = 0

PoolTimesOut(r) ==
    /\ TimesOut(r)
    /\ req' = [req EXCEPT ![r].pc = "closing"]
    /\ UNCHANGED <<active, tokens, free>>

-----------------------------------------------------------------------------
(* The dependencies and the service.                                       *)

\* Fault: the claims of the token are enough.
RoleSuffices(q) == RoleOf[q.user] \in Roles(q.route)

\* get_current_user and require_role
Authorized(q) == q.seen /\ RoleOf[q.user] \in Roles(q.route)

\* The transaction the query began stays open.
Authenticate(r) ==
    LET q == req[r] IN
    /\ q.pc = "loading" /\ q.conn
    /\ req' = [req EXCEPT ![r].pc = IF Authorized(q) THEN "serving" ELSE "closing"]
    /\ UNCHANGED <<active, tokens, free>>

\* async with db.begin()
BeginBlock(r) ==
    LET q == req[r] IN
    /\ q.pc = "serving" /\ q.left > 0
    /\ req' = [req EXCEPT ![r] =
          IF q.begun THEN [q EXCEPT !.pc = "closing", !.refused = TRUE]
          ELSE [q EXCEPT !.pc = "block", !.begun = TRUE]]
    /\ UNCHANGED <<active, tokens, free>>

\* A login tests is_active in its last block, a refresh in its only one.
MayCommit(q) == q.route \in TokenRoute /\ q.left = 1 => q.seen

\* The block ends; the last one of a login or a refresh has made a token.
CommitBlock(r) ==
    LET q == req[r] IN
    /\ q.pc = "block" /\ q.conn
    /\ MayCommit(q)
    /\ req' = [req EXCEPT ![r] = [Ended(q) EXCEPT !.pc = "serving", !.left = q.left - 1]]
    /\ free' = Released(q)
    /\ tokens' = IF q.route \in TokenRoute /\ q.left = 1
                 THEN tokens \union {q.user}
                 ELSE tokens
    /\ UNCHANGED active

\* The block raises.
RollbackBlock(r) ==
    LET q == req[r] IN
    /\ q.pc = "block" /\ q.conn
    /\ req' = [req EXCEPT ![r] = [Ended(q) EXCEPT !.pc = "closing"]]
    /\ free' = Released(q)
    /\ UNCHANGED <<active, tokens>>

\* The handler returns, its queries done.
Respond(r) ==
    /\ req[r].pc = "serving" /\ req[r].left = 0
    /\ req' = [req EXCEPT ![r].pc = "closing"]
    /\ UNCHANGED <<active, tokens, free>>

\* A check of the handler or of the service outside its blocks raises, the
\* limiter refuses, the blockchain client is not there, or the client leaves.
Raise(r) ==
    /\ req[r].pc \in {"loading", "serving"}
    /\ req[r].pc = "loading" => req[r].conn
    /\ req' = [req EXCEPT ![r].pc = "closing"]
    /\ UNCHANGED <<active, tokens, free>>

\* Fault: the session of a request that raised is left open.
ClosedOnSuccess(q) == IF q.left = 0 THEN Released(q) ELSE free

\* session.close()
ClosedSession(q) == Released(q)

\* The end of get_db.
Close(r) ==
    /\ req[r].pc = "closing"
    /\ req' = [req EXCEPT ![r] = Idle]
    /\ free' = ClosedSession(req[r])
    /\ UNCHANGED <<active, tokens>>

-----------------------------------------------------------------------------

\* deactivate_account
Deactivate(u) ==
    /\ u \in active
    /\ active' = active \ {u}
    /\ UNCHANGED <<tokens, free, req>>

\* JWT_ACCESS_TOKEN_EXPIRE_MINUTES after its last token was made.
TokenExpires(u) ==
    /\ u \in tokens
    /\ tokens' = tokens \ {u}
    /\ UNCHANGED <<active, free, req>>

Init ==
    /\ active = User
    /\ tokens = {}
    /\ free = PoolSize
    /\ req = [r \in Request |-> Idle]

GoOn(r) ==
    \/ Connect(r)
    \/ PoolTimesOut(r)
    \/ Authenticate(r)
    \/ BeginBlock(r)
    \/ CommitBlock(r)
    \/ RollbackBlock(r)
    \/ Respond(r)
    \/ Raise(r)
    \/ Close(r)

Next ==
    \/ \E r \in Request, route \in Offered :
          \/ \E u \in User \union {Null} : Arrive(r, route, u)
          \/ \E u \in User : ArriveWithToken(r, route, u)
    \/ \E r \in Request : GoOn(r)
    \/ \E u \in User : Deactivate(u) \/ TokenExpires(u)

Spec == Init /\ [][Next]_vars

\* The event loop runs every coroutine that can go on, queries end, and the
\* pool gives up after pool_timeout.
FairSpec == Spec /\ \A r \in Request : WF_vars(GoOn(r))

-----------------------------------------------------------------------------
(* Correctness.                                                            *)

\* Requests, tokens and the pool hold values their types allow.
RequestTypeOK ==
    /\ active \subseteq User
    /\ tokens \subseteq User
    /\ free \in 0 .. PoolSize
    /\ req \in [Request -> RequestState]

Holders == {r \in Request : req[r].conn}

\* No connection is lost or given twice, whatever raised (get_db, async with
\* db.begin()), and a connection serves a transaction.  Between its blocks a
\* service without a user is in no transaction: its next begin() succeeds.
SessionsAreSound ==
    /\ free + Cardinality(Holders) = PoolSize
    /\ \A r \in Request :
          /\ req[r].conn => req[r].begun
          /\ req[r].pc = "serving" /\ req[r].begun => req[r].route \notin PublicRoute

\* Behind the gate of a protected route is a user of one of its roles whose
\* account was open when the request arrived, although the token may have been
\* made by a login that overtook the closing of the account (get_current_user:
\* "validate user exists AND is_active on every request").
AuthorityHolds ==
    \A r \in Request :
        req[r].pc \in {"serving", "block"} /\ req[r].route \notin PublicRoute =>
            req[r].fresh /\ RoleOf[req[r].user] \in Roles(req[r].route)

\* Every request is answered, also when all connections are taken.
RequestsEnd == \A r \in Request : req[r] # Idle ~> req[r] = Idle

-----------------------------------------------------------------------------
(* What the tests say and the code does not do.                            *)

\* tests/api/test_api_endpoints.py has authenticated requests that change
\* something answered with success: no block fails to begin.
BlocksBegin == \A r \in Request : ~ req[r].refused
=============================================================================
