----------------------------- MODULE RequestsProofs -----------------------------
(***************************************************************************)
(* Theorems about requests, for any users, routes, size of the pool and    *)
(* number of requests in progress.                                         *)
(*                                                                         *)
(* The argument: a connection is taken only for a transaction and given    *)
(* back when it ends, so the free ones and those held always add up to the *)
(* pool; and an account that is open when get_current_user reads it was    *)
(* open when the request arrived, since no account is opened again.  A     *)
(* request waits for a connection only while it holds none itself.         *)
(***************************************************************************)
EXTENDS Requests, FiniteSetTheorems, TLAPS

USE RequestAssumption

Gated(q) == q.pc # "idle" /\ q.route \notin PublicRoute

\* What a request holds at each of its steps.
Consistent(q) ==
    /\ q.conn => q.begun
    /\ q.pc # "idle" => q.route \in Offered
    /\ q.pc = "idle" => q = Idle
    /\ q.pc = "block" => q.left > 0
    /\ q.pc # "idle" /\ q.route \in TokenRoute => q.user \in User
    /\ q.pc = "loading" => Gated(q)
    /\ q.pc = "serving" /\ q.begun => Gated(q)
    /\ Gated(q) => q.begun /\ q.pc # "block"
    /\ Gated(q) /\ q.seen => q.fresh
    /\ Gated(q) /\ q.pc = "serving" =>
          q.seen /\ RoleOf[q.user] \in Roles(q.route)

RequestsAreConsistent == \A r \in Request : Consistent(req[r])

\* A user who is active was active when the request arrived.
ArrivalsAreRemembered ==
    \A r \in Request : Gated(req[r]) /\ req[r].user \in active => req[r].fresh

ConnectionsAddUp == free + Cardinality(Holders) = PoolSize

BasicTypes ==
    /\ active \subseteq User
    /\ tokens \subseteq User
    /\ free \in Nat
    /\ req \in [Request -> RequestState]

RequestInv ==
    /\ BasicTypes
    /\ RequestsAreConsistent
    /\ ArrivalsAreRemembered
    /\ ConnectionsAddUp

-----------------------------------------------------------------------------
(* Lemmas about one request that moves.                                    *)

LEMMA BlocksType == \A route : Blocks(route) \in 0 .. 2
BY DEF Blocks

LEMMA IdleIsFine == Idle \in RequestState /\ Consistent(Idle)
BY DEF Idle, RequestState, Consistent, Gated

LEMMA HoldersAreFinite == IsFiniteSet(Holders) /\ Cardinality(Holders) \in Nat
<1>1. Holders \in SUBSET Request
  BY DEF Holders
<1> QED
  BY <1>1, FS_Subset, FS_CardinalityType

\* Only the holdings of the request that moves may change, and with them the
\* number of free connections.
LEMMA ConnectionsStayAddedUp ==
    ASSUME BasicTypes, ConnectionsAddUp,
           NEW r \in Request, NEW p \in RequestState,
           req' = [req EXCEPT ![r] = p],
           \/ p.conn = req[r].conn /\ free' = free
           \/ p.conn /\ ~ req[r].conn /\ free > 0 /\ free' = free - 1
           \/ ~ p.conn /\ req[r].conn /\ free' = free + 1
    PROVE  ConnectionsAddUp' /\ free' \in Nat
<1>1. \A s \in Request : req'[s] = IF s = r THEN p ELSE req[s]
  BY DEF BasicTypes
<1>2. p.conn \in BOOLEAN /\ req[r].conn \in BOOLEAN
  BY DEF BasicTypes, RequestState
<1>3. CASE p.conn = req[r].conn /\ free' = free
  <2>1. Holders' = Holders
    BY <1>1, <1>3 DEF Holders
  <2> QED
    BY <1>3, <2>1 DEF ConnectionsAddUp, BasicTypes
<1>4. CASE p.conn /\ ~ req[r].conn /\ free > 0 /\ free' = free - 1
  <2>1. Holders' = Holders \cup {r} /\ r \notin Holders
    BY <1>1, <1>4 DEF Holders
  <2>2. Cardinality(Holders') = Cardinality(Holders) + 1
    BY <2>1, HoldersAreFinite, FS_AddElement
  <2> QED
    BY <1>4, <2>2, HoldersAreFinite DEF ConnectionsAddUp, BasicTypes
<1>5. CASE ~ p.conn /\ req[r].conn /\ free' = free + 1
  <2>1. Holders' = Holders \ {r} /\ r \in Holders
    BY <1>1, <1>5 DEF Holders
  <2>2. Cardinality(Holders') = Cardinality(Holders) - 1
    BY <2>1, HoldersAreFinite, FS_RemoveElement
  <2> QED
    BY <1>5, <2>2, HoldersAreFinite DEF ConnectionsAddUp, BasicTypes
<1> QED
  BY <1>2, <1>3, <1>4, <1>5

\* A request that moves keeps the invariant if it stays consistent, and either
\* keeps its route, user and history or is fresh if its user is active.
LEMMA OneRequestMoves ==
    ASSUME RequestInv,
           NEW r \in Request, NEW p \in RequestState,
           req' = [req EXCEPT ![r] = p],
           Consistent(p),
           active' = active, tokens' \subseteq User,
           Gated(p) /\ p.user \in active => p.fresh,
           \/ p.conn = req[r].conn /\ free' = free
           \/ p.conn /\ ~ req[r].conn /\ free > 0 /\ free' = free - 1
           \/ ~ p.conn /\ req[r].conn /\ free' = free + 1
    PROVE  RequestInv'
<1>1. \A s \in Request : req'[s] = IF s = r THEN p ELSE req[s]
  BY DEF RequestInv, BasicTypes
<1>2. ConnectionsAddUp' /\ free' \in Nat
  BY ConnectionsStayAddedUp DEF RequestInv
<1>3. BasicTypes'
  BY <1>2 DEF RequestInv, BasicTypes
<1>4. RequestsAreConsistent'
  BY <1>1 DEF RequestInv, RequestsAreConsistent
<1>5. ArrivalsAreRemembered'
  BY <1>1 DEF RequestInv, ArrivalsAreRemembered
<1> QED
  BY <1>2, <1>3, <1>4, <1>5 DEF RequestInv

-----------------------------------------------------------------------------
(* Every step keeps the invariant.                                         *)

LEMMA InvInit == Init => RequestInv
<1> SUFFICES ASSUME Init PROVE RequestInv
  OBVIOUS
<1>1. \A r \in Request : req[r] = Idle
  BY DEF Init
<1>2. BasicTypes
  BY IdleIsFine DEF Init, BasicTypes
<1>3. RequestsAreConsistent
  BY <1>1, IdleIsFine DEF RequestsAreConsistent
<1>4. ArrivalsAreRemembered
  BY <1>1 DEF ArrivalsAreRemembered, Gated, Idle
<1>5. Holders = {}
  BY <1>1 DEF Holders, Idle
<1>6. ConnectionsAddUp
  BY <1>5, FS_EmptySet DEF Init, ConnectionsAddUp
<1> QED
  BY <1>2, <1>3, <1>4, <1>6 DEF RequestInv

LEMMA ArrivalsKeepInv ==
    ASSUME RequestInv, NEW r \in Request, NEW route \in Offered,
           NEW u \in User \union {Null},
           Arrive(r, route, u) \/ (u \in User /\ ArriveWithToken(r, route, u))
    PROVE  RequestInv'
<1>1. CASE Arrive(r, route, u)
  <2> DEFINE p == [Idle EXCEPT !.pc = "serving", !.route = route, !.user = u,
                               !.left = Blocks(route)]
  <2>1. p \in RequestState /\ Consistent(p) /\ p.conn = req[r].conn
        /\ ~ Gated(p) /\ req' = [req EXCEPT ![r] = p]
    BY <1>1, BlocksType DEF Arrive, RequestState, Idle, Consistent, Gated
  <2>2. active' = active /\ tokens' \subseteq User /\ free' = free
    BY <1>1 DEF Arrive, RequestInv, BasicTypes
  <2> HIDE DEF p
  <2> QED
    BY <2>1, <2>2, OneRequestMoves
<1>2. CASE u \in User /\ ArriveWithToken(r, route, u)
  <2> DEFINE fresh == u \in active
             p == [Idle EXCEPT !.pc = "loading", !.route = route, !.user = u,
                               !.begun = TRUE, !.left = Blocks(route),
                               !.fresh = fresh]
  <2>1. p \in RequestState
    <3>1. fresh \in BOOLEAN
      OBVIOUS
    <3> HIDE DEF fresh
    <3> QED
      BY <1>2, <3>1, BlocksType DEF RequestState, Idle
  <2>2. /\ p.pc = "loading" /\ p.route = route /\ p.user = u
        /\ p.begun = TRUE /\ p.conn = FALSE /\ p.seen = FALSE
        /\ (u \in active => p.fresh)
    BY DEF Idle
  <2>3. route \notin PublicRoute /\ req[r].conn = FALSE
        /\ req' = [req EXCEPT ![r] = p]
    BY <1>2 DEF ArriveWithToken, Idle
  <2>4. route \notin TokenRoute
    BY <2>3 DEF PublicRoute, TokenRoute
  <2>5. active' = active /\ tokens' \subseteq User /\ free' = free
    BY <1>2 DEF ArriveWithToken, RequestInv, BasicTypes
  <2> HIDE DEF p
  <2>6. Consistent(p)
    BY <2>2, <2>3, <2>4 DEF Consistent, Gated
  <2> QED
    BY <2>1, <2>2, <2>3, <2>5, <2>6, OneRequestMoves
<1> QED
  BY <1>1, <1>2

\* The session has seen an active user only if the user is active, or it had.
LEMMA ConnectedKeepsTheRest ==
    ASSUME NEW q \in RequestState
    PROVE  LET p == Connected(q) IN
           /\ p \in RequestState
           /\ p.pc = q.pc /\ p.route = q.route /\ p.user = q.user
           /\ p.left = q.left /\ p.fresh = q.fresh /\ p.begun = q.begun
           /\ p.conn = TRUE
           /\ p.seen => q.user \in active \/ q.seen
<1> DEFINE seen == IF FirstQuery(q) THEN q.user \in active ELSE q.seen
           p == [q EXCEPT !.conn = TRUE, !.seen = seen]
<1>1. seen \in BOOLEAN /\ (seen => q.user \in active \/ q.seen)
  <2>1. CASE FirstQuery(q)
    BY <2>1
  <2>2. CASE ~ FirstQuery(q)
    BY <2>2 DEF RequestState
  <2> QED
    BY <2>1, <2>2
<1>2. Connected(q) = p
  BY DEF Connected
<1> HIDE DEF seen
<1>3. /\ p \in RequestState
      /\ p.pc = q.pc /\ p.route = q.route /\ p.user = q.user
      /\ p.left = q.left /\ p.fresh = q.fresh /\ p.begun = q.begun
      /\ p.conn = TRUE /\ p.seen = seen
  BY <1>1 DEF RequestState
<1> QED
  BY <1>1, <1>2, <1>3

LEMMA RequestsGoOnInInv ==
    ASSUME RequestInv, NEW r \in Request, GoOn(r)
    PROVE  RequestInv'
<1> DEFINE q == req[r]
<1>1. q \in RequestState /\ Consistent(q)
      /\ (Gated(q) /\ q.user \in active => q.fresh)
      /\ active' = active /\ tokens \subseteq User /\ free \in Nat
  BY DEF RequestInv, BasicTypes, RequestsAreConsistent, ArrivalsAreRemembered,
         GoOn, Connect, PoolTimesOut, Authenticate, BeginBlock, CommitBlock,
         RollbackBlock, Respond, Raise, Close
<1>2. CASE Connect(r)
  <2> DEFINE p == Connected(q)
  <2>1. q.conn = FALSE /\ q.begun = TRUE /\ q.pc \in {"loading", "block"}
    BY <1>1, <1>2 DEF Connect, Waiting, RequestState
  <2>2. req' = [req EXCEPT ![r] = p] /\ free > 0 /\ free' = free - 1
        /\ tokens' = tokens
    BY <1>2 DEF Connect
  <2>3. p \in RequestState /\ p.conn
    BY <1>1, ConnectedKeepsTheRest
  <2>4. Consistent(p)
    BY <1>1, <2>1, <2>3, ConnectedKeepsTheRest DEF Consistent, Gated, RequestState
  <2>5. Gated(p) /\ p.user \in active => p.fresh
    BY <1>1, ConnectedKeepsTheRest DEF Gated
  <2> HIDE DEF p
  <2> QED
    BY <1>1, <2>1, <2>2, <2>3, <2>4, <2>5, OneRequestMoves
<1>3. CASE PoolTimesOut(r) \/ Respond(r) \/ Raise(r)
  <2> DEFINE p == [q EXCEPT !.pc = "closing"]
  <2>1. req' = [req EXCEPT ![r] = p] /\ tokens' = tokens /\ free' = free
        /\ q.pc # "idle"
    BY <1>3 DEF PoolTimesOut, TimesOut, Waiting, Respond, Raise
  <2>2. p \in RequestState /\ p.conn = q.conn
    BY <1>1 DEF RequestState
  <2>3. Consistent(p) /\ (Gated(p) /\ p.user \in active => p.fresh)
    BY <1>1, <2>1 DEF RequestState, Consistent, Gated
  <2> HIDE DEF p
  <2> QED
    BY <1>1, <2>1, <2>2, <2>3, OneRequestMoves
<1>4. CASE Authenticate(r)
  <2> DEFINE p == [q EXCEPT !.pc = IF Authorized(q) THEN "serving" ELSE "closing"]
  <2>1. req' = [req EXCEPT ![r] = p] /\ tokens' = tokens /\ free' = free
        /\ q.pc = "loading"
    BY <1>4 DEF Authenticate
  <2>2. p \in RequestState /\ p.conn = q.conn
    BY <1>1 DEF RequestState
  <2>3. Consistent(p) /\ (Gated(p) /\ p.user \in active => p.fresh)
    BY <1>1, <2>1 DEF RequestState, Consistent, Gated, Authorized
  <2> HIDE DEF p
  <2> QED
    BY <1>1, <2>1, <2>2, <2>3, OneRequestMoves
<1>5. CASE BeginBlock(r)
  <2> DEFINE p == IF q.begun THEN [q EXCEPT !.pc = "closing", !.refused = TRUE]
                  ELSE [q EXCEPT !.pc = "block", !.begun = TRUE]
  <2>1. req' = [req EXCEPT ![r] = p] /\ tokens' = tokens /\ free' = free
        /\ q.pc = "serving" /\ q.left > 0
    BY <1>5 DEF BeginBlock
  <2>2. p \in RequestState /\ p.conn = q.conn
    BY <1>1 DEF RequestState
  <2>3. Consistent(p) /\ (Gated(p) /\ p.user \in active => p.fresh)
    BY <1>1, <2>1 DEF RequestState, Consistent, Gated
  <2> HIDE DEF p
  <2> QED
    BY <1>1, <2>1, <2>2, <2>3, OneRequestMoves
<1>6. CASE CommitBlock(r)
  <2> DEFINE p == [Ended(q) EXCEPT !.pc = "serving", !.left = q.left - 1]
  <2>1. req' = [req EXCEPT ![r] = p] /\ q.pc = "block" /\ q.conn
        /\ free' = free + 1 /\ tokens' \subseteq User
    BY <1>1, <1>6 DEF CommitBlock, Released, Consistent
  <2>2. q.left - 1 \in 0 .. 2
    BY <1>1, <2>1 DEF RequestState, Consistent
  <2>3. p \in RequestState /\ ~ p.conn
    BY <1>1, <2>2 DEF RequestState, Ended
  <2>4. Consistent(p) /\ (Gated(p) /\ p.user \in active => p.fresh)
    BY <1>1, <2>1 DEF RequestState, Consistent, Gated, Ended
  <2> HIDE DEF p
  <2> QED
    BY <1>1, <2>1, <2>3, <2>4, OneRequestMoves
<1>7. CASE RollbackBlock(r)
  <2> DEFINE p == [Ended(q) EXCEPT !.pc = "closing"]
  <2>1. req' = [req EXCEPT ![r] = p] /\ q.pc = "block" /\ q.conn
        /\ free' = free + 1 /\ tokens' = tokens
    BY <1>7 DEF RollbackBlock, Released
  <2>2. p \in RequestState /\ ~ p.conn
    BY <1>1 DEF RequestState, Ended
  <2>3. Consistent(p) /\ (Gated(p) /\ p.user \in active => p.fresh)
    BY <1>1, <2>1 DEF RequestState, Consistent, Gated, Ended
  <2> HIDE DEF p
  <2> QED
    BY <1>1, <2>1, <2>2, <2>3, OneRequestMoves
<1>8. CASE Close(r)
  <2>1. req' = [req EXCEPT ![r] = Idle] /\ tokens' = tokens
        /\ free' = IF q.conn THEN free + 1 ELSE free
    BY <1>8 DEF Close, ClosedSession, Released
  <2>2. ~ Idle.conn /\ ~ Gated(Idle) /\ q.conn \in BOOLEAN
    BY <1>1 DEF Idle, Gated, RequestState
  <2>3. \/ Idle.conn = q.conn /\ free' = free
        \/ ~ Idle.conn /\ q.conn /\ free' = free + 1
    BY <2>1, <2>2 DEF Idle
  <2> QED
    BY <1>1, <2>1, <2>2, <2>3, IdleIsFine, OneRequestMoves
<1> QED
  BY <1>2, <1>3, <1>4, <1>5, <1>6, <1>7, <1>8 DEF GoOn

LEMMA InvStep == RequestInv /\ [Next]_vars => RequestInv'
<1> SUFFICES ASSUME RequestInv, [Next]_vars PROVE RequestInv'
  OBVIOUS
<1>1. ASSUME NEW r \in Request, GoOn(r) PROVE RequestInv'
  BY <1>1, RequestsGoOnInInv
<1>2. ASSUME NEW u \in User, Deactivate(u) \/ TokenExpires(u) PROVE RequestInv'
  BY <1>2 DEF Deactivate, TokenExpires, RequestInv, BasicTypes,
              RequestsAreConsistent, ArrivalsAreRemembered, ConnectionsAddUp,
              Holders
<1>3. CASE UNCHANGED vars
  BY <1>3 DEF vars, RequestInv, BasicTypes, RequestsAreConsistent,
              ArrivalsAreRemembered, ConnectionsAddUp, Holders
<1>4. CASE \E r \in Request, route \in Offered :
               \/ \E u \in User \union {Null} : Arrive(r, route, u)
               \/ \E u \in User : ArriveWithToken(r, route, u)
  <2>1. PICK r \in Request, route \in Offered :
               \/ \E u \in User \union {Null} : Arrive(r, route, u)
               \/ \E u \in User : ArriveWithToken(r, route, u)
    BY <1>4
  <2>2. CASE \E u \in User \union {Null} : Arrive(r, route, u)
    <3>1. PICK u \in User \union {Null} : Arrive(r, route, u)
      BY <2>2
    <3> QED
      BY <3>1, ArrivalsKeepInv
  <2>3. CASE \E u \in User : ArriveWithToken(r, route, u)
    <3>1. PICK u \in User : ArriveWithToken(r, route, u)
      BY <2>3
    <3>2. u \in User \union {Null}
      OBVIOUS
    <3> QED
      BY <3>1, <3>2, ArrivalsKeepInv
  <2> QED
    BY <2>1, <2>2, <2>3
<1>5. CASE \E r \in Request : GoOn(r)
  BY <1>1, <1>5
<1>6. CASE \E u \in User : Deactivate(u) \/ TokenExpires(u)
  BY <1>2, <1>6
<1> QED
  BY <1>3, <1>4, <1>5, <1>6 DEF Next

THEOREM InvHolds == Spec => []RequestInv
<1>1. Init => RequestInv
  BY InvInit
<1>2. RequestInv /\ [Next]_vars => RequestInv'
  BY InvStep
<1> QED
  BY <1>1, <1>2, PTL DEF Spec

-----------------------------------------------------------------------------
(* What it shows.                                                          *)

\* For any pool, never more connections are free than it has, and requests and
\* tokens are well typed.
THEOREM RequestTypes == Spec => []RequestTypeOK
<1>1. RequestInv => RequestTypeOK
  <2> SUFFICES ASSUME RequestInv PROVE RequestTypeOK
    OBVIOUS
  <2>1. free \in 0 .. PoolSize
    BY HoldersAreFinite DEF RequestInv, BasicTypes, ConnectionsAddUp
  <2> QED
    BY <2>1 DEF RequestInv, BasicTypes, RequestTypeOK
<1> QED
  BY <1>1, InvHolds, PTL

\* However many requests are answered, refused, raise or time out, no connection
\* is lost or handed out twice (get_db, async with db.begin()).
THEOREM SessionsAreAlwaysSound == Spec => []SessionsAreSound
<1>1. RequestInv => SessionsAreSound
  BY DEF RequestInv, ConnectionsAddUp, RequestsAreConsistent, Consistent,
         Gated, SessionsAreSound
<1> QED
  BY <1>1, InvHolds, PTL

\* No request behind a gate ever gets into a block of its service: begin()
\* raises in the transaction that get_current_user's query began.
THEOREM GatedBlocksNeverBegin ==
    Spec => [](\A r \in Request :
                  req[r].pc = "block" => req[r].route \in PublicRoute)
<1>1. RequestInv => \A r \in Request :
                        req[r].pc = "block" => req[r].route \in PublicRoute
  BY DEF RequestInv, RequestsAreConsistent, Consistent, Gated
<1> QED
  BY <1>1, InvHolds, PTL

\* No request is served behind a gate for a user of another role, or for one
\* whose account was closed before it arrived (get_current_user, require_role).
THEOREM AuthorityAlwaysHolds == Spec => []AuthorityHolds
<1>1. RequestInv => AuthorityHolds
  BY DEF RequestInv, RequestsAreConsistent, Consistent, Gated, AuthorityHolds
<1> QED
  BY <1>1, InvHolds, PTL

\* When the pool has no connection left, a request holds one and is not itself
\* waiting for another.
ExhaustedPoolIsInUse ==
    free = 0 => \E r \in Request : /\ req[r].conn
                                   /\ req[r].pc # "idle"
                                   /\ ~ Waiting(req[r])

\* Waiting for the pool is never waiting for each other: no request asks for a
\* second connection, the query of get_current_user and the blocks of the service
\* use one session after the other (get_db).
THEOREM NobodyWaitsForEachOther == Spec => []ExhaustedPoolIsInUse
<1>1. RequestInv => ExhaustedPoolIsInUse
  <2> SUFFICES ASSUME RequestInv, free = 0
               PROVE  \E r \in Request : /\ req[r].conn
                                          /\ req[r].pc # "idle"
                                          /\ ~ Waiting(req[r])
    BY DEF ExhaustedPoolIsInUse
  <2>1. Cardinality(Holders) = PoolSize /\ PoolSize # 0
    BY HoldersAreFinite DEF RequestInv, ConnectionsAddUp
  <2>2. Holders # {}
    BY <2>1, FS_EmptySet
  <2>3. PICK r \in Request : req[r].conn
    BY <2>2 DEF Holders
  <2>4. req[r].pc # "idle"
    BY <2>3 DEF RequestInv, RequestsAreConsistent, Consistent, Idle
  <2> QED
    BY <2>3, <2>4 DEF Waiting
<1> QED
  BY <1>1, InvHolds, PTL
=============================================================================
