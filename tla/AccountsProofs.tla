----------------------------- MODULE AccountsProofs -----------------------------
(***************************************************************************)
(* Theorems about accounts and their sessions, for any addresses, limits   *)
(* and number of concurrent requests.                                      *)
(*                                                                         *)
(* The argument: an account, once there, is there for good, and no request *)
(* carries a value of its row into its commit: the statements change the   *)
(* columns they name and leave the others as they are.  A lock reaches no  *)
(* further than one that is set now, so setting it again does not shorten  *)
(* it.  Once an account is closed each session that opens ends the request *)
(* that opens it, and no request can begin to open one, so they grow no    *)
(* more in number.  A rotation knows the account of the token it replaces, *)
(* though not whether it still lives.                                      *)
(***************************************************************************)
EXTENDS Accounts, SequenceTheorems, FiniteSetTheorems, TLAPS

USE AccountAssumption, NoRowIsNull

\* What a request between its reading and its commit can rely on: the account
\* or the token is still there, and a verified university still verified.
RequestIsBacked(r) ==
    LET q == req[r] IN
    /\ q.pc = "registering" =>
          /\ q.email \in Email /\ q.role \in Role /\ q.password \in Password
          /\ MayRegister(q.role, q.university)
    /\ q.pc \in {"wrong", "verified", "changing", "changed", "closing", "closed"} =>
          q.email \in Email /\ Exists(q.email)
    /\ q.pc \in {"changing", "changed"} => q.password \in Password
    /\ q.pc = "rotating" => q.email \in Email
    /\ q.pc \in {"rotating", "leaving"} => q.token \in 1 .. Len(tokens)

RequestsAreBacked == \A r \in Request : RequestIsBacked(r)

\* A lock ends no later than one that is set now.
LocksAreInReach ==
    \A e \in Email : Exists(e) => users[e].lockedUntil <= now + LockFor

AccountInv ==
    /\ AccountTypeOK
    /\ RequestsAreBacked
    /\ RolesAreBacked
    /\ LockFollowsFailures
    /\ LocksAreInReach

LEMMA Limits ==
    /\ MaxFailed \in Nat /\ MaxFailed >= 1
    /\ MaxTime \in Nat /\ MaxTokens \in Nat /\ MaxCount \in Nat
    /\ LockFor \in Nat /\ LockFor >= 1 /\ TokenLife \in Nat /\ TokenLife >= 1
BY AccountAssumption

-----------------------------------------------------------------------------
(* What a step does to an account.                                         *)

\* The row of e is one that was registered now.
Registered(e) ==
    /\ ~ Exists(e)
    /\ \E r \in Request :
          LET q == req[r] IN
          /\ q.role \in Role /\ q.password \in Password
          /\ MayRegister(q.role, q.university)
          /\ users'[e] = [role |-> q.role, university |-> q.university,
                          password |-> q.password, active |-> TRUE, failed |-> 0,
                          lockedUntil |-> 0]
          /\ profiles'[e] = IF q.role \in ProfileRow THEN q.role ELSE Null

\* A failed login is counted, and locks the account at the limit.
Counted(e) ==
    /\ Exists(e)
    /\ users[e].failed + 1 <= MaxCount
    /\ users'[e] = [users[e] EXCEPT
          !.failed = users[e].failed + 1,
          !.lockedUntil = IF users[e].failed + 1 >= MaxFailed THEN now + LockFor
                          ELSE users[e].lockedUntil]
    /\ profiles' = profiles

\* A successful login forgets the failures and opens a session.
LoggedIn(e) ==
    /\ Exists(e)
    /\ users'[e] = [users[e] EXCEPT !.failed = 0]
    /\ profiles' = profiles
    /\ tokens' = Append(tokens, NewToken(e))

\* The password changes, or the account is closed.
Edited(e) ==
    /\ Exists(e)
    /\ \/ \E p \in Password : users'[e] = [users[e] EXCEPT !.password = p]
       \/ users'[e] = [users[e] EXCEPT !.active = FALSE]
    /\ profiles' = profiles

Kept(e) == users'[e] = users[e] /\ profiles'[e] = profiles[e]

\* These are all the ways in which an account changes.
LEMMA AccountSteps ==
    ASSUME AccountTypeOK, RequestsAreBacked, [Next]_vars, NEW e \in Email
    PROVE  Registered(e) \/ Counted(e) \/ LoggedIn(e) \/ Edited(e) \/ Kept(e)
<1>0. /\ users \in [Email -> UserRow \union {Null}]
      /\ profiles \in [Email -> ProfileRow \union {Null}]
  BY DEF AccountTypeOK
<1>1. ASSUME NEW r \in Request, CommitRegistration(r)
      PROVE  Registered(e) \/ Kept(e)
  <2>1. RequestIsBacked(r)
    BY DEF RequestsAreBacked
  <2>2. CASE req[r].email = e
    BY <1>0, <1>1, <2>1, <2>2 DEF CommitRegistration, RequestIsBacked, Registered
  <2>3. CASE req[r].email # e
    BY <1>0, <1>1, <2>3 DEF CommitRegistration, Kept
  <2> QED
    BY <2>2, <2>3
<1>2. ASSUME NEW r \in Request, FailLogin(r)
      PROVE  Counted(e) \/ Kept(e)
  <2>1. RequestIsBacked(r)
    BY DEF RequestsAreBacked
  <2>2. CASE req[r].email = e
    <3>1. Exists(e) /\ users[e] \in UserRow
      BY <1>0, <1>2, <2>1, <2>2 DEF FailLogin, RequestIsBacked, Exists
    <3> QED
      BY <1>0, <1>2, <2>2, <3>1 DEF FailLogin, Counted, Failures, LocksAt, UserRow
  <2>3. CASE req[r].email # e
    BY <1>0, <1>2, <2>3 DEF FailLogin, Kept
  <2> QED
    BY <2>2, <2>3
<1>3. ASSUME NEW r \in Request, SucceedLogin(r)
      PROVE  LoggedIn(e) \/ Kept(e)
  <2>1. RequestIsBacked(r)
    BY DEF RequestsAreBacked
  <2>2. CASE req[r].email = e
    BY <1>0, <1>3, <2>1, <2>2 DEF SucceedLogin, RequestIsBacked, LoggedIn, ResetFailures
  <2>3. CASE req[r].email # e
    BY <1>0, <1>3, <2>3 DEF SucceedLogin, Kept
  <2> QED
    BY <2>2, <2>3
<1>4. ASSUME NEW r \in Request, CommitPassword(r)
      PROVE  Edited(e) \/ Kept(e)
  <2>1. RequestIsBacked(r)
    BY DEF RequestsAreBacked
  <2>2. CASE req[r].email = e
    BY <1>0, <1>4, <2>1, <2>2 DEF CommitPassword, RequestIsBacked, Edited
  <2>3. CASE req[r].email # e
    BY <1>0, <1>4, <2>3 DEF CommitPassword, Kept
  <2> QED
    BY <2>2, <2>3
<1>5. ASSUME NEW r \in Request, CommitClosing(r)
      PROVE  Edited(e) \/ Kept(e)
  <2>1. RequestIsBacked(r)
    BY DEF RequestsAreBacked
  <2>2. CASE req[r].email = e
    BY <1>0, <1>5, <2>1, <2>2 DEF CommitClosing, RequestIsBacked, Edited
  <2>3. CASE req[r].email # e
    BY <1>0, <1>5, <2>3 DEF CommitClosing, Kept
  <2> QED
    BY <2>2, <2>3
<1>6. CASE UNCHANGED <<users, profiles>>
  BY <1>6 DEF Kept
<1> QED
  BY <1>1, <1>2, <1>3, <1>4, <1>5, <1>6
  DEF Next, vars, Start, GoOn, Register, VerifyUniversity, Login, Refresh, Rotate,
      Logout, Leave, ChangePassword, Deactivate, FindSessions, Fail, Tick

\* Columns keep values of their domains.
LEMMA RowsStayRows ==
    ASSUME AccountTypeOK, RequestsAreBacked, [Next]_vars, NEW e \in Email
    PROVE  /\ users'[e] \in UserRow \union {Null}
           /\ profiles'[e] \in ProfileRow \union {Null}
           /\ Exists(e) => Exists(e)'
<1>0. /\ users[e] \in UserRow \union {Null} /\ profiles[e] \in ProfileRow \union {Null}
      /\ now \in 0 .. MaxTime /\ verified \subseteq University
  BY DEF AccountTypeOK
<1>1. CASE Registered(e)
  BY <1>0, <1>1 DEF Registered, UserRow, Role, MayRegister, ProfileRow, Exists
<1>2. CASE Counted(e)
  <2>1. users[e] \in UserRow
    BY <1>0, <1>2 DEF Counted, Exists
  <2>2. users'[e] \in UserRow
    <3>1. /\ users[e].failed + 1 \in 0 .. MaxCount
          /\ now + LockFor \in 0 .. MaxTime + LockFor
      BY <1>0, <1>2, <2>1, Limits DEF Counted, UserRow
    <3> QED
      BY <1>2, <2>1, <3>1 DEF Counted, UserRow
  <2> QED
    BY <1>0, <1>2, <2>2 DEF Counted, Exists
<1>3. CASE LoggedIn(e)
  <2>1. users[e] \in UserRow
    BY <1>0, <1>3 DEF LoggedIn, Exists
  <2>2. users'[e] \in UserRow
    <3>1. 0 \in 0 .. MaxCount
      BY Limits
    <3>2. users'[e] = [users[e] EXCEPT !.failed = 0]
      BY <1>3 DEF LoggedIn
    <3> QED
      BY <2>1, <3>1, <3>2 DEF UserRow
  <2> QED
    BY <1>0, <1>3, <2>2 DEF LoggedIn, Exists
<1>4. CASE Edited(e)
  <2>1. users[e] \in UserRow
    BY <1>0, <1>4 DEF Edited, Exists
  <2>2. users'[e] \in UserRow
    BY <1>4, <2>1 DEF Edited, UserRow
  <2> QED
    BY <1>0, <1>4, <2>2 DEF Edited, Exists
<1>5. CASE Kept(e)
  BY <1>0, <1>5 DEF Kept, Exists
<1> QED
  BY <1>1, <1>2, <1>3, <1>4, <1>5, AccountSteps


\* A new token's values are in their domains.
LEMMA NewTokenIsARow ==
    ASSUME AccountTypeOK, NEW e \in Email
    PROVE  NewToken(e) \in TokenRow
<1>1. now \in 0 .. MaxTime
  BY DEF AccountTypeOK
<1>2. now + TokenLife \in 1 .. MaxTime + TokenLife /\ 0 \in 0 .. MaxTokens
  BY <1>1, Limits
<1> QED
  BY <1>2 DEF NewToken, TokenRow

\* Tokens are added and marked, never removed.
LEMMA TokensStayTokens ==
    ASSUME AccountTypeOK, RequestsAreBacked, [Next]_vars
    PROVE  tokens' \in Seq(TokenRow) /\ Len(tokens') >= Len(tokens)
<1>0. tokens \in Seq(TokenRow) /\ Len(tokens) \in Nat
  BY LenProperties DEF AccountTypeOK
<1>1. ASSUME NEW r \in Request, SucceedLogin(r)
      PROVE  tokens' \in Seq(TokenRow) /\ Len(tokens') >= Len(tokens)
  <2>1. NewToken(req[r].email) \in TokenRow
    BY <1>1, NewTokenIsARow DEF SucceedLogin, RequestsAreBacked, RequestIsBacked
  <2> QED
    BY <1>0, <1>1, <2>1 DEF SucceedLogin
<1>2. ASSUME NEW i \in 1 .. Len(tokens), NEW n \in 0 .. MaxTokens
      PROVE  /\ [tokens EXCEPT ![i] = Revoked(@, n)] \in Seq(TokenRow)
             /\ Len([tokens EXCEPT ![i] = Revoked(@, n)]) = Len(tokens)
  <2>1. Revoked(tokens[i], n) \in TokenRow
    <3>1. tokens[i] \in TokenRow
      BY <1>0, ElementOfSeq
    <3> QED
      BY <3>1 DEF Revoked, TokenRow
  <2> QED
    BY <1>0, <2>1, ExceptSeq
<1>3. ASSUME NEW r \in Request, Rotate(r)
      PROVE  tokens' \in Seq(TokenRow) /\ Len(tokens') >= Len(tokens)
  <2> DEFINE marked == [tokens EXCEPT ![req[r].token] = Revoked(@, Len(tokens) + 1)]
  <2>1. NewToken(req[r].email) \in TokenRow /\ req[r].token \in 1 .. Len(tokens)
    BY <1>3, NewTokenIsARow DEF Rotate, RequestsAreBacked, RequestIsBacked
  <2>2. Len(tokens) + 1 \in 0 .. MaxTokens
    BY <1>0, <1>3, Limits DEF Rotate
  <2>3. marked \in Seq(TokenRow) /\ Len(marked) = Len(tokens)
    BY <1>2, <2>1, <2>2
  <2>4. tokens' = Append(marked, NewToken(req[r].email))
    BY <1>3 DEF Rotate
  <2> QED
    BY <1>0, <2>1, <2>3, <2>4
<1>4. ASSUME NEW r \in Request, Leave(r)
      PROVE  tokens' \in Seq(TokenRow) /\ Len(tokens') >= Len(tokens)
  <2>1. req[r].token \in 1 .. Len(tokens) /\ 0 \in 0 .. MaxTokens
    BY <1>4, Limits DEF Leave, RequestsAreBacked, RequestIsBacked
  <2> QED
    BY <1>0, <1>2, <1>4, <2>1 DEF Leave
<1>5. ASSUME NEW found, RevokeFound(found)
      PROVE  tokens' \in Seq(TokenRow) /\ Len(tokens') >= Len(tokens)
  <2>1. \A i \in 1 .. Len(tokens) :
           (IF i \in found THEN [tokens[i] EXCEPT !.revoked = TRUE]
            ELSE tokens[i]) \in TokenRow
    <3> TAKE i \in 1 .. Len(tokens)
    <3>1. tokens[i] \in TokenRow
      BY <1>0, ElementOfSeq
    <3> QED
      BY <3>1 DEF TokenRow
  <2>2. tokens' \in [1 .. Len(tokens) -> TokenRow]
    BY <1>5, <2>1 DEF RevokeFound
  <2> QED
    BY <1>0, <2>2, SeqDef
<1>6. CASE UNCHANGED tokens
  BY <1>0, <1>6
<1> QED
  BY <1>1, <1>3, <1>4, <1>5, <1>6
  DEF Next, vars, Start, GoOn, Register, CommitRegistration, VerifyUniversity, Login,
      FailLogin, Refresh, Logout, ChangePassword, Deactivate, FindSessions,
      CommitPassword, CommitClosing, Fail, Tick

-----------------------------------------------------------------------------
(* The inductive invariant.                                                *)

LEMMA InitImpliesAccountInv == Init => AccountInv
<1> SUFFICES ASSUME Init PROVE AccountInv
  OBVIOUS
<1>1. AccountTypeOK
  BY Limits, EmptySeq DEF Init, AccountTypeOK, RequestState, Idle
<1>2. RequestsAreBacked
  BY DEF Init, RequestsAreBacked, RequestIsBacked, Idle
<1> QED
  BY <1>1, <1>2
  DEF Init, AccountInv, RolesAreBacked, LockFollowsFailures, LocksAreInReach, Exists

\* A step of a request leaves the slots of the others alone, and its own idle
\* or as its handler describes it.
LEMMA RequestsStayRequests ==
    ASSUME AccountTypeOK, RequestsAreBacked, [Next]_vars
    PROVE  req' \in [Request -> RequestState]
<1>0. /\ req \in [Request -> RequestState] /\ users \in [Email -> UserRow \union {Null}]
      /\ verified \subseteq University
      /\ tokens \in Seq(TokenRow)
  BY DEF AccountTypeOK
<1>1. Idle \in RequestState
  BY Limits DEF Idle, RequestState
<1>2. ASSUME NEW r \in Request, NEW e \in Email, NEW role \in Role,
             NEW u \in University \union {Null}, NEW p \in Password,
             Register(r, e, role, u, p)
      PROVE  req' \in [Request -> RequestState]
  BY <1>0, <1>1, <1>2 DEF Register, Idle, RequestState
<1>3. ASSUME NEW r \in Request, NEW e \in Email, NEW p \in Password, Login(r, e, p)
      PROVE  req' \in [Request -> RequestState]
  <2>1. users[e] \in UserRow
    BY <1>0, <1>3 DEF Login, Exists
  <2>2. users[e].active \in BOOLEAN /\ users[e].failed \in 0 .. MaxCount
    BY <2>1 DEF UserRow
  <2> QED
    BY <1>0, <1>1, <1>3, <2>2 DEF Login, Idle, RequestState
<1>4. ASSUME NEW r \in Request, NEW e \in Email, NEW old \in Password,
             NEW new \in Password, ChangePassword(r, e, old, new)
      PROVE  req' \in [Request -> RequestState]
  BY <1>0, <1>1, <1>4 DEF ChangePassword, Idle, RequestState
<1>5. ASSUME NEW r \in Request, NEW i \in 1 .. MaxTokens, Refresh(r, i) \/ Logout(r, i)
      PROVE  req' \in [Request -> RequestState]
  <2>1. i \in 1 .. Len(tokens)
    BY <1>5 DEF Refresh, MayRefresh, LiveToken, Logout
  <2>2. tokens[i] \in TokenRow
    BY <1>0, <2>1, ElementOfSeq
  <2>3. tokens[i].email \in Email /\ i \in 0 .. MaxTokens
    BY <2>2, Limits DEF TokenRow
  <2>4. [Idle EXCEPT !.pc = "leaving", !.token = i] \in RequestState
    BY <1>1, <2>3 DEF RequestState
  <2>5. [Idle EXCEPT !.pc = "rotating", !.email = tokens[i].email, !.token = i]
            \in RequestState
    BY <1>1, <2>3 DEF RequestState
  <2> QED
    BY <1>0, <1>5, <2>4, <2>5 DEF Refresh, MayRefresh, LiveToken, Logout
<1>6. ASSUME NEW r \in Request, NEW e \in Email, Deactivate(r, e)
      PROVE  req' \in [Request -> RequestState]
  <2>1. users[e] \in UserRow
    BY <1>0, <1>6 DEF Deactivate, Exists
  <2>2. users[e].active \in BOOLEAN
    BY <2>1 DEF UserRow
  <2> QED
    BY <1>0, <1>1, <1>6, <2>2 DEF Deactivate, Idle, RequestState
<1>7. ASSUME NEW r \in Request, FindSessions(r)
      PROVE  req' \in [Request -> RequestState]
  <2> DEFINE q == req[r]
             pc == IF q.pc = "changing" THEN "changed" ELSE "closed"
             found == Sessions(q.email)
  <2>1. q \in RequestState
    BY <1>0
  <2>2. found \in SUBSET Nat
    BY DEF Sessions
  <2>3. pc \in {"changed", "closed"}
    OBVIOUS
  <2>4. req' = [req EXCEPT ![r] = [q EXCEPT !.pc = pc, !.found = found]]
    BY <1>7 DEF FindSessions
  <2> HIDE DEF q, pc, found
  <2>5. [q EXCEPT !.pc = pc, !.found = found] \in RequestState
    BY <2>1, <2>2, <2>3 DEF RequestState
  <2> QED
    BY <1>0, <2>4, <2>5
<1>8. ASSUME NEW r \in Request, Return(r)
      PROVE  req' \in [Request -> RequestState]
  BY <1>0, <1>1, <1>8 DEF Return
<1>9. CASE UNCHANGED req
  BY <1>0, <1>9
<1> QED
  BY <1>2, <1>3, <1>4, <1>5, <1>6, <1>7, <1>8, <1>9
  DEF Next, vars, Start, GoOn, CommitRegistration, VerifyUniversity, FailLogin,
      SucceedLogin, Rotate, Leave, CommitPassword, CommitClosing, Fail, Tick

\* Rows, tokens and requests hold values of their domains.
LEMMA TypesArePreserved ==
    ASSUME AccountTypeOK, RequestsAreBacked, [Next]_vars
    PROVE  AccountTypeOK'
<1>0. /\ users \in [Email -> UserRow \union {Null}]
      /\ profiles \in [Email -> ProfileRow \union {Null}]
      /\ verified \subseteq University /\ now \in 0 .. MaxTime
  BY DEF AccountTypeOK
<1>1. /\ users' = [e \in Email |-> users'[e]]
      /\ profiles' = [e \in Email |-> profiles'[e]]
  <2>1. ASSUME NEW r \in Request, CommitRegistration(r) PROVE <1>1!:
    BY <1>0, <2>1 DEF CommitRegistration
  <2>2. ASSUME NEW r \in Request, FailLogin(r) PROVE <1>1!:
    BY <1>0, <2>2 DEF FailLogin
  <2>3. ASSUME NEW r \in Request, SucceedLogin(r) PROVE <1>1!:
    BY <1>0, <2>3 DEF SucceedLogin
  <2>4. ASSUME NEW r \in Request, CommitPassword(r) PROVE <1>1!:
    BY <1>0, <2>4 DEF CommitPassword
  <2>5. ASSUME NEW r \in Request, CommitClosing(r) PROVE <1>1!:
    BY <1>0, <2>5 DEF CommitClosing
  <2>6. CASE UNCHANGED <<users, profiles>>
    BY <1>0, <2>6
  <2> QED
    BY <2>1, <2>2, <2>3, <2>4, <2>5, <2>6
    DEF Next, vars, Start, GoOn, Register, VerifyUniversity, Login, Refresh, Rotate,
        Logout, Leave, ChangePassword, Deactivate, FindSessions, Fail, Tick
<1>2. /\ users' \in [Email -> UserRow \union {Null}]
      /\ profiles' \in [Email -> ProfileRow \union {Null}]
  BY <1>1, RowsStayRows
<1>3. verified' \subseteq University /\ now' \in 0 .. MaxTime
  <2>1. CASE Tick
    BY <1>0, <2>1, Limits DEF Tick
  <2>2. ASSUME NEW u \in University, VerifyUniversity(u)
        PROVE  verified' \subseteq University /\ now' \in 0 .. MaxTime
    BY <1>0, <2>2 DEF VerifyUniversity
  <2>3. CASE UNCHANGED <<verified, now>>
    BY <1>0, <2>3
  <2> QED
    BY <2>1, <2>2, <2>3
    DEF Next, vars, Start, GoOn, Register, CommitRegistration, Login, FailLogin,
        SucceedLogin, Refresh, Rotate, Logout, Leave, ChangePassword, Deactivate,
        FindSessions, CommitPassword, CommitClosing, Fail
<1> QED
  BY <1>2, <1>3, TokensStayTokens, RequestsStayRequests DEF AccountTypeOK

\* What a request relies on others do not take away, and what it relies on
\* after a step of its own was read by that step.
LEMMA BackingIsPreserved ==
    ASSUME AccountTypeOK, RequestsAreBacked, [Next]_vars
    PROVE  RequestsAreBacked'
<1>0. /\ req \in [Request -> RequestState]
      /\ tokens \in Seq(TokenRow) /\ Len(tokens) \in Nat /\ Len(tokens') \in Nat
      /\ Len(tokens') >= Len(tokens)
  BY TokensStayTokens, LenProperties DEF AccountTypeOK
<1>1. verified \subseteq verified'
  BY DEF Next, vars, Start, GoOn, Register, CommitRegistration, VerifyUniversity,
     Login, FailLogin, SucceedLogin, Refresh, Rotate, Logout, Leave, ChangePassword,
     Deactivate, FindSessions, CommitPassword, CommitClosing, Fail, Tick
<1>2. \A e \in Email : Exists(e) => Exists(e)'
  BY RowsStayRows
<1>3. SUFFICES ASSUME NEW r \in Request PROVE RequestIsBacked(r)'
  BY DEF RequestsAreBacked
<1>4. CASE req'[r] = req[r]
  <2>1. RequestIsBacked(r)
    BY DEF RequestsAreBacked
  <2>2. 1 .. Len(tokens) \subseteq 1 .. Len(tokens')
    BY <1>0
  <2>3. \A role, u : MayRegister(role, u) => MayRegister(role, u)'
    BY <1>1 DEF MayRegister
  <2> QED
    BY <1>2, <1>4, <2>1, <2>2, <2>3 DEF RequestIsBacked, MayRegister, Exists
<1>5. CASE req'[r].pc = "idle"
  BY <1>5 DEF RequestIsBacked
<1>6. ASSUME NEW e \in Email, NEW role \in Role, NEW u \in University \union {Null},
             NEW p \in Password, Register(r, e, role, u, p)
      PROVE  RequestIsBacked(r)'
  BY <1>0, <1>6 DEF Register, Idle, RequestIsBacked, MayRegister
<1>7. ASSUME NEW e \in Email, NEW p \in Password, Login(r, e, p)
      PROVE  RequestIsBacked(r)'
  BY <1>0, <1>7 DEF Login, Idle, RequestIsBacked, Exists
<1>8. ASSUME NEW e \in Email, NEW old \in Password, NEW new \in Password,
             ChangePassword(r, e, old, new)
      PROVE  RequestIsBacked(r)'
  BY <1>0, <1>8 DEF ChangePassword, Idle, RequestIsBacked, Exists
<1>9. ASSUME NEW i \in 1 .. MaxTokens, Refresh(r, i) \/ Logout(r, i)
      PROVE  RequestIsBacked(r)'
  <2>1. i \in 1 .. Len(tokens) /\ tokens' = tokens
    BY <1>9 DEF Refresh, MayRefresh, LiveToken, Logout
  <2>2. tokens[i].email \in Email
    <3>1. tokens[i] \in TokenRow
      BY <1>0, <2>1, ElementOfSeq
    <3> QED
      BY <3>1 DEF TokenRow
  <2>3. CASE Refresh(r, i)
    BY <1>0, <2>1, <2>2, <2>3 DEF Refresh, MayRefresh, LiveToken, Idle, RequestIsBacked
  <2>4. CASE Logout(r, i)
    BY <1>0, <2>1, <2>4 DEF Logout, Idle, RequestIsBacked
  <2> QED
    BY <1>9, <2>3, <2>4
<1>10. ASSUME NEW q \in Request, Start(q) \/ GoOn(q), q # r
       PROVE  req'[r] = req[r]
  BY <1>0, <1>10 DEF Start, GoOn, Register, CommitRegistration, Login, FailLogin,
     SucceedLogin, Refresh, Rotate, Logout, Leave, ChangePassword, Deactivate,
     FindSessions, CommitPassword, CommitClosing, Fail, Return
<1>11. CASE GoOn(r) /\ ~ FindSessions(r)
  <2>1. Return(r)
    BY <1>11 DEF GoOn, CommitRegistration, FailLogin, SucceedLogin, Rotate, Leave,
       CommitPassword, CommitClosing, Fail
  <2> QED
    BY <1>0, <1>5, <2>1 DEF Return, Idle
<1>12. CASE UNCHANGED req
  BY <1>4, <1>12
<1>13. ASSUME NEW e \in Email, Deactivate(r, e)
       PROVE  RequestIsBacked(r)'
  BY <1>0, <1>13 DEF Deactivate, Idle, RequestIsBacked, Exists
<1>14. CASE FindSessions(r)
  <2>1. /\ req[r].pc \in {"changing", "closing"} /\ req[r] \in RequestState
        /\ users' = users
        /\ req' = [req EXCEPT
              ![r] = [req[r] EXCEPT
                        !.pc = IF req[r].pc = "changing" THEN "changed" ELSE "closed",
                        !.found = Sessions(req[r].email)]]
    BY <1>0, <1>14 DEF FindSessions
  <2>2. /\ req'[r].pc = IF req[r].pc = "changing" THEN "changed" ELSE "closed"
        /\ req'[r].email = req[r].email /\ req'[r].password = req[r].password
    BY <1>0, <2>1 DEF RequestState
  <2>3. /\ req[r].email \in Email /\ Exists(req[r].email)
        /\ req[r].pc = "changing" => req[r].password \in Password
    BY <2>1 DEF RequestsAreBacked, RequestIsBacked
  <2> QED
    BY <2>1, <2>2, <2>3 DEF RequestIsBacked, Exists
<1> QED
  BY <1>4, <1>6, <1>7, <1>8, <1>9, <1>10, <1>11, <1>12, <1>13, <1>14
  DEF Next, vars, Start, VerifyUniversity, Tick

\* Roles stay backed: a row is written with its profile and a university that is
\* verified, and no later statement touches them.
LEMMA RolesStayBacked ==
    ASSUME AccountInv, [Next]_vars
    PROVE  RolesAreBacked'
<1>0. AccountTypeOK /\ RequestsAreBacked /\ RolesAreBacked
  BY DEF AccountInv
<1>1. verified \subseteq verified'
  BY ZenonT(30) DEF Next, vars, Start, GoOn, Register, CommitRegistration, VerifyUniversity,
     Login, FailLogin, SucceedLogin, Refresh, Rotate, Logout, Leave, ChangePassword,
     Deactivate, FindSessions, CommitPassword, CommitClosing, Fail, Tick
<1>2. SUFFICES ASSUME NEW e \in Email, Exists(e)'
               PROVE  /\ users'[e].role = "UNIVERSITY_ADMIN" =>
                            users'[e].university \in verified' /\ profiles'[e] = Null
                      /\ users'[e].role # "UNIVERSITY_ADMIN" =>
                            users'[e].university = Null /\ profiles'[e] = users'[e].role
  BY DEF RolesAreBacked
<1>3. CASE Registered(e)
  BY <1>1, <1>3 DEF Registered, MayRegister, Role, ProfileRow
<1>4. CASE /\ Exists(e) /\ profiles'[e] = profiles[e]
           /\ users'[e].role = users[e].role
           /\ users'[e].university = users[e].university
  BY <1>0, <1>1, <1>4 DEF RolesAreBacked
<1>5. CASE Counted(e) \/ LoggedIn(e) \/ Edited(e)
  <2>1. Exists(e) /\ users[e] \in UserRow
    BY <1>0, <1>5 DEF Counted, LoggedIn, Edited, AccountTypeOK, Exists
  <2> QED
    BY <1>4, <1>5, <2>1 DEF Counted, LoggedIn, Edited, UserRow
<1>6. CASE Kept(e)
  BY <1>2, <1>4, <1>6 DEF Kept, Exists
<1> QED
  BY <1>0, <1>3, <1>5, <1>6, AccountSteps

\* A row that has failures enough has been locked, and for no longer than a lock
\* that is set now.
LEMMA LocksStayInPlace ==
    ASSUME AccountInv, [Next]_vars
    PROVE  LockFollowsFailures' /\ LocksAreInReach'
<1>0. AccountTypeOK /\ RequestsAreBacked /\ LockFollowsFailures /\ LocksAreInReach
  BY DEF AccountInv
<1>1. now' \in Nat /\ now \in Nat /\ now' >= now
  <2>1. now \in Nat
    BY <1>0, Limits DEF AccountTypeOK
  <2>2. now' = now \/ now' = now + 1
    BY ZenonT(30) DEF Next, vars, Start, GoOn, Register, CommitRegistration, VerifyUniversity,
       Login, FailLogin, SucceedLogin, Refresh, Rotate, Logout, Leave, ChangePassword,
       Deactivate, FindSessions, CommitPassword, CommitClosing, Fail, Tick
  <2> QED
    BY <2>1, <2>2
<1>2. SUFFICES ASSUME NEW e \in Email, Exists(e)'
               PROVE  /\ users'[e].failed >= MaxFailed => users'[e].lockedUntil > 0
                      /\ users'[e].lockedUntil <= now' + LockFor
  BY DEF LockFollowsFailures, LocksAreInReach
<1>3. CASE Registered(e)
  <2>1. users'[e].failed = 0 /\ users'[e].lockedUntil = 0
    BY <1>3 DEF Registered
  <2>2. 0 < MaxFailed
    BY Limits
  <2>3. 0 <= now' + LockFor
    <3>1. \A a, b \in Nat : 0 <= a + b
      OBVIOUS
    <3> QED
      BY <3>1, <1>1, Limits
  <2>4. ~ (0 >= MaxFailed)
    BY <2>2, Limits
  <2> QED
    BY <2>1, <2>3, <2>4
<1>4. ASSUME Exists(e)
      PROVE  /\ users[e] \in UserRow
             /\ users[e].failed \in Nat /\ users[e].lockedUntil \in Nat
             /\ users[e].failed >= MaxFailed => users[e].lockedUntil > 0
             /\ users[e].lockedUntil <= now + LockFor
  BY <1>0, <1>4, Limits, SMTT(30)
  DEF AccountTypeOK, UserRow, Exists, LockFollowsFailures, LocksAreInReach
<1>5. CASE Counted(e)
  <2>1. /\ users'[e].failed = users[e].failed + 1
        /\ users'[e].lockedUntil = IF users[e].failed + 1 >= MaxFailed THEN now + LockFor
                                   ELSE users[e].lockedUntil
    BY <1>4, <1>5 DEF Counted, UserRow
  <2> QED
    BY <1>1, <1>4, <1>5, <2>1, Limits DEF Counted
<1>6. CASE LoggedIn(e)
  <2>1. users'[e].failed = 0 /\ users'[e].lockedUntil = users[e].lockedUntil
    BY <1>4, <1>6 DEF LoggedIn, UserRow
  <2> QED
    BY <1>1, <1>4, <1>6, <2>1, Limits, SMTT(30) DEF LoggedIn
<1>7. CASE Edited(e)
  <2>1. /\ users'[e].failed = users[e].failed
        /\ users'[e].lockedUntil = users[e].lockedUntil
    BY <1>4, <1>7 DEF Edited, UserRow
  <2> QED
    BY <1>1, <1>4, <1>7, <2>1, Limits DEF Edited
<1>8. CASE Kept(e)
  BY <1>1, <1>2, <1>4, <1>8, Limits DEF Kept, Exists
<1> QED
  BY <1>0, <1>3, <1>5, <1>6, <1>7, <1>8, AccountSteps

\* The inductive invariant holds in every behaviour.
THEOREM AccountInvariant == Spec => []AccountInv
<1>1. AccountInv /\ [Next]_vars => AccountInv'
  BY TypesArePreserved, BackingIsPreserved, RolesStayBacked, LocksStayInPlace
  DEF AccountInv
<1> QED
  BY InitImpliesAccountInv, <1>1, PTL DEF Spec

-----------------------------------------------------------------------------
(* What it means for the accounts.                                         *)

\* Rows, tokens and requests in progress keep values of their domains.
THEOREM AccountTypes == Spec => []AccountTypeOK
BY AccountInvariant, PTL DEF AccountInv

\* Students and employers have their profile, administrators a university that
\* is verified, however registrations of the same address interleave.
THEOREM RolesAreAlwaysBacked == Spec => []RolesAreBacked
BY AccountInvariant, PTL DEF AccountInv

\* However many logins fail at the same time, the limit locks the account.
THEOREM FailuresLock == Spec => []LockFollowsFailures
BY AccountInvariant, PTL DEF AccountInv

\* No failure is lost: only a login that succeeds, which opens a session for the
\* same account, makes the counter smaller.
THEOREM FailuresAreNeverLost == Spec => FailuresAreKept
<1>1. ASSUME AccountInv, [Next]_vars, NEW e \in Email, Exists(e),
             users'[e].failed < users[e].failed
      PROVE  Len(tokens') = Len(tokens) + 1 /\ tokens'[Len(tokens')].email = e
  <2>1. /\ AccountTypeOK /\ RequestsAreBacked
        /\ users[e] \in UserRow /\ users[e].failed \in Nat
        /\ tokens \in Seq(TokenRow) /\ Len(tokens) \in Nat
    BY <1>1, Limits, LenProperties, SMTT(30) DEF AccountInv, AccountTypeOK, UserRow, Exists
  <2>2. CASE LoggedIn(e)
    <3>1. tokens' = Append(tokens, NewToken(e)) /\ NewToken(e).email = e
      BY <2>2 DEF LoggedIn, NewToken
    <3>2. Len(tokens') = Len(tokens) + 1 /\ tokens'[Len(tokens) + 1] = NewToken(e)
      BY <2>1, <3>1
    <3> QED
      BY <3>1, <3>2
  <2>3. ~ Registered(e)
    BY <1>1 DEF Registered
  <2>4. ~ Counted(e)
    <3>1. Counted(e) => users'[e].failed = users[e].failed + 1
      BY <2>1 DEF Counted, UserRow
    <3> QED
      BY <1>1, <2>1, <3>1
  <2>5. ~ Edited(e) /\ ~ Kept(e)
    <3>1. Edited(e) \/ Kept(e) => users'[e].failed = users[e].failed
      BY <2>1 DEF Edited, Kept, UserRow
    <3> QED
      BY <1>1, <2>1, <3>1
  <2> QED
    BY <1>1, <2>1, <2>2, <2>3, <2>4, <2>5, AccountSteps
<1>2. AccountInv /\ [Next]_vars =>
        \A e \in Email :
          /\ Exists(e)
          /\ users'[e].failed < users[e].failed
          => /\ Len(tokens') = Len(tokens) + 1
             /\ tokens'[Len(tokens')].email = e
  BY <1>1
<1> QED
  BY AccountInvariant, <1>2, PTL DEF Spec, FailuresAreKept

\* No login that was under way, and no failure that is counted late, shortens a
\* lock.
THEOREM LocksAreNotShortened == Spec => LockIsNotShortened
<1>1. ASSUME AccountInv, [Next]_vars, NEW e \in Email, Exists(e)
      PROVE  users'[e].lockedUntil >= users[e].lockedUntil
  <2>1. /\ AccountTypeOK /\ RequestsAreBacked
        /\ users[e] \in UserRow /\ users[e].lockedUntil \in Nat /\ now \in Nat
        /\ users[e].lockedUntil <= now + LockFor
    BY <1>1, Limits, SMTT(30) DEF AccountInv, AccountTypeOK, UserRow, Exists, LocksAreInReach
  <2>2. ~ Registered(e)
    BY <1>1 DEF Registered
  <2>3. Counted(e) => users'[e].lockedUntil >= users[e].lockedUntil
    <3>1. Counted(e) =>
             users'[e].lockedUntil = IF users[e].failed + 1 >= MaxFailed THEN now + LockFor
                                     ELSE users[e].lockedUntil
      BY <2>1 DEF Counted, UserRow
    <3> QED
      BY <2>1, <3>1, Limits
  <2>4. LoggedIn(e) \/ Edited(e) \/ Kept(e) =>
           users'[e].lockedUntil = users[e].lockedUntil
    BY <2>1 DEF LoggedIn, Edited, Kept, UserRow
  <2> QED
    BY <1>1, <2>1, <2>2, <2>3, <2>4, AccountSteps
<1>2. AccountInv /\ [Next]_vars =>
        \A e \in Email : Exists(e) => users'[e].lockedUntil >= users[e].lockedUntil
  BY <1>1
<1> QED
  BY AccountInvariant, <1>2, PTL DEF Spec, LockIsNotShortened

-----------------------------------------------------------------------------
(* Closed accounts.                                                        *)

\* What a step may do to the sessions of a closed account: none opens, or a
\* request that was on the way opens its one.
SessionsOnlyEnd(e) ==
    Sessions(e)' \subseteq Sessions(e) /\ OpeningSession(e)' \subseteq OpeningSession(e)

SessionOpens(e, r) ==
    /\ r \in OpeningSession(e)
    /\ Sessions(e)' \subseteq Sessions(e) \union {Len(tokens) + 1}
    /\ OpeningSession(e)' \subseteq OpeningSession(e) \ {r}

\* A token that is marked is not opened by that.
LEMMA MarkingOpensNothing ==
    ASSUME AccountTypeOK, NEW e, NEW i \in 1 .. Len(tokens), NEW n \in 0 .. MaxTokens,
           NEW s, s = [tokens EXCEPT ![i] = Revoked(@, n)]
    PROVE  /\ s \in Seq(TokenRow) /\ Len(s) = Len(tokens)
           /\ \A j \in 1 .. Len(tokens) :
                 s[j].email = e /\ ~ s[j].revoked => j \in Sessions(e)
<1>0. tokens \in Seq(TokenRow) /\ Len(tokens) \in Nat
  BY LenProperties DEF AccountTypeOK
<1>1. Revoked(tokens[i], n) \in TokenRow /\ Revoked(tokens[i], n).revoked = TRUE
  <2>1. tokens[i] \in TokenRow
    BY <1>0, ElementOfSeq
  <2> QED
    BY <2>1 DEF Revoked, TokenRow
<1>2. s \in Seq(TokenRow) /\ Len(s) = Len(tokens)
  BY <1>0, <1>1, ExceptSeq
<1>3. \A j \in 1 .. Len(tokens) : s[j] = IF j = i THEN Revoked(tokens[i], n) ELSE tokens[j]
  BY <1>0, <1>1, ExceptSeq
<1> QED
  BY <1>1, <1>2, <1>3 DEF Sessions

\* A token that is appended is one session more at most.
LEMMA AppendingOpensOne ==
    ASSUME AccountTypeOK, NEW e \in Email, NEW d \in Email, NEW s \in Seq(TokenRow),
           Len(s) = Len(tokens),
           \A j \in 1 .. Len(tokens) : s[j].email = e /\ ~ s[j].revoked => j \in Sessions(e),
           tokens' = Append(s, NewToken(d))
    PROVE  /\ Sessions(e)' \subseteq Sessions(e) \union {Len(tokens) + 1}
           /\ d # e => Sessions(e)' \subseteq Sessions(e)
<1>1. Len(tokens) \in Nat /\ NewToken(d) \in TokenRow /\ NewToken(d).email = d
  BY NewTokenIsARow, LenProperties DEF NewToken, AccountTypeOK
<1>2. /\ Len(tokens') = Len(tokens) + 1
      /\ \A j \in 1 .. Len(tokens) : tokens'[j] = s[j]
      /\ tokens'[Len(tokens) + 1] = NewToken(d)
  BY <1>1, AppendProperties
<1> HIDE DEF NewToken
<1>3. \A j \in 1 .. Len(tokens') : j \in 1 .. Len(tokens) \/ j = Len(tokens) + 1
  BY <1>1, <1>2
<1> QED
  BY <1>1, <1>2, <1>3 DEF Sessions

\* Nothing begins to open a session of a closed account.
LEMMA ClosedAccountsStep ==
    ASSUME AccountInv, [Next]_vars, NEW e \in Email, Closed(e)
    PROVE  SessionsOnlyEnd(e) \/ \E r \in Request : SessionOpens(e, r)
<1>0. /\ AccountTypeOK /\ RequestsAreBacked
      /\ req \in [Request -> RequestState]
      /\ tokens \in Seq(TokenRow) /\ Len(tokens) \in Nat
      /\ \A i \in 1 .. Len(tokens) : tokens[i] \in TokenRow
  BY LenProperties, ElementOfSeq DEF AccountInv, AccountTypeOK
<1>1. ASSUME NEW r \in Request, Return(r)
      PROVE  OpeningSession(e)' \subseteq OpeningSession(e) \ {r}
  <2>1. req'[r].pc = "idle" /\ \A s \in Request : s # r => req'[s] = req[s]
    BY <1>0, <1>1 DEF Return, Idle
  <2> QED
    BY <2>1 DEF OpeningSession
<1>2. UNCHANGED tokens => Sessions(e)' \subseteq Sessions(e)
  BY DEF Sessions
<1>3. UNCHANGED req => OpeningSession(e)' \subseteq OpeningSession(e)
  BY DEF OpeningSession
<1>4. ASSUME NEW r \in Request, Start(r)
      PROVE  SessionsOnlyEnd(e)
  <2>1. UNCHANGED tokens
    BY <1>4 DEF Start, Register, Login, ChangePassword, Deactivate, Refresh, Logout
  <2>2. \A s \in Request : s # r => req'[s] = req[s]
    BY <1>0, <1>4 DEF Start, Register, Login, ChangePassword, Deactivate, Refresh, Logout
  <2>3. r \notin OpeningSession(e)'
    <3>1. ASSUME NEW d \in Email, NEW p \in Password, Login(r, d, p)
          PROVE  r \notin OpeningSession(e)'
      <4>1. req'[r].email = d /\ req'[r].active = users[d].active
            /\ req'[r].pc \in {"wrong", "verified"}
        BY <1>0, <3>1 DEF Login, Idle
      <4> QED
        BY <4>1 DEF OpeningSession, Closed
    <3>2. ASSUME NEW i \in 1 .. MaxTokens, Refresh(r, i)
          PROVE  r \notin OpeningSession(e)'
      <4>1. req'[r].email = tokens[i].email /\ users[tokens[i].email].active
        BY <1>0, <3>2 DEF Refresh, MayRefresh, Idle
      <4> QED
        BY <4>1 DEF OpeningSession, Closed
    <3>3. ASSUME NEW d \in Email, NEW role \in Role, NEW u \in University \union {Null},
                 NEW p \in Password, Register(r, d, role, u, p)
          PROVE  req'[r].pc = "registering"
      BY <1>0, <3>3 DEF Register, Idle
    <3>4. ASSUME NEW d \in Email, NEW old \in Password, NEW new \in Password,
                 ChangePassword(r, d, old, new)
          PROVE  req'[r].pc = "changing"
      BY <1>0, <3>4 DEF ChangePassword, Idle
    <3>5. ASSUME NEW i \in 1 .. MaxTokens, Logout(r, i)
          PROVE  req'[r].pc = "leaving"
      BY <1>0, <3>5 DEF Logout, Idle
    <3>6. ASSUME NEW d \in Email, Deactivate(r, d)
          PROVE  req'[r].pc = "closing"
      BY <1>0, <3>6 DEF Deactivate, Idle
    <3>7. req'[r].pc \in {"registering", "changing", "leaving", "closing"} =>
             r \notin OpeningSession(e)'
      BY DEF OpeningSession
    <3> QED
      BY <1>4, <3>1, <3>2, <3>3, <3>4, <3>5, <3>6, <3>7 DEF Start
  <2>4. OpeningSession(e)' \subseteq OpeningSession(e)
    BY <2>2, <2>3 DEF OpeningSession
  <2> QED
    BY <1>2, <2>1, <2>4 DEF SessionsOnlyEnd
<1>5. ASSUME NEW r \in Request,
             CommitRegistration(r) \/ FailLogin(r) \/ Fail(r)
      PROVE  SessionsOnlyEnd(e)
  <2>1. UNCHANGED tokens /\ Return(r)
    BY <1>5 DEF CommitRegistration, FailLogin, Fail
  <2> QED
    BY <1>1, <1>2, <2>1 DEF SessionsOnlyEnd
<1>6. ASSUME NEW r \in Request, SucceedLogin(r)
      PROVE  SessionsOnlyEnd(e) \/ SessionOpens(e, r)
  <2>1. /\ req[r].pc = "verified" /\ req[r].active /\ Return(r)
        /\ tokens' = Append(tokens, NewToken(req[r].email))
        /\ req[r].email \in Email
    BY <1>0, <1>6 DEF SucceedLogin, RequestsAreBacked, RequestIsBacked
  <2>2. /\ Sessions(e)' \subseteq Sessions(e) \union {Len(tokens) + 1}
        /\ req[r].email # e => Sessions(e)' \subseteq Sessions(e)
    <3>1. \A j \in 1 .. Len(tokens) :
             tokens[j].email = e /\ ~ tokens[j].revoked => j \in Sessions(e)
      BY DEF Sessions
    <3> QED
      BY <1>0, <2>1, <3>1, AppendingOpensOne
  <2>3. req[r].email = e => r \in OpeningSession(e)
    BY <2>1 DEF OpeningSession
  <2> QED
    BY <1>1, <2>1, <2>2, <2>3 DEF SessionsOnlyEnd, SessionOpens
<1>7. ASSUME NEW r \in Request, Rotate(r)
      PROVE  SessionsOnlyEnd(e) \/ SessionOpens(e, r)
  <2> DEFINE s == [tokens EXCEPT ![req[r].token] = Revoked(@, Len(tokens) + 1)]
  <2>1. /\ req[r].pc = "rotating" /\ Return(r) /\ Len(tokens) < MaxTokens
        /\ tokens' = Append(s, NewToken(req[r].email))
        /\ req[r].email \in Email /\ req[r].token \in 1 .. Len(tokens)
    BY <1>0, <1>7 DEF Rotate, RequestsAreBacked, RequestIsBacked
  <2>2. Len(tokens) + 1 \in 0 .. MaxTokens
    BY <1>0, <2>1, Limits
  <2>3. /\ s \in Seq(TokenRow) /\ Len(s) = Len(tokens)
        /\ \A j \in 1 .. Len(tokens) :
              s[j].email = e /\ ~ s[j].revoked => j \in Sessions(e)
    BY <1>0, <2>1, <2>2, MarkingOpensNothing
  <2> HIDE DEF s
  <2>4. /\ Sessions(e)' \subseteq Sessions(e) \union {Len(tokens) + 1}
        /\ req[r].email # e => Sessions(e)' \subseteq Sessions(e)
    BY <1>0, <2>1, <2>3, AppendingOpensOne
  <2>5. req[r].email = e => r \in OpeningSession(e)
    BY <2>1 DEF OpeningSession
  <2> QED
    BY <1>1, <2>1, <2>4, <2>5 DEF SessionsOnlyEnd, SessionOpens
<1>8. ASSUME NEW r \in Request, Leave(r)
      PROVE  SessionsOnlyEnd(e)
  <2>1. /\ req[r].token \in 1 .. Len(tokens) /\ 0 \in 0 .. MaxTokens /\ Return(r)
        /\ tokens' = [tokens EXCEPT ![req[r].token] = Revoked(@, 0)]
    BY <1>0, <1>8, Limits DEF Leave, RequestsAreBacked, RequestIsBacked
  <2>2. /\ Len(tokens') = Len(tokens)
        /\ \A j \in 1 .. Len(tokens) :
              tokens'[j].email = e /\ ~ tokens'[j].revoked => j \in Sessions(e)
    BY <1>0, <2>1, MarkingOpensNothing
  <2> QED
    BY <1>1, <2>1, <2>2 DEF SessionsOnlyEnd, Sessions
<1>9. ASSUME NEW found, RevokeFound(found)
      PROVE  Sessions(e)' \subseteq Sessions(e)
  <2>1. Len(tokens') = Len(tokens)
    BY <1>0, <1>9 DEF RevokeFound
  <2>2. \A j \in 1 .. Len(tokens) :
           tokens'[j].email = e /\ ~ tokens'[j].revoked =>
              tokens[j].email = e /\ ~ tokens[j].revoked
    BY <1>0, <1>9 DEF RevokeFound, TokenRow
  <2> QED
    BY <2>1, <2>2 DEF Sessions
<1>10. ASSUME NEW r \in Request, CommitPassword(r) \/ CommitClosing(r)
       PROVE  SessionsOnlyEnd(e)
  <2>1. RevokeFound(req[r].found) /\ Return(r)
    BY <1>10 DEF CommitPassword, CommitClosing
  <2> QED
    BY <1>1, <1>9, <2>1 DEF SessionsOnlyEnd
<1>11. ASSUME NEW r \in Request, FindSessions(r)
       PROVE  SessionsOnlyEnd(e)
  <2>1. /\ req'[r].pc \in {"changed", "closed"} /\ UNCHANGED tokens
        /\ \A s \in Request : s # r => req'[s] = req[s]
    BY <1>0, <1>11 DEF FindSessions, RequestState
  <2>2. OpeningSession(e)' \subseteq OpeningSession(e)
    BY <2>1 DEF OpeningSession
  <2> QED
    BY <1>2, <2>1, <2>2 DEF SessionsOnlyEnd
<1>12. CASE UNCHANGED <<tokens, req>>
  BY <1>2, <1>3, <1>12 DEF SessionsOnlyEnd
<1> QED
  BY <1>4, <1>5, <1>6, <1>7, <1>8, <1>10, <1>11, <1>12
  DEF Next, vars, GoOn, VerifyUniversity, Tick

\* The sessions of an account are finitely many, and so are those that are opening.
LEMMA SessionsAreFinite ==
    ASSUME AccountTypeOK, NEW e \in Email
    PROVE  /\ IsFiniteSet(Sessions(e)) /\ Cardinality(Sessions(e)) \in Nat
           /\ IsFiniteSet(OpeningSession(e)) /\ Cardinality(OpeningSession(e)) \in Nat
<1>1. IsFiniteSet(1 .. Len(tokens))
  BY FS_Interval, LenProperties DEF AccountTypeOK
<1>2. Sessions(e) \subseteq 1 .. Len(tokens) /\ OpeningSession(e) \subseteq Request
  BY DEF Sessions, OpeningSession
<1> QED
  BY <1>1, <1>2, FS_Subset, FS_CardinalityType, AccountAssumption

\* Counting the sessions of a closed account.
LEMMA WitheringStep ==
    ASSUME AccountInv, [Next]_vars, NEW e \in Email, Closed(e)
    PROVE  Cardinality(Sessions(e)') + Cardinality(OpeningSession(e)')
              <= Cardinality(Sessions(e)) + Cardinality(OpeningSession(e))
<1> DEFINE S == Sessions(e)
           O == OpeningSession(e)
           S2 == Sessions(e)'
           O2 == OpeningSession(e)'
<1>1. /\ IsFiniteSet(S) /\ Cardinality(S) \in Nat
      /\ IsFiniteSet(O) /\ Cardinality(O) \in Nat
  BY SessionsAreFinite DEF AccountInv
<1>2. CASE SessionsOnlyEnd(e)
  <2>1. S2 \subseteq S /\ O2 \subseteq O
    BY <1>2 DEF SessionsOnlyEnd
  <2> HIDE DEF S, O, S2, O2
  <2>2. /\ Cardinality(S2) \in Nat /\ Cardinality(S2) <= Cardinality(S)
        /\ Cardinality(O2) \in Nat /\ Cardinality(O2) <= Cardinality(O)
    BY <1>1, <2>1, FS_Subset, FS_CardinalityType
  <2>3. Cardinality(S2) + Cardinality(O2) <= Cardinality(S) + Cardinality(O)
    BY <1>1, <2>2
  <2> QED
    BY <2>3 DEF S, O, S2, O2
<1>3. ASSUME NEW r \in Request, SessionOpens(e, r)
      PROVE  Cardinality(S2) + Cardinality(O2) <= Cardinality(S) + Cardinality(O)
  <2> DEFINE S1 == S \union {Len(tokens) + 1}
             O1 == O \ {r}
  <2>1. r \in O /\ S2 \subseteq S1 /\ O2 \subseteq O1
    BY <1>3 DEF SessionOpens
  <2> HIDE DEF S, O, S2, O2
  <2>2. /\ IsFiniteSet(S1) /\ Cardinality(S1) \in Nat
        /\ Cardinality(S1) <= Cardinality(S) + 1
    <3>1. /\ IsFiniteSet(S1)
          /\ Cardinality(S1) = Cardinality(S) \/ Cardinality(S1) = Cardinality(S) + 1
      BY <1>1, FS_AddElement
    <3> QED
      BY <1>1, <3>1
  <2>3. IsFiniteSet(O1) /\ Cardinality(O1) = Cardinality(O) - 1
    BY <1>1, <2>1, FS_RemoveElement
  <2> HIDE DEF S1, O1
  <2>4. /\ Cardinality(S2) \in Nat /\ Cardinality(S2) <= Cardinality(S1)
        /\ Cardinality(O2) \in Nat /\ Cardinality(O2) <= Cardinality(O1)
    BY <2>1, <2>2, <2>3, FS_Subset, FS_CardinalityType
  <2> QED
    BY <1>1, <2>2, <2>3, <2>4
<1> QED
  BY <1>2, <1>3, ClosedAccountsStep

\* Once the closing of an account has committed, whatever logins, rotations and
\* changes of the password were under way, and however many sessions rotations added
\* behind the bulk revocation, its sessions and those on the way to be opened never
\* grow in number: each that opens ends the request that opens it.
THEOREM ClosedAccountsAlwaysWither == Spec => ClosedAccountsWither
<1>1. AccountInv /\ [Next]_vars =>
        \A e \in Email :
          Closed(e) =>
             Cardinality(Sessions(e)') + Cardinality(OpeningSession(e)')
                <= Cardinality(Sessions(e)) + Cardinality(OpeningSession(e))
  BY WitheringStep
<1> QED
  BY <1>1, AccountInvariant, PTL DEF Spec, ClosedAccountsWither

-----------------------------------------------------------------------------
(* What an account is.                                                     *)

\* An account keeps its role and its university, and is not opened again.
IdentitiesAreKept ==
    [][\A e \in Email :
          Exists(e) =>
             /\ users'[e] # Null
             /\ users'[e].role = users[e].role
             /\ users'[e].university = users[e].university
             /\ ~ users[e].active => ~ users'[e].active]_vars

\* A second registration of an address, a login or a change of the password that
\* was under way when the account was closed does not change who it is nor open it
\* again: the statements name the columns they write (user_repository.py).
THEOREM IdentitiesStay == Spec => IdentitiesAreKept
<1>1. AccountInv /\ [Next]_vars =>
      [\A e \in Email :
          Exists(e) =>
             /\ users'[e] # Null
             /\ users'[e].role = users[e].role
             /\ users'[e].university = users[e].university
             /\ ~ users[e].active => ~ users'[e].active]_vars
  <2> SUFFICES ASSUME AccountInv, [Next]_vars, NEW e \in Email, Exists(e)
               PROVE  /\ users'[e] # Null
                      /\ users'[e].role = users[e].role
                      /\ users'[e].university = users[e].university
                      /\ ~ users[e].active => ~ users'[e].active
    OBVIOUS
  <2>0. users'[e] # Null
    BY RowsStayRows DEF AccountInv, Exists
  <2>1. users[e] \in UserRow
    BY DEF AccountInv, AccountTypeOK, Exists
  <2>2. ~ Registered(e)
    BY DEF Registered
  <2>3. CASE Counted(e)
    <3>1. /\ users'[e].role = users[e].role
          /\ users'[e].university = users[e].university
          /\ users'[e].active = users[e].active
      BY <2>1, <2>3 DEF Counted, UserRow
    <3> QED
      BY <2>0, <3>1
  <2>4. CASE LoggedIn(e) \/ Edited(e)
    <3>1. /\ users'[e].role = users[e].role
          /\ users'[e].university = users[e].university
          /\ users'[e].active = users[e].active \/ users'[e].active = FALSE
      BY <2>1, <2>4 DEF LoggedIn, Edited, UserRow
    <3> QED
      BY <2>0, <3>1
  <2>5. CASE Kept(e)
    BY <2>0, <2>5 DEF Kept
  <2> QED
    BY <2>2, <2>3, <2>4, <2>5, AccountSteps DEF AccountInv
<1> QED
  BY AccountInvariant, <1>1, PTL DEF Spec, IdentitiesAreKept

-----------------------------------------------------------------------------
(* Refresh tokens.                                                         *)

\* A rotation under way carries the account of its token.
RotationsKnowTheirAccount ==
    \A r \in Request :
        req[r].pc = "rotating" => tokens[req[r].token].email = req[r].email

\* A token that was replaced is revoked, and its replacement is a later token of
\* the same account.
ReplacementsAreLinked ==
    \A i \in 1 .. Len(tokens) :
        LET j == tokens[i].replacedBy IN
        j # 0 => /\ tokens[i].revoked
                 /\ j \in (i + 1) .. Len(tokens)
                 /\ tokens[j].email = tokens[i].email

\* The token at place j is kept, revoked, or replaced by the one that is added.
TokenMoves(j) ==
    \/ tokens'[j] = tokens[j]
    \/ tokens'[j] = [tokens[j] EXCEPT !.revoked = TRUE]
    \/ tokens'[j] = Revoked(tokens[j], 0)
    \/ /\ Len(tokens') = Len(tokens) + 1
       /\ tokens'[j] = Revoked(tokens[j], Len(tokens'))
       /\ tokens'[Len(tokens')].email = tokens[j].email

\* These are all the ways in which tokens change.
LEMMA TokenSteps ==
    ASSUME AccountInv, RotationsKnowTheirAccount, [Next]_vars
    PROVE  /\ Len(tokens') = Len(tokens) \/ Len(tokens') = Len(tokens) + 1
           /\ Len(tokens') = Len(tokens) + 1 => tokens'[Len(tokens')].replacedBy = 0
           /\ \A j \in 1 .. Len(tokens) : TokenMoves(j)
<1> DEFINE Goal ==
       /\ Len(tokens') = Len(tokens) \/ Len(tokens') = Len(tokens) + 1
       /\ Len(tokens') = Len(tokens) + 1 => tokens'[Len(tokens')].replacedBy = 0
       /\ \A j \in 1 .. Len(tokens) : TokenMoves(j)
<1>0. /\ AccountTypeOK /\ RequestsAreBacked
      /\ tokens \in Seq(TokenRow) /\ Len(tokens) \in Nat
      /\ \A j \in 1 .. Len(tokens) : tokens[j] \in TokenRow
  BY LenProperties, ElementOfSeq DEF AccountInv, AccountTypeOK
<1>1. ASSUME NEW r \in Request, SucceedLogin(r)
      PROVE  Goal
  <2>1. /\ tokens' = Append(tokens, NewToken(req[r].email))
        /\ NewToken(req[r].email) \in TokenRow
        /\ NewToken(req[r].email).replacedBy = 0
    BY <1>0, <1>1, NewTokenIsARow
    DEF SucceedLogin, RequestsAreBacked, RequestIsBacked, NewToken
  <2> HIDE DEF NewToken
  <2>2. /\ Len(tokens') = Len(tokens) + 1
        /\ tokens'[Len(tokens) + 1] = NewToken(req[r].email)
        /\ \A j \in 1 .. Len(tokens) : tokens'[j] = tokens[j]
    BY <1>0, <2>1, AppendProperties
  <2>3. \A j \in 1 .. Len(tokens) : TokenMoves(j)
    BY <2>2, Zenon DEF TokenMoves
  <2> QED
    BY <1>0, <2>1, <2>2, <2>3
<1>2. ASSUME NEW r \in Request, Rotate(r)
      PROVE  Goal
  <2> DEFINE i == req[r].token
             s == [tokens EXCEPT ![i] = Revoked(@, Len(tokens) + 1)]
  <2>1. /\ i \in 1 .. Len(tokens) /\ req[r].email = tokens[i].email
        /\ Len(tokens) + 1 \in 0 .. MaxTokens
        /\ tokens' = Append(s, NewToken(req[r].email))
    BY <1>0, <1>2, Limits
    DEF Rotate, RequestsAreBacked, RequestIsBacked, RotationsKnowTheirAccount
  <2>2. /\ NewToken(req[r].email) \in TokenRow
        /\ NewToken(req[r].email).replacedBy = 0
        /\ NewToken(req[r].email).email = tokens[i].email
    BY <1>0, <1>2, <2>1, NewTokenIsARow
    DEF Rotate, RequestsAreBacked, RequestIsBacked, NewToken
  <2>3. Revoked(tokens[i], Len(tokens) + 1) \in TokenRow
    <3>1. tokens[i] \in TokenRow
      BY <1>0, <2>1
    <3> QED
      BY <2>1, <3>1 DEF Revoked, TokenRow
  <2>4. /\ s \in Seq(TokenRow) /\ Len(s) = Len(tokens)
        /\ \A j \in 1 .. Len(tokens) :
              s[j] = IF j = i THEN Revoked(tokens[i], Len(tokens) + 1) ELSE tokens[j]
    BY <1>0, <2>1, <2>3, ExceptSeq
  <2> HIDE DEF s, NewToken
  <2>5. /\ Len(tokens') = Len(tokens) + 1
        /\ tokens'[Len(tokens) + 1] = NewToken(req[r].email)
        /\ \A j \in 1 .. Len(tokens) : tokens'[j] = s[j]
    BY <1>0, <2>1, <2>2, <2>4, AppendProperties
  <2>6. ASSUME NEW j \in 1 .. Len(tokens)
        PROVE  TokenMoves(j)
    <3>1. CASE j = i
      <4>1. tokens'[j] = Revoked(tokens[j], Len(tokens'))
        BY <2>4, <2>5, <3>1
      <4>2. tokens'[Len(tokens')].email = tokens[j].email
        BY <2>2, <2>5, <3>1
      <4> QED
        BY <2>5, <4>1, <4>2, Zenon DEF TokenMoves
    <3>2. CASE j # i
      <4>1. tokens'[j] = tokens[j]
        BY <2>4, <2>5, <3>2
      <4> QED
        BY <4>1, Zenon DEF TokenMoves
    <3> QED
      BY <3>1, <3>2
  <2> QED
    BY <2>2, <2>5, <2>6
<1>3. ASSUME NEW r \in Request, Leave(r)
      PROVE  Goal
  <2> DEFINE i == req[r].token
  <2>1. /\ i \in 1 .. Len(tokens)
        /\ tokens' = [tokens EXCEPT ![i] = Revoked(@, 0)]
    BY <1>0, <1>3 DEF Leave, RequestsAreBacked, RequestIsBacked
  <2>2. Revoked(tokens[i], 0) \in TokenRow
    <3>1. tokens[i] \in TokenRow /\ 0 \in 0 .. MaxTokens
      BY <1>0, <2>1, Limits
    <3> QED
      BY <3>1 DEF Revoked, TokenRow
  <2>3. /\ Len(tokens') = Len(tokens)
        /\ \A j \in 1 .. Len(tokens) :
              tokens'[j] = IF j = i THEN Revoked(tokens[i], 0) ELSE tokens[j]
    BY <1>0, <2>1, <2>2, ExceptSeq
  <2>4. \A j \in 1 .. Len(tokens) : TokenMoves(j)
    BY <2>3, Zenon DEF TokenMoves
  <2> QED
    BY <1>0, <2>3, <2>4
<1>4. ASSUME NEW found, RevokeFound(found)
      PROVE  Goal
  <2>1. /\ Len(tokens') = Len(tokens)
        /\ \A j \in 1 .. Len(tokens) :
              tokens'[j] = IF j \in found THEN [tokens[j] EXCEPT !.revoked = TRUE]
                           ELSE tokens[j]
    BY <1>0, <1>4 DEF RevokeFound
  <2>2. \A j \in 1 .. Len(tokens) : TokenMoves(j)
    BY <2>1, Zenon DEF TokenMoves
  <2> QED
    BY <1>0, <2>1, <2>2
<1>5. CASE UNCHANGED tokens
  BY <1>0, <1>5 DEF TokenMoves
<1>6. \/ \E r \in Request : SucceedLogin(r) \/ Rotate(r) \/ Leave(r)
      \/ \E found : RevokeFound(found)
      \/ UNCHANGED tokens
  BY ZenonT(60)
  DEF Next, vars, Start, GoOn, Register, CommitRegistration, VerifyUniversity, Login,
      FailLogin, Refresh, Logout, ChangePassword, Deactivate, FindSessions,
      CommitPassword, CommitClosing, Fail, Tick
<1> QED
  BY <1>1, <1>2, <1>3, <1>4, <1>5, <1>6, Zenon

\* A token belongs to one account for ever, for the same time, and is not revived.
TokensAge ==
    /\ Len(tokens) <= Len(tokens')
    /\ \A j \in 1 .. Len(tokens) :
          /\ tokens'[j].email = tokens[j].email
          /\ tokens'[j].expires = tokens[j].expires
          /\ tokens[j].revoked => tokens'[j].revoked

TokensAgeOnly == [][TokensAge]_vars

LEMMA TokensAgeStep ==
    ASSUME AccountInv, RotationsKnowTheirAccount, [Next]_vars
    PROVE  TokensAge
<1>1. /\ Len(tokens) \in Nat
      /\ \A j \in 1 .. Len(tokens) : tokens[j] \in TokenRow
  BY LenProperties, ElementOfSeq DEF AccountInv, AccountTypeOK
<1>2. /\ Len(tokens') = Len(tokens) \/ Len(tokens') = Len(tokens) + 1
      /\ \A j \in 1 .. Len(tokens) : TokenMoves(j)
  BY TokenSteps
<1>3. ASSUME NEW j \in 1 .. Len(tokens)
      PROVE  /\ tokens'[j].email = tokens[j].email
             /\ tokens'[j].expires = tokens[j].expires
             /\ tokens[j].revoked => tokens'[j].revoked
  <2>1. tokens[j] \in TokenRow
    BY <1>1
  <2>2. CASE tokens'[j] = [tokens[j] EXCEPT !.revoked = TRUE]
    BY <2>1, <2>2 DEF TokenRow
  <2>3. ASSUME NEW n, tokens'[j] = Revoked(tokens[j], n)
        PROVE  /\ tokens'[j].email = tokens[j].email
               /\ tokens'[j].expires = tokens[j].expires
               /\ tokens'[j].revoked
    BY <2>1, <2>3 DEF Revoked, TokenRow
  <2>4. CASE tokens'[j] = tokens[j]
    BY <2>4
  <2>5. TokenMoves(j)
    BY <1>2
  <2> QED
    BY <2>2, <2>3, <2>4, <2>5, Zenon DEF TokenMoves
<1> QED
  BY <1>1, <1>2, <1>3 DEF TokensAge

LEMMA RotationsStep ==
    ASSUME AccountInv, RotationsKnowTheirAccount, [Next]_vars
    PROVE  RotationsKnowTheirAccount'
<1> SUFFICES ASSUME NEW r \in Request, req'[r].pc = "rotating"
             PROVE  tokens'[req'[r].token].email = req'[r].email
  BY DEF RotationsKnowTheirAccount
<1>0. req \in [Request -> RequestState] /\ RequestsAreBacked
  BY DEF AccountInv, AccountTypeOK
<1>1. CASE req'[r] = req[r]
  <2>1. req[r].token \in 1 .. Len(tokens)
    BY <1>0, <1>1 DEF RequestsAreBacked, RequestIsBacked
  <2>2. tokens'[req[r].token].email = tokens[req[r].token].email
    BY <2>1, TokensAgeStep DEF TokensAge
  <2> QED
    BY <1>1, <2>2 DEF RotationsKnowTheirAccount
<1>2. ASSUME NEW s \in Request, Start(s), req'[r] # req[r]
      PROVE  tokens' = tokens /\ \E i \in 1 .. MaxTokens : Refresh(r, i)
  <2>1. tokens' = tokens
    BY <1>2 DEF Start, Register, Login, ChangePassword, Deactivate, Refresh, Logout
  <2>2. s = r
    BY <1>0, <1>2 DEF Start, Register, Login, ChangePassword, Deactivate, Refresh, Logout
  <2>3. ASSUME NEW e \in Email, NEW role \in Role, NEW u \in University \union {Null},
               NEW p \in Password, Register(r, e, role, u, p)
        PROVE  FALSE
    BY <1>0, <2>3 DEF Register, Idle
  <2>4. ASSUME NEW e \in Email, NEW p \in Password, Login(r, e, p)
        PROVE  FALSE
    BY <1>0, <2>4 DEF Login, Idle
  <2>5. ASSUME NEW e \in Email, NEW old \in Password, NEW new \in Password,
               ChangePassword(r, e, old, new)
        PROVE  FALSE
    BY <1>0, <2>5 DEF ChangePassword, Idle
  <2>6. ASSUME NEW i \in 1 .. MaxTokens, Logout(r, i)
        PROVE  FALSE
    BY <1>0, <2>6 DEF Logout, Idle
  <2>7. ASSUME NEW e \in Email, Deactivate(r, e)
        PROVE  FALSE
    BY <1>0, <2>7 DEF Deactivate, Idle
  <2> QED
    BY <1>2, <2>1, <2>2, <2>3, <2>4, <2>5, <2>6, <2>7 DEF Start
<1>3. ASSUME NEW i \in 1 .. MaxTokens, Refresh(r, i)
      PROVE  req'[r].token = i /\ req'[r].email = tokens[i].email
  BY <1>0, <1>3 DEF Refresh, Idle
<1>4. ASSUME NEW s \in Request, Return(s), req'[r] # req[r]
      PROVE  FALSE
  BY <1>0, <1>4 DEF Return, Idle
<1>5. ASSUME NEW s \in Request, FindSessions(s), req'[r] # req[r]
      PROVE  FALSE
  BY <1>0, <1>5 DEF FindSessions, RequestState
<1>6. \/ \E s \in Request : Start(s) \/ Return(s) \/ FindSessions(s)
      \/ UNCHANGED req
  BY DEF Next, vars, GoOn, CommitRegistration, FailLogin, SucceedLogin, Rotate, Leave,
     CommitPassword, CommitClosing, Fail, VerifyUniversity, Tick
<1> QED
  BY <1>1, <1>2, <1>3, <1>4, <1>5, <1>6

LEMMA RotationsKnow == Spec => []RotationsKnowTheirAccount
<1>1. Init => RotationsKnowTheirAccount
  BY DEF Init, Idle, RotationsKnowTheirAccount
<1>2. AccountInv /\ RotationsKnowTheirAccount /\ [Next]_vars => RotationsKnowTheirAccount'
  BY RotationsStep
<1> QED
  BY <1>1, <1>2, AccountInvariant, PTL DEF Spec

\* Tokens are never taken over, prolonged or revived, whatever rotations, logouts,
\* changes of the password and closings of the account run beside each other: what
\* was revoked stays revoked (refresh_token_repository.py, revoke).
THEOREM TokensOnlyAge == Spec => TokensAgeOnly
<1>1. AccountInv /\ RotationsKnowTheirAccount /\ [Next]_vars => [TokensAge]_vars
  BY TokensAgeStep
<1> QED
  BY <1>1, AccountInvariant, RotationsKnow, PTL DEF Spec, TokensAgeOnly

LEMMA ReplacementsStep ==
    ASSUME AccountInv, RotationsKnowTheirAccount, ReplacementsAreLinked, [Next]_vars
    PROVE  ReplacementsAreLinked'
<1> SUFFICES ASSUME NEW i \in 1 .. Len(tokens'), tokens'[i].replacedBy # 0
             PROVE  /\ tokens'[i].revoked
                    /\ tokens'[i].replacedBy \in (i + 1) .. Len(tokens')
                    /\ tokens'[tokens'[i].replacedBy].email = tokens'[i].email
  BY DEF ReplacementsAreLinked
<1>0. /\ Len(tokens) \in Nat
      /\ \A j \in 1 .. Len(tokens) : tokens[j] \in TokenRow
  BY LenProperties, ElementOfSeq DEF AccountInv, AccountTypeOK
<1>1. /\ Len(tokens') = Len(tokens) \/ Len(tokens') = Len(tokens) + 1
      /\ Len(tokens') = Len(tokens) + 1 => tokens'[Len(tokens')].replacedBy = 0
      /\ \A j \in 1 .. Len(tokens) : TokenMoves(j)
  BY TokenSteps
<1>2. i \in 1 .. Len(tokens) /\ tokens[i] \in TokenRow
  BY <1>0, <1>1
<1>3. /\ tokens'[i].email = tokens[i].email
      /\ \A j \in 1 .. Len(tokens) : tokens'[j].email = tokens[j].email
      /\ tokens[i].revoked => tokens'[i].revoked
  <2>1. TokensAge
    BY TokensAgeStep
  <2> QED
    BY <1>2, <2>1, Zenon DEF TokensAge
<1>4. CASE tokens'[i].replacedBy = tokens[i].replacedBy
  <2> DEFINE k == tokens[i].replacedBy
  <2>1. k # 0 /\ tokens'[i].replacedBy = k
    BY <1>4
  <2>2. /\ tokens[i].revoked /\ tokens[k].email = tokens[i].email
        /\ k \in (i + 1) .. Len(tokens)
    BY <1>2, <2>1 DEF ReplacementsAreLinked
  <2> HIDE DEF k
  <2>3. k \in 1 .. Len(tokens) /\ k \in (i + 1) .. Len(tokens')
    BY <1>0, <1>1, <1>2, <2>2
  <2> QED
    BY <1>3, <2>1, <2>2, <2>3
<1>5. CASE /\ Len(tokens') = Len(tokens) + 1
           /\ tokens'[i] = Revoked(tokens[i], Len(tokens'))
           /\ tokens'[Len(tokens')].email = tokens[i].email
  <2>1. tokens'[i].revoked /\ tokens'[i].replacedBy = Len(tokens')
    BY <1>2, <1>5 DEF Revoked, TokenRow
  <2>2. Len(tokens') \in (i + 1) .. Len(tokens')
    BY <1>0, <1>2, <1>5
  <2> QED
    BY <1>3, <1>5, <2>1, <2>2
<1>6. CASE tokens'[i] = Revoked(tokens[i], 0)
  <2>1. tokens'[i].replacedBy = 0
    BY <1>2, <1>6 DEF Revoked, TokenRow
  <2> QED
    BY <2>1
<1>7. CASE tokens'[i] = [tokens[i] EXCEPT !.revoked = TRUE]
  <2>1. tokens'[i].replacedBy = tokens[i].replacedBy
    BY <1>2, <1>7 DEF TokenRow
  <2> QED
    BY <1>4, <2>1
<1> QED
  BY <1>1, <1>2, <1>4, <1>5, <1>6, <1>7 DEF TokenMoves

\* The chain of a session (replaced_by) is well founded and stays with its account:
\* a token that was replaced is revoked, by a later token of the same user, however
\* many requests rotate, revoke or unlink the same token.
THEOREM ReplacementsStayLinked == Spec => []ReplacementsAreLinked
<1>1. Init => ReplacementsAreLinked
  BY DEF Init, ReplacementsAreLinked
<1>2. AccountInv /\ RotationsKnowTheirAccount /\ ReplacementsAreLinked /\ [Next]_vars
         => ReplacementsAreLinked'
  BY ReplacementsStep
<1> QED
  BY <1>1, <1>2, AccountInvariant, RotationsKnow, PTL DEF Spec
=============================================================================
