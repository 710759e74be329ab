-------------------------------- MODULE Accounts --------------------------------
(***************************************************************************)
(* Accounts and their sessions: registration, login with its lockout,      *)
(* rotation of refresh tokens, logout, change of the password and          *)
(* deactivation (services/auth_service.py, services/user_service.py).      *)
(*                                                                         *)
(* Every operation reads in one step and commits in a later one; others    *)
(* commit in between (READ COMMITTED).  Columns are written by UPDATE      *)
(* statements, which see what is committed when they run; where one runs   *)
(* long before its COMMIT (change_password, deactivate_account), it is a   *)
(* step of its own and keeps the row it wrote from other UPDATEs.          *)
(***************************************************************************)
EXTENDS Naturals, Sequences, FiniteSets

CONSTANTS
    Email,        \* addresses somebody may register
    Password,
    University,
    Request,      \* slots for requests in progress
    Null,
    MaxFailed,    \* MAX_FAILED_LOGIN_ATTEMPTS
    LockFor,      \* how long an account is locked
    TokenLife,    \* how long a refresh token lives
    MaxTime,      \* bound: the clock
    MaxTokens,    \* bound: rows of refresh_tokens
    MaxCount      \* bound: failed logins since the last successful one

ASSUME AccountAssumption ==
    /\ Null \notin Email \union Password \union University
    /\ IsFiniteSet(Request)
    /\ MaxFailed \in Nat \ {0}
    /\ {LockFor, TokenLife} \subseteq Nat \ {0}
    /\ {MaxTime, MaxTokens, MaxCount} \subseteq Nat

VARIABLES
    users,      \* rows of users, by address; Null where there is none
    profiles,   \* which profile row an account has
    verified,   \* universities with is_verified
    tokens,     \* rows of refresh_tokens, in the order of their insertion
    now,
    req         \* requests in progress

vars == <<users, profiles, verified, tokens, now, req>>

\* The roles somebody may register with.
Role == {"STUDENT", "EMPLOYER", "UNIVERSITY_ADMIN"}

\* lockedUntil: 0 where locked_until is NULL.
UserRow ==
    [role : Role, university : University \union {Null}, password : Password,
     active : BOOLEAN, failed : 0 .. MaxCount, lockedUntil : 0 .. MaxTime + LockFor]

ASSUME NoRowIsNull == Null \notin UserRow

\* Rows of students and employers, told apart by their table.
ProfileRow == {"STUDENT", "EMPLOYER"}

\* replacedBy: the place of the new token, 0 for NULL.
TokenRow ==
    [email : Email, revoked : BOOLEAN, replacedBy : 0 .. MaxTokens,
     expires : 1 .. MaxTime + TokenLife]

\* What a request keeps of what it read and was given.
RequestState ==
    [pc : {"idle", "registering", "wrong", "verified", "rotating", "leaving",
           "changing", "changed", "closing", "closed"},
     email : Email \union {Null}, role : Role \union {Null},
     university : University \union {Null}, password : Password \union {Null},
     active : BOOLEAN, failed : 0 .. MaxCount, token : 0 .. MaxTokens,
     found : SUBSET Nat]

Idle ==
    [pc |-> "idle", email |-> Null, role |-> Null, university |-> Null,
     password |-> Null, active |-> FALSE, failed |-> 0, token |-> 0, found |-> {}]

Return(r) == req' = [req EXCEPT ![r] = Idle]

Exists(e) == users[e] # Null

\* The sessions of an account.
Sessions(e) ==
    {i \in 1 .. Len(tokens) : tokens[i].email = e /\ ~ tokens[i].revoked}

\* The UPDATE users of change_password, and that of deactivate_account, which the
\* flush leaves out for an account that was loaded closed.
WritesRow(q) == q.pc \in {"changing", "changed"} \/ q.active

\* Who has written a row keeps it until COMMIT: other UPDATEs of the row wait.
RowLocked(e) ==
    \E r \in Request :
        req[r].email = e /\ req[r].pc \in {"changed", "closed"} /\ WritesRow(req[r])

\* Fault: the lifetime forgotten.
ExpiredToken(e) ==
    [email |-> e, revoked |-> FALSE, replacedBy |-> 0, expires |-> now]

NewToken(e) ==
    [email |-> e, revoked |-> FALSE, replacedBy |-> 0, expires |-> now + TokenLife]

-----------------------------------------------------------------------------
(* Registration.                                                           *)

\* Fault: any university will do.
AnyUniversity(role, u) == role # "UNIVERSITY_ADMIN" <=> u = Null

\* An administrator names a verified university, the others none.
MayRegister(role, u) ==
    IF role = "UNIVERSITY_ADMIN" THEN u \in verified ELSE u = Null

Register(r, e, role, u, p) ==
    /\ req[r] = Idle
    /\ ~ Exists(e)
    /\ MayRegister(role, u)
    /\ req' = [req EXCEPT ![r] =
                  [Idle EXCEPT !.pc = "registering", !.email = e, !.role = role,
                               !.university = u, !.password = p]]
    /\ UNCHANGED <<users, profiles, verified, tokens, now>>

\* The row and its profile, unless another registration took the address
\* (email is UNIQUE).
CommitRegistration(r) ==
    LET q == req[r] IN
    /\ q.pc = "registering"
    /\ ~ Exists(q.email)
    /\ users' = [users EXCEPT ![q.email] =
          [role |-> q.role, university |-> q.university, password |-> q.password,
           active |-> TRUE, failed |-> 0, lockedUntil |-> 0]]
    /\ profiles' = [profiles EXCEPT ![q.email] =
          IF q.role \in ProfileRow THEN q.role ELSE Null]
    /\ Return(r)
    /\ UNCHANGED <<verified, tokens, now>>

\* verify_university; nothing takes it back.
VerifyUniversity(u) ==
    /\ u \notin verified
    /\ verified' = verified \union {u}
    /\ UNCHANGED <<users, profiles, tokens, now, req>>

-----------------------------------------------------------------------------
(* Login, in two transactions.                                             *)

Locked(e) == users[e].lockedUntil > now

\* Block 1 up to the password; a locked account is refused.
Login(r, e, p) ==
    /\ req[r] = Idle
    /\ Exists(e)
    /\ ~ Locked(e)
    /\ req' = [req EXCEPT ![r] =
          [Idle EXCEPT !.pc = IF p = users[e].password THEN "verified" ELSE "wrong",
                       !.email = e, !.active = users[e].active,
                       !.failed = users[e].failed]]
    /\ UNCHANGED <<users, profiles, verified, tokens, now>>

\* Fault: the counter of the row that was loaded, plus one.
LoadedFailures(q) == q.failed + 1

\* increment_failed_attempts: an UPDATE of the committed counter.
Failures(q) == users[q.email].failed + 1

\* Fault: one attempt more.
LocksAfter(n) == n > MaxFailed

LocksAt(n) == n >= MaxFailed

\* The rest of block 1 for a wrong password.
FailLogin(r) ==
    LET q == req[r] IN
    /\ q.pc = "wrong"
    /\ ~ RowLocked(q.email)
    /\ Failures(q) <= MaxCount
    /\ users' = [users EXCEPT
          ![q.email].failed = Failures(q),
          ![q.email].lockedUntil = IF LocksAt(Failures(q)) THEN now + LockFor ELSE @]
    /\ Return(r)
    /\ UNCHANGED <<profiles, verified, tokens, now>>

\* Fault: a login in progress lifts the lock others caused.
AlsoUnlock(u) == [u EXCEPT !.failed = 0, !.lockedUntil = 0]

\* reset_failed_attempts
ResetFailures(u) == [u EXCEPT !.failed = 0]

\* Block 2, for an account that was active when block 1 loaded it.
SucceedLogin(r) ==
    LET q == req[r] IN
    /\ q.pc = "verified"
    /\ q.active
    /\ ~ RowLocked(q.email)
    /\ Len(tokens) < MaxTokens
    /\ users' = [users EXCEPT ![q.email] = ResetFailures(@)]
    /\ tokens' = Append(tokens, NewToken(q.email))
    /\ Return(r)
    /\ UNCHANGED <<profiles, verified, now>>

-----------------------------------------------------------------------------
(* Sessions.                                                               *)

Revoked(t, replacement) == [t EXCEPT !.revoked = TRUE, !.replacedBy = replacement]

\* Fault: nobody asks whether the account is still open.
LiveToken(t) == ~ t.revoked /\ t.expires >= now

\* The checks of refresh_access_token.
MayRefresh(t) == LiveToken(t) /\ users[t.email].active

\* refresh_access_token, up to the checks.
Refresh(r, i) ==
    /\ req[r] = Idle
    /\ i \in 1 .. Len(tokens)
    /\ MayRefresh(tokens[i])
    /\ req' = [req EXCEPT ![r] =
                  [Idle EXCEPT !.pc = "rotating", !.email = tokens[i].email,
                               !.token = i]]
    /\ UNCHANGED <<users, profiles, verified, tokens, now>>

Rotate(r) ==
    LET q == req[r] IN
    /\ q.pc = "rotating"
    /\ Len(tokens) < MaxTokens
    /\ tokens' = Append([tokens EXCEPT ![q.token] = Revoked(@, Len(tokens) + 1)],
                        NewToken(q.email))
    /\ Return(r)
    /\ UNCHANGED <<users, profiles, verified, now>>

Logout(r, i) ==
    /\ req[r] = Idle
    /\ i \in 1 .. Len(tokens)
    /\ ~ tokens[i].revoked
    /\ req' = [req EXCEPT ![r] = [Idle EXCEPT !.pc = "leaving", !.token = i]]
    /\ UNCHANGED <<users, profiles, verified, tokens, now>>

\* revoke without a replacement writes NULL into replaced_by.
Leave(r) ==
    /\ req[r].pc = "leaving"
    /\ tokens' = [tokens EXCEPT ![req[r].token] = Revoked(@, 0)]
    /\ Return(r)
    /\ UNCHANGED <<users, profiles, verified, now>>

\* change_password, up to the check of the old one.
ChangePassword(r, e, old, new) ==
    /\ req[r] = Idle
    /\ Exists(e)
    /\ old = users[e].password
    /\ req' = [req EXCEPT ![r] =
                  [Idle EXCEPT !.pc = "changing", !.email = e, !.password = new]]
    /\ UNCHANGED <<users, profiles, verified, tokens, now>>

\* deactivate_account, up to the load of the row.
Deactivate(r, e) ==
    /\ req[r] = Idle
    /\ Exists(e)
    /\ req' = [req EXCEPT ![r] =
                  [Idle EXCEPT !.pc = "closing", !.email = e,
                               !.active = users[e].active]]
    /\ UNCHANGED <<users, profiles, verified, tokens, now>>

\* The flush of the row, then the bulk UPDATE of revoke_all_for_user: the tokens it
\* finds are those live when it begins.  It waits for a rotation that has marked one
\* of them; the token that rotation adds, it does not see.
FindSessions(r) ==
    LET q == req[r] IN
    /\ q.pc \in {"changing", "closing"}
    /\ WritesRow(q) => ~ RowLocked(q.email)
    /\ req' = [req EXCEPT
          ![r].pc = IF q.pc = "changing" THEN "changed" ELSE "closed",
          ![r].found = Sessions(q.email)]
    /\ UNCHANGED <<users, profiles, verified, tokens, now>>

\* What the bulk UPDATE wrote; replaced_by stays.
RevokeFound(found) ==
    tokens' = [i \in 1 .. Len(tokens) |->
                  IF i \in found THEN [tokens[i] EXCEPT !.revoked = TRUE]
                  ELSE tokens[i]]

CommitPassword(r) ==
    /\ req[r].pc = "changed"
    /\ users' = [users EXCEPT ![req[r].email].password = req[r].password]
    /\ RevokeFound(req[r].found)
    /\ Return(r)
    /\ UNCHANGED <<profiles, verified, now>>

CommitClosing(r) ==
    /\ req[r].pc = "closed"
    /\ users' = [users EXCEPT ![req[r].email].active = FALSE]
    /\ RevokeFound(req[r].found)
    /\ Return(r)
    /\ UNCHANGED <<profiles, verified, now>>

-----------------------------------------------------------------------------

\* A conflicting registration or one its profile's constraints refuse, an
\* inactive account in block 2, or a worker that dies: nothing of the current
\* transaction is committed.
Fail(r) ==
    /\ req[r] # Idle
    /\ Return(r)
    /\ UNCHANGED <<users, profiles, verified, tokens, now>>

Tick ==
    /\ now < MaxTime
    /\ now' = now + 1
    /\ UNCHANGED <<users, profiles, verified, tokens, req>>

Init ==
    /\ users = [e \in Email |-> Null]
    /\ profiles = [e \in Email |-> Null]
    /\ verified = {}
    /\ tokens = << >>
    /\ now = 0
    /\ req = [r \in Request |-> Idle]

Start(r) ==
    \/ \E e \in Email, role \in Role, u \in University \union {Null}, p \in Password :
          Register(r, e, role, u, p)
    \/ \E e \in Email, p \in Password : Login(r, e, p)
    \/ \E e \in Email, old, new \in Password : ChangePassword(r, e, old, new)
    \/ \E e \in Email : Deactivate(r, e)
    \/ \E i \in 1 .. MaxTokens : Refresh(r, i) \/ Logout(r, i)

GoOn(r) ==
    \/ CommitRegistration(r)
    \/ FailLogin(r)
    \/ SucceedLogin(r)
    \/ Rotate(r)
    \/ Leave(r)
    \/ FindSessions(r)
    \/ CommitPassword(r)
    \/ CommitClosing(r)
    \/ Fail(r)

Next ==
    \/ \E r \in Request : Start(r) \/ GoOn(r)
    \/ \E u \in University : VerifyUniversity(u)
    \/ Tick

Spec == Init /\ [][Next]_vars

-----------------------------------------------------------------------------
(* Correctness.                                                            *)

\* Rows and requests in progress hold values their columns allow.
AccountTypeOK ==
    /\ users \in [Email -> UserRow \union {Null}]
    /\ profiles \in [Email -> ProfileRow \union {Null}]
    /\ verified \subseteq University
    /\ tokens \in Seq(TokenRow)
    /\ now \in 0 .. MaxTime
    /\ req \in [Request -> RequestState]

\* Registration is all or nothing: students and employers have their profile,
\* administrators a university, and one that was verified (register_user).
RolesAreBacked ==
    \A e \in Email : Exists(e) =>
        CASE users[e].role = "UNIVERSITY_ADMIN" ->
                users[e].university \in verified /\ profiles[e] = Null
          [] users[e].role # "UNIVERSITY_ADMIN" ->
                users[e].university = Null /\ profiles[e] = users[e].role

\* An account with as many failures as the limit has been locked, however many
\* logins failed at the same time (authenticate_user, block 1).
LockFollowsFailures ==
    \A e \in Email :
        Exists(e) /\ users[e].failed >= MaxFailed => users[e].lockedUntil > 0

\* Failures are forgotten by a successful login only: none is lost between
\* concurrent logins (increment_failed_attempts, reset_failed_attempts).
FailuresAreKept ==
    [][\A e \in Email :
          /\ Exists(e)
          /\ users'[e].failed < users[e].failed
          => /\ Len(tokens') = Len(tokens) + 1
             /\ tokens'[Len(tokens')].email = e]_vars

\* A lock, once set, is not lifted before its time, by a login that was under
\* way or by a failure counted late (set_account_lock).
LockIsNotShortened ==
    [][\A e \in Email :
          Exists(e) => users'[e].lockedUntil >= users[e].lockedUntil]_vars

\* The requests that may still open a session of an account: block 2 of a login
\* looks at the row that block 1 loaded, a rotation does not look again.
OpeningSession(e) ==
    {r \in Request : req[r].email = e /\
        (req[r].pc = "rotating" \/ (req[r].pc = "verified" /\ req[r].active))}

Closed(e) == Exists(e) /\ ~ users[e].active

\* Closing an account ends its sessions (deactivate_account).  What rotations add
\* between the bulk UPDATE and COMMIT stays, and so does what requests open that
\* read the account before; once it is closed, such sessions beget no other: the
\* sessions, open or on the way to be opened, never grow in number.
ClosedAccountsWither ==
    [][\A e \in Email :
          Closed(e) =>
             Cardinality(Sessions(e)') + Cardinality(OpeningSession(e)')
                <= Cardinality(Sessions(e)) + Cardinality(OpeningSession(e))]_vars

\* "Each token is single-use (rotation: use revokes old, issues new)"
\* (docs/security.md): whoever used it, logged out or changed the password,
\* a revoked token opens no session afterwards.
RevokedTokenIsDead ==
    [][\A r \in Request :
          /\ req[r].pc = "rotating"
          /\ Len(tokens') > Len(tokens)
          /\ req'[r] # req[r]
          => ~ tokens[req[r].token].revoked]_vars
=============================================================================
