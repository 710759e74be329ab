# Academic credential verification: a TLA+ development

Universities issue certificates, anchor their SHA-256 hashes in an Ethereum
contract, and anyone may later verify a PDF or a QR code against the contract.
This directory holds a specification of the system: what its parts do, what they
promise, model-checking runs on small instances, and proofs of the most important
promises for all instances. Every definition is translated from the code; the
file `PROJECT.json` gives the lines each one stands for.

Paths below are relative to the repository (`src/`).

## 1. The system

| Part | State it keeps | Operations |
|---|---|---|
| **Contract** `blockchain/contracts/CertificateRegistry.sol` | owner, whitelist of issuers, write-once records with ACTIVE/REVOKED, two counters | `authorizeIssuer`, `deauthorizeIssuer`, `transferOwnership`, `storeCertificate`, `revokeCertificate`, and the views |
| **Issuance** `backend/services/certificate_issuance_service.py` | rows of `certificates` and `blockchain_transactions`, files | phase 1 `upload_and_hash_certificate`; phase 2 `confirm_blockchain_storage` |
| **Revocation** `backend/services/certificate_revocation_service.py` | the same rows | phase 1 `initiate_revocation`; phase 2 `confirm_revocation` |
| **QR codes** `backend/services/qr_verification_service.py` | `qr_verifications` | generate (which deactivates the previous code), scan |
| **Verification** `backend/services/verification_service.py` | `verification_logs` (append-only), scan counters | by file (with or without a UID), by QR token |
| **Blockchain client** `backend/blockchain/blockchain_service.py`, `backend/dependencies/services.py` | the singleton, its sticky initialisation error, failure counter and time of the circuit breaker | views of the contract, receipts, with retries |
| **Accounts** `backend/services/auth_service.py`, `user_service.py` | `users`, profiles, `refresh_tokens` | register, login with lockout, refresh, logout, change password, deactivate |
| **Universities** `backend/services/university_service.py` | `universities` | register, verify, change the wallet |
| **Database sessions** `backend/database/connection.py`, `repositories/base_repository.py` | PostgreSQL, READ COMMITTED, `expire_on_commit=False`, `autoflush=False` | `async with db.begin()` commits or rolls back |
| Students, employers, log service, dashboards | profiles | reads, and updates of one row |
| **Requests** `backend/main.py`, `routers/`, `dependencies/` | the session of each request and its connection, the pool, who has an access token | gates, blocks, error mapping, parsing (rate limits are a library's) |
| Frontend, migrations, seeds, audit log | none at run time | placeholder page; scripts an operator runs; nothing writes `audit_log` |

### How the parts interact

* The backend never signs. It prepares (phase 1), the client's wallet sends the
  transaction, and a second request quotes the transaction's hash (phase 2). The
  backend then asks the node for the receipt and the record and writes what it saw.
  Between the phases the client may vanish, quote another hash, or send something else.
* A request is a coroutine. It awaits each database read and commits at the end of
  its block, so other requests move between a read and the commit; nothing is locked
  by a read. Calls of the node are *not* awaited: they hold the event loop.
* A raise inside `async with db.begin()` discards everything the block wrote.
* A request has one session, from `get_db`: the query of `get_current_user` that loads
  the user and the blocks of the service share it, and it gives its connection back to
  the pool when its transaction ends.
* Verification reads the certificate, asks the contract twice, and falls back on the
  row it read if the node is lost. The log row and the scan counter commit together.
* `get_blockchain_service` is a plain function, which FastAPI runs in a thread: several
  requests may construct the singleton at once.

### What is hard

Stale reads written late (a confirmation over another one or over a revocation); a
verdict of the chain carried across other requests' commits; error paths whose writes
are rolled back; retries of what was already done; several open revocations; two node
calls in one `try`; a breaker that must hold for a call already retrying; numbers
allocated as "greatest plus one"; files written by a transaction that may not commit;
lockout counters under concurrent logins; rotation of one token by two requests, and
beside the closing of the account; requests that end by an exception anywhere and still
must give their connection back; tokens that outlive the right they were made for.
`PROJECT.json` lists these hazards at their lines with the properties that cover them.

### What makes each part correct

* Contract: records are write-once, revocation is terminal and only by an issuer,
  counters count, authenticity is lost by revocation only.
* Issuance and revocation: the database announces only what the contract backs,
  whoever wrote last; what is confirmed was stored by a wallet of the university, and
  its transaction is known; a recorded revocation is final; a certificate has one active
  QR code; codes exist only for anchored certificates.
* Verification: AUTHENTIC only from the chain ("golden rule"); REVOKED and TAMPERED are
  no false alarms; no AUTHENTIC after REVOKED; scans are counted once.
* Upload: UID numbers run without gaps, each row has its file, each file one row.
* Client: an open breaker lets nothing through, and opens again by time alone.
* Accounts: failures are never lost, the limit locks, locks are not lifted early,
  registration is all or nothing; the sessions of a closed account wither.
* Requests: no connection is lost however a request ends; behind a gate is a user of the
  right role whose account was open on arrival; every request ends.

## 2. The modules

```
CertificateRegistry          the contract
  CertificateRegistryProofs
CredentialLedger             abstract: what the platform promises of a certificate
CredentialLifecycle          contract + issuance + revocation + QR codes; INSTANCEs
                             CertificateRegistry, implements CredentialLedger
  CredentialLifecycleProofs  INSTANCEs CertificateRegistryProofs
    ConfirmationProofs       whose wallet, which transaction, and the refinement
Verification                 verdicts over the abstract ledger; INSTANCEs CredentialLedger
  VerificationProofs
CertificateUpload            phase 1 of issuance, step by step
  CertificateUploadProofs    INSTANCEs CredentialLedger: phase 1 is its step Upload
BlockchainClient             singleton, retries, circuit breaker
  BlockchainClientProofs
Accounts                     registration, login, refresh tokens
  AccountsProofs
Requests                     gates, sessions, blocks and connections of the routes
  RequestsProofs
MC*                          instances for TLC
```

**CertificateRegistry.** Each modifier is an operator, each function an action whose
guard is the conjunction of its modifiers and `require`s, taken by any sender but
`address(0)`. UIDs and hashes are constants; `UidLength` gives the length the modifier
tests. Block time and events are left out.

**CredentialLifecycle.** `cert`, `storeTx`, `revokeTx`, `qrCodes` and `wallet` are what
is committed; `req[r]` is what request `r`'s session loaded. `held` is a history
variable, the addresses a university has entered so far, which `ConfirmedByItsIssuer`
needs because the wallet may change after the record was stored. A handler is two to four
actions split where it awaits: `Load...` (reads and guards), `Query...` (the node call
and every check of the answer), then `Commit...` or `Rollback...`. `Written` is the unit
of work: a column is written only if it differs from what *the session* loaded, which is
why a stale value can survive or overwrite. CHECK and UNIQUE constraints guard the
commits; a violated one is a rollback, as is a raising branch. `Crash` ends a request at
any point (a dead worker, a client that disconnected). `MineStore`, `MineRevoke`,
`MineReverted` and `MineElsewhere` give a transaction hash any fate the chain allows, of
any wallet with any arguments.

Where steps are merged: the receipt and the record come from two node calls but are one
step, which loses nothing because receipts and records never change back;
`LoadForConfirmation` reads certificate and wallet in one step; `transferOwnership` is
left to the contract's own run, where it is complete (`OwnerCall` authorises and
deauthorises).

**CredentialLedger** is the promise: the chain moves forward; the database is `absent`,
`open`, `confirmed` or `revoked`; it confirms only what is anchored by the university's own
hand, may fall back from `confirmed` to `open`, and records a revocation only of what the
chain revoked, finally; a new QR code replaces the older ones, of a certificate that is
anchored in this way. `owned` are the certificates whose record an address of their
university wrote: it grows when the university writes one, and when it enters an address
that wrote some before (`Adopt`). `CredentialLifecycle!Ledger` is the refinement mapping,
with `StoredByIssuer` for `owned`.

**Verification** runs both flows over that abstract ledger, its QR codes included, so what
it shows of verdicts holds for any implementation of the ledger. It adds the log and, in
`scans`, the counter of each code. Since the ledger's `LedgerMoves` interleave
with every step, a verification may be arbitrarily stale. `AskChain` and `FetchRecord`
are the two node calls; each may fail and lead to `FallBack`. `LogAccepts` holds the log
table's constraints.

**CertificateUpload** is the ledger's step `Upload` in detail: read the number, check the
hash, save the file, insert and commit. A file is identified with its hash (SHA-256 is
taken to be injective). `mayIssue` are universities that are verified and have a wallet.

**BlockchainClient** has one breaker per constructed client, because a startup race may
construct several; a client is named by the request slot that constructed it. Time
passes in seconds (`Tick`); `quiet` saturates at the pause and `failures` at the
threshold, beyond which the code does not tell values apart.

**Accounts** splits each operation into its read and its commit. `LockIsNotShortened` and
`FailuresAreKept` depend on the `UPDATE ... SET failed = failed + 1` in
`user_repository.py` and on `reset_failed_attempts` not touching `locked_until`.
A change of the password and a deactivation take three steps, because others commit
between their UPDATEs and their COMMIT: the load, `FindSessions` (the UPDATE of the account
and the bulk UPDATE of its tokens, which finds the tokens live at that moment), and
`CommitPassword` or `CommitClosing`, which make both visible. In between, the account's row
is locked (`RowLocked`): logins, right or wrong, write that row and wait; rotations do not
write it, still find the account open, and add tokens the bulk UPDATE does not know.
How many survive a deactivation is therefore not bounded. What holds is
`ClosedAccountsWither`: once the account is closed, its sessions, counted together with
those that logins and rotations under way may still open, never grow in number, for
nothing that starts later may open one.
The roles are those the registration schema admits. The limits of the constants
(5 failures, 10 minutes) are parameters.

**Requests** takes the routes apart by what they need before their service and how many
blocks the service runs, and follows the session: `begun` (autobegin or `begin()`),
`conn` (its connection), `left` (blocks still to run). `Arrive` and `ArriveWithToken`
are the dependencies up to the first query, `Connect` and `PoolTimesOut` the pool,
`Authenticate` the gate, `BeginBlock`, `CommitBlock` and `RollbackBlock` the
`async with db.begin()` of the service, `Raise` every exception outside the blocks,
`Close` the end of `get_db`. The logout has a gate and no block: it calls its service only
if the refresh cookie came along, and that cookie's path keeps it from being sent there. What the blocks do is in the other modules, which take each
service on a session of its own, as the integration tests call them.

Definitions marked *Fault* are plausible bugs, used only to show that the properties
would notice them.

## 3. The runs

| Run | Question | Result |
|---|---|---|
| `registry` | Do records, counters, whitelist and authenticity survive every order of calls of four accounts, with UIDs of length 0, 1, 50 and 51? | holds |
| `lifecycle` | With two requests, two wallets, a forged hash, crashes and a failing node: does the database ever announce what the chain does not back? Does it implement the ledger? | holds |
| `verification` | Two verifications over a moving ledger: golden rule, no false alarms, scans counted | holds |
| `client` | Breaker, retries and startup race with two requests; does a pause end? | holds |
| `upload` | Two uploads over a turn of the year: gaps, orphans, duplicates | holds |
| `accounts` | One address, two requests: lockout, registration, sessions of a closed account | holds |
| `requests` | Two requests compete for one connection: is it always given back, does each request end, does a token outlive its owner's rights? | holds |
| `status_falls_back` | PENDING, SUBMITTED, CONFIRMED as "the natural lifecycle" (migration 015) | violated: a late confirmation writes SUBMITTED over CONFIRMED |
| `revert_forgotten` | "status=FAILED" for a reverted transaction (`docs/backend.md`) | violated: the write is rolled back by the raise after it |
| `chain_answer_dropped` | "if blockchain_call.status == REVOKED: result = REVOKED" (`docs/backend.md`) | violated: losing the node after the answer reports PENDING_CHAIN |
| `revoked_token_alive` | "Each token is single-use" (`docs/security.md`) | violated: two refreshes with one token both succeed |
| `authorized_blocks` | "PUT ... → 200 updated" (`tests/api/test_api_endpoints.py:458`) | violated: the query of `get_current_user` has begun the session's transaction, so the service's `begin()` raises |

The last five each check one sentence of the repository against the code; `PROJECT.json`
quotes it and explains the run under "findings". `authorized_blocks` rests on the session
that the gate and the service share (`Depends(get_db)` in both, which FastAPI calls once per
request); the integration tests of the services open a session of their own, and those of
the API keep their setup on another one but not the gate. Each property of the first seven
has a mutant: the named definition is replaced by its faulty form, and TLC then finds the
property violated.

### Bounds, and why they are enough

* *Two requests.* Every hazard here is a pair: one request's stale read and another's
  commit. The proofs lift the bound for all properties but those named at the end of
  section 4.
* *One certificate, two transaction hashes, two wallets, two non-zero file hashes*
  (`lifecycle`): two hashes give a store and a revocation, or a transaction quoted twice;
  two wallets give a change of wallet, and a right and a wrong issuer (the owner's address
  can be a university's wallet but never an authorised issuer); two hashes give a genuine
  and a forged record. Certificates interact only through `tx_hash`. `MaxRevocations` and
  `MaxQr` bound rows per certificate. In `verification` a foreign file stands for the file
  of another certificate.
* *Four accounts, four UIDs* (`registry`): owner, new owner, two issuers; two legal UIDs
  at the ends of the range and the two just outside.
* *Two universities, three files, two numbers, two years* (`upload`): the third number
  meets the format's limit, and a number may be read in one year and inserted in the next.
* *Limits scaled* (`client`, `accounts`): `client` keeps the real 3 retries and 5 failures
  and scales seconds so that the pause (4) outlasts the two backoffs (1, 2), as 60 seconds
  do. `accounts` locks after 2 failures; a third failure (`MaxCount`) is counted by a login
  that was under way when the lock was set. Two ticks let a lock or a token expire;
  two tokens are one and its replacement, two sessions, or the session a deactivation
  finds and the one a rotation adds before its COMMIT (with three tokens the run holds too).
* *Seven routes, a pool of one, an administrator and an employer* (`requests`): a route of
  each kind of gate with zero, one and two blocks; with one connection two requests
  always compete, and the two roles meet gates for one role and gates for any.
* *Symmetry* is used for request slots, hashes, files, and the like, none of which the
  definitions tell apart, and in runs without liveness properties only.

Deadlock checking is off where the bounds end every behaviour (rows and logs fill up);
it is on in `registry`, whose owner can always act, in `client`, where time passes, and
in `requests`, where clients can always come.

### Fairness

`BlockchainClient` assumes that time passes (`WF(Tick)`), and that a call that holds the
event loop goes on (`WF(GoOn(r))`), because an attempt has the RPC timeout and
`time.sleep` returns. Nothing is assumed about what requests do, nor that a node answers.
Under it `PauseEnds` holds. `Requests` assumes that each request goes on (`WF(GoOn(r))`):
the event loop runs every coroutine that can run, queries end, and the pool gives up
waiting after `pool_timeout`. Under it `RequestsEnd` holds; that a connection becomes free
is not assumed. Everything else is safety: clients owe the system no second
phase, so no progress of a certificate is promised by the code.

## 4. The proofs

TLAPS checks the theorems for every value of the constants that satisfies the named
assumptions (`RegistryAssumption`, `LifecycleAssumption`, `VerificationAssumption`,
`UploadAssumption`, `ClientAssumption`, `BackoffsDouble`, `AccountAssumption`, `NoRowIsNull`,
`RequestAssumption`), which say no more than that the zero values exist and differ, that
`Null` is nobody, that bounds and limits are numbers (the limits that count something at
least 1), and that request slots are finitely many where they are counted.
`BackoffsDouble` is arithmetic: it says of the backoffs, `2 ^ (n - 1)`, what the provers
cannot know, for powers are nothing to them; TLC evaluates it like the others.

**CertificateRegistryProofs.** `TypeOK` is inductive and carries `RecordsFinal`,
`RevokersAreIssuers` and `AuthenticityStable` (action properties: one case per function).
`CountersCorrect` needs that a store adds exactly one element to the stored UIDs and a
revocation exactly one to the revoked ones, for finitely many UIDs.

**CredentialLifecycleProofs.** The invariants are not inductive one by one: that a
CONFIRMED certificate is anchored depends on what a request saw before it commits. The
inductive invariant is

    IInv == TypeOK /\ RequestsOK /\ ConfirmedIsAnchored /\ RevokedIsRevokedOnChain
            /\ InactiveMeansRevoked /\ VerdictsHold /\ QrCodesAreAnchored

`VerdictsHold` says that the answer a request carries from the node is *still* true, and
that is inductive because the chain only grows (`ChainGrows`, from the contract's own
theorems through `INSTANCE`). `RequestsOK` says what each control point knows. From
`IInv`: the type invariant and the five safety properties, and `RevocationFinal`.
`SingleActiveQr` is a second induction on the codes of a certificate.

**ConfirmationProofs** is a third induction over the lifecycle, on top of `IInv`. Both
`ConfirmedByItsIssuer` and `StoringTransactionKnown` depend on what a request read before
it commits: `Knows` says that the wallet it compared the record with was one of the
university's when it was read (and `held` never shrinks), and that a request which found
a transaction hash in the row can only write another hash, never the absence of one, for
`Written` leaves a column alone that the session did not change. On that rest:

* `AnnouncedOwn`: what is confirmed, has a code or a row for a revocation has a record of
  its own university with the file's hash, also after the status fell back or the wallet
  changed. `OnlyItsIssuerRevokes`: so its record changes only by a revocation, sent by a
  whitelisted wallet of that university.
* `LifecycleImplementsLedger`, by matching each step to a ledger step or a stutter. A
  change of the wallet is `Adopt`; a confirmation and a code need that their certificate
  is in `StoredByIssuer`, which is why the refinement needs this invariant and not `IInv`
  alone.
* `FailureIsNeverRecorded`, an induction of its own, is the finding of `revert_forgotten`
  for every instance: no row of any reachable database says FAILED.

**VerificationProofs.** `LedgerBacked` (the database announces, and QR codes are made for,
only what the chain backs in the university's own hand) is inductive over the abstract
ledger; each verdict in a request or in the log is
`Backed`, and what the chain backs it backs for ever. Hence `GoldenRule`,
`NoFalseRevocation`, `NoFalseTampering`; `RevocationIsFinal` follows since a logged REVOKED
means the contract says so, and then no call answers AUTHENTIC. `ScansAreNeverLost`
counts: an answer adds one log row to the set of its code's rows and one to its counter.

**CertificateUploadProofs.** That numbers have no gaps is not inductive: a number is read
long before its row is inserted. What is inductive is that the numbers below the one an
upload read are taken (`RequestIsConsistent`), because rows are only added; if its own is
free when the row is inserted, it is the next one (`CommitAddsTheNext`). With distinct
numbers in a year, a bijection counts the rows (`CountedByNumbers`). That a row finds its
file follows since a name, once taken, keeps its contents (`FilesAreKept`).
`UploadTakesOneStep` projects the rows onto the ledger, file by file: only a commit changes
the projection, and it is `Upload` of a file that was `absent`, whichever uploads of the
same file run beside it. `RowsKeepTheirNames`: rows are never changed, nor is a UID or the
name of a file used again.

**AccountsProofs.** `AccountSteps` names the five things a step can do to an account; the
invariants and the action properties then look at these rather than at the actions.
`RequestsAreBacked` says what a request between its read and its commit may rely on: the
account is still there, the university still verified. `LockIsNotShortened` needs
`LocksAreInReach`: no lock ends later than one that is set now. `ClosedAccountsWither` is
an action property about two cardinalities, by steps: each step of a closed account ends
sessions, or turns one request under way into one session (`ClosedAccountsStep`), so that
their sum does not grow. `IdentitiesStay` and `TokensOnlyAge` are action properties of a row of
`users` and of `refresh_tokens`. `ReplacementsStayLinked` needs `RotationsKnowTheirAccount`,
that a rotation carries the account of the token it is about to replace, and that no step
changes the account of a token: so what `replaced_by` names is a later token of the same
account, though two rotations of one token overwrite each other and a logout may clear it.

**RequestsProofs.** The inductive invariant `RequestInv` says at each control point
whether the session has begun, holds a connection, and what its request has been allowed
(`RequestsAreConsistent`, `ArrivalsAreRemembered`); that free connections and those held add
up to the pool is counted step by step (`ConnectionsStayAddedUp`). `GatedBlocksNeverBegin`
proves the finding of `authorized_blocks` for every instance: no request behind a gate
ever gets into a block of its service. `NobodyWaitsForEachOther`: a request asks for a
connection only while it has none, so when none is free somebody is not waiting.

**BlockchainClientProofs.** `PausesAreQuiet` needs `OneHoldsTheLoop`: only the call that is
under way can open the breaker, and it leaves its attempt in the same step.
`BlockedAtMost` keeps the account `Spent`: the attempts so far, each the RPC timeout, and
the backoffs between them, which add up to one less than the next. `PausesLastTheirTime`
is the converse of the liveness property `PauseEnds`: only `Tick` closes an open breaker. It
needs `ConstructedOnce`, that a thread of the startup race constructs a client nobody uses
yet; otherwise the new one's counter of failures would end the pause of the old one.

### How the theorems compose

The contract's theorems hold inside the lifecycle (`Contract`, an instance of
`CertificateRegistryProofs`); the lifecycle implements the ledger
(`LifecycleImplementsLedger`); the verdicts are proved over the ledger, and use nothing
but its steps. Together: an AUTHENTIC in the log means that the contract holds the file's
hash in a record that a wallet of the certificate's own university wrote, however
issuances, revocations, changes of wallets and verifications interleave. Phase 1 enters
this as one step (`UploadTakesOneStep`). The last composition is by hand: that a behaviour
of the whole system is a behaviour of `Verification` is what its `LedgerMoves` says, and
no module has both the lifecycle's and a verification's variables.

### Model-checked only

`PauseEnds` and `RequestsEnd` are liveness, which the prover does not do. Every other
property of the passing runs is a theorem. Conversely the theorems that state no property of
a run (`AnnouncedOwn`, `OnlyItsIssuerRevokes`, `FailureIsNeverRecorded`,
`UploadTakesOneStep`, `RowsKeepTheirNames`, `IdentitiesStay`, `TokensOnlyAge`,
`ReplacementsStayLinked`, `PausesLastTheirTime`, `NobodyWaitsForEachOther`,
`GatedBlocksNeverBegin`, `OneCallAtATime`) state properties defined beside them, in the
modules of the proofs.

## 5. What is not modelled

* Parsing, formats, rate limits, CORS and logging; the wording of
  errors. Handlers appear as the actions their services take.
* Reads: dashboards, lists, the log service. `student_credential_service.py` compares
  `users.id` with `students.id` in places; only results of reads depend on it.
* `register_university`, `verify_university`, `change_password` and `deactivate_account`
  have no route in the repository. The last three are modelled as calls somebody
  may make, registration of universities as their being there.
* Images of QR codes. The route that generates a code saves its image after the code's
  transaction; `confirm_blockchain_storage` generates a code, answers with the URL of its
  image and saves none.
* Sentences of the repository that the code does not keep and no run checks: that the
  contract's owner "cannot issue certificates" (`CertificateRegistry.sol:244`,
  `docs/security.md:46`; ownership can be transferred to an authorised issuer); that an upload
  which meets the UNIQUE constraint will "retry" (`docs/backend.md:1502`; it fails); that a change of the password "forces
  re-login on all devices" and a deactivation "revokes all refresh tokens"
  (`user_service.py:108`, `:122`; a token that a rotation adds between the bulk UPDATE and
  COMMIT is not revoked, and after a change of the password it goes on being refreshed);
  that a logout works "by revoking refresh token" (`auth_router.py:160`; a browser does not
  send the cookie there).
* Revocation reasons, gas, block numbers, snapshots of names, IP addresses.
* The audit log (nothing writes it), seeds, deployment, the frontend (a placeholder; its
  transactions are arbitrary transactions of any wallet).

## 6. Plan

Written in this order, the most important behaviour first:

1. `CertificateRegistry` and its proofs. *Done.*
2. `CredentialLedger`, `CredentialLifecycle`, their runs and proofs. *Done.*
3. `Verification` over the ledger, run and proofs. *Done.*
4. `BlockchainClient`, `CertificateUpload`, `Accounts`, their runs and proofs. *Done.*
5. `Requests` (sessions, access tokens, gates, the pool), the wallets a university has had
   (`ConfirmedByItsIssuer`), the sessions of closed accounts. *Done.*
6. Proofs of `StoringTransactionKnown`, `BlockedAtMost` and the properties of 5. *Done.*
7. Whose hand wrote a record, and the QR codes, in the ledger and its refinement; uploads
   as the ledger's step; how accounts, tokens, breakers and connections may change. *Done.*
8. Left to model: several revocations and certificates in one `lifecycle` instance (the
   proofs cover them already); the retry of a refused confirmation after the wallet is set
   right again (liveness under fair clients).
9. Left to compose: the client's outcomes as those that the lifecycle and the verification
   assume; the sessions of `Requests` under the services of the other modules.
