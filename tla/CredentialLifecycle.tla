------------------------- MODULE CredentialLifecycle -------------------------
(***************************************************************************)
(* The two ledgers of a certificate.  The backend keeps a row per          *)
(* certificate and rows for the blockchain transactions and QR codes that  *)
(* belong to it; the contract keeps the record that the university's       *)
(* wallet wrote.  Issuance and revocation are two-phase: the backend       *)
(* prepares, the client signs and sends a transaction that the backend     *)
(* never sees, and a second request asks the backend to look at the chain  *)
(* and record the result (services/certificate_issuance_service.py,        *)
(* certificate_revocation_service.py, qr_verification_service.py).         *)
(*                                                                         *)
(* A request reads the database into the session, awaiting each read,      *)
(* calls the node, and writes.  Its writes become visible together when    *)
(* the block `async with db.begin()` ends normally, and are discarded when *)
(* the block raises.  Other requests, and the chain, move between those    *)
(* steps.  The isolation is READ COMMITTED and nothing is locked by a      *)
(* read, so what a request read may be stale when it writes.  The unit of  *)
(* work writes a column only when its new value differs from the one the   *)
(* session loaded.                                                         *)
(***************************************************************************)
EXTENDS Naturals, Sequences, FiniteSets

CONSTANTS
    Address, ZeroAddress, Deployer, Hash, ZeroHash,   \* as in the contract
    Wallet,          \* the addresses universities enter as theirs
    University,
    Cert,            \* certificates, standing also for their certificate_uid
    IssuerOf,        \* certificates.university_id
    HashOf,          \* certificates.sha256_hash
    TxHash,          \* transaction hashes a client may quote
    Request,         \* slots for requests in progress
    Null,
    MaxRevocations,  \* bound: revocations initiated per certificate
    MaxQr            \* bound: QR codes generated per certificate

ASSUME LifecycleAssumption ==
    /\ ZeroAddress \in Address
    /\ Deployer \in Address \ {ZeroAddress}
    /\ ZeroHash \in Hash
    /\ Wallet \subseteq Address
    /\ IssuerOf \in [Cert -> University]
    /\ HashOf \in [Cert -> Hash \ {ZeroHash}]
    /\ Null \notin Wallet \union TxHash \union Cert
    /\ MaxRevocations \in Nat
    /\ MaxQr \in Nat

VARIABLES
    owner, authorizedIssuers, certificates,           \* the contract
    totalCertificates, totalRevocations,
    receipt,     \* what the node answers for each transaction hash
    cert,        \* certificates: blockchain_status and is_active
    storeTx,     \* blockchain_transactions: the STORE_HASH row
    revokeTx,    \* blockchain_transactions: REVOKE_HASH rows, by submitted_at
    qrCodes,     \* qr_verifications: is_active of each row, in order
    wallet,      \* universities.wallet_address
    held,        \* history: the addresses a university has entered so far
    req          \* requests in progress

registryVars == <<owner, authorizedIssuers, certificates,
                  totalCertificates, totalRevocations>>
chainVars == <<registryVars, receipt>>
dbVars == <<cert, storeTx, revokeTx, qrCodes, wallet, held>>
vars == <<chainVars, dbVars, req>>

\* UIDs built by the backend (SHORTCODE-YYYY-NNNNN) fit the contract's limit.
UidLength == [c \in Cert |-> 13]

Registry == INSTANCE CertificateRegistry WITH Uid <- Cert

-----------------------------------------------------------------------------
(* Rows and requests.                                                      *)

BlockchainStatus ==
    {"ABSENT", "PENDING", "SUBMITTED", "CONFIRMED", "FAILED", "REVOKED"}

\* "NONE": the transaction that inserts the row has begun (NOW() is its start
\* time, so the row's place in the order is fixed) and has not committed.
TransactionStatus == {"NONE", "PENDING", "SUBMITTED", "CONFIRMED", "FAILED"}

CertificateRow == [status : BlockchainStatus, isActive : BOOLEAN]
TransactionRow == [status : TransactionStatus, txHash : TxHash \union {Null}]

NoTransaction == [status |-> "NONE", txHash |-> Null]

Outcome ==
    {"none", "unreachable", "notMined", "reverted", "rejected", "accepted"}

\* What a request holds: the row it looked for, as its session loaded it.
RequestState ==
    [kind : {"none", "confirmStorage", "initiateRevocation",
             "confirmRevocation", "generateQr"},
     pc : {"idle", "loaded", "queried"},
     cert : Cert \union {Null},
     txHash : TxHash \union {Null},
     seenStatus : BlockchainStatus,
     seenWallet : Wallet \union {Null},
     seenTx : TransactionRow,
     row : 0 .. MaxRevocations,
     qr : 0 .. MaxQr,
     outcome : Outcome]

Idle ==
    [kind |-> "none", pc |-> "idle", cert |-> Null, txHash |-> Null,
     seenStatus |-> "ABSENT", seenWallet |-> Null, seenTx |-> NoTransaction,
     row |-> 0, qr |-> 0, outcome |-> "none"]

At(r, kind, pc) == req[r].kind = kind /\ req[r].pc = pc

Return(r) == req' = [req EXCEPT ![r] = Idle]

-----------------------------------------------------------------------------
(* Columns, constraints and the outcome of a block.                        *)

\* The value of a column after a flush.
Written(new, seen, current) == IF new # seen THEN new ELSE current

\* blockchain_transactions.tx_hash is UNIQUE (NULLs do not conflict).
\* `mine` is the row being written: <<c, 0>> is the STORE_HASH row of c.
TxHashFree(mine, h) ==
    \A c \in Cert :
        /\ mine # <<c, 0>> => storeTx[c].txHash # h
        /\ \A i \in 1 .. Len(revokeTx[c]) :
              mine # <<c, i>> => revokeTx[c][i].txHash # h

\* Fault: chk_certificates_blockchain_status_revoked_sync missing.
NoRevokedSync(row) == TRUE

\* chk_certificates_blockchain_status_revoked_sync
RevokedSync(row) == ~ (row.isActive = FALSE /\ row.status # "REVOKED")

\* The branches that leave the block by an exception, which rolls it back.
Raises(outcome) == outcome \in {"unreachable", "reverted", "rejected"}

-----------------------------------------------------------------------------
(* Issuance.                                                               *)

\* upload_and_hash_certificate: the certificate and its STORE_HASH row appear
\* together.  How UIDs are allocated and files stored is left out here.
UploadCertificate(c) ==
    /\ cert[c].status = "ABSENT"
    /\ wallet[IssuerOf[c]] # Null
    /\ cert' = [cert EXCEPT ![c].status = "PENDING"]
    /\ storeTx' = [storeTx EXCEPT ![c] = [status |-> "PENDING", txHash |-> Null]]
    /\ UNCHANGED <<chainVars, revokeTx, qrCodes, wallet, held, req>>

\* confirm_blockchain_storage, up to the reads of the certificate and the
\* issuer's wallet.
LoadForConfirmation(r, c, h) ==
    /\ req[r] = Idle
    /\ cert[c].status \in {"PENDING", "SUBMITTED"}
    /\ req' = [req EXCEPT ![r] =
                  [Idle EXCEPT !.kind = "confirmStorage", !.pc = "loaded",
                               !.cert = c, !.txHash = h,
                               !.seenStatus = cert[c].status,
                               !.seenWallet = wallet[IssuerOf[c]]]]
    /\ UNCHANGED <<chainVars, dbVars>>

\* Fault: only the existence of the record checked.
RecordExists(q) == certificates[q.cert].exists

\* Fault: check C left out.
HashMatches(q) ==
    certificates[q.cert].exists /\ certificates[q.cert].certificateHash = HashOf[q.cert]

\* Checks A (existence), B (hash integrity) and C (issuer match).
RecordMatches(q) ==
    LET record == Registry!GetCertificateRecord(q.cert) IN
    /\ record.exists
    /\ record.certificateHash = HashOf[q.cert]
    /\ q.seenWallet # Null => record.issuingUniversity = q.seenWallet

\* The answers the node and the cross-validation can give.
StorageOutcome(q, outcome) ==
    \/ outcome = "unreachable"
    \/ outcome = "notMined" /\ receipt[q.txHash] = "none"
    \/ outcome = "reverted" /\ receipt[q.txHash] = "reverted"
    \/ outcome = "rejected" /\ receipt[q.txHash] = "ok" /\ ~ RecordMatches(q)
    \/ outcome = "accepted" /\ receipt[q.txHash] = "ok" /\ RecordMatches(q)

\* The read of the transaction rows and the calls to the node; the wallet is
\* not needed any more.
QueryStorage(r) ==
    /\ At(r, "confirmStorage", "loaded")
    /\ \E outcome \in Outcome :
          /\ StorageOutcome(req[r], outcome)
          /\ req' = [req EXCEPT ![r].pc = "queried",
                                ![r].seenWallet = Null,
                                ![r].seenTx = storeTx[req[r].cert],
                                ![r].outcome = outcome]
    /\ UNCHANGED <<chainVars, dbVars>>

\* The statuses each branch assigns to the transaction and the certificate.
StorageTxStatus(q) ==
    CASE q.outcome = "notMined" -> "SUBMITTED"
      [] q.outcome \in {"reverted", "rejected"} -> "FAILED"
      [] q.outcome = "accepted" -> "CONFIRMED"
      [] q.outcome = "unreachable" ->
            IF q.seenStatus = "PENDING" THEN "SUBMITTED" ELSE q.seenTx.status

StorageCertStatus(q) ==
    CASE q.outcome = "notMined" -> "SUBMITTED"
      [] q.outcome = "reverted" -> "FAILED"
      [] q.outcome = "accepted" -> "CONFIRMED"
      [] q.outcome = "rejected" -> q.seenStatus
      [] q.outcome = "unreachable" ->
            IF q.seenStatus = "PENDING" THEN "SUBMITTED" ELSE q.seenStatus

\* Fault: the hash left out of block_data.
StatusOnly(q) ==
    [storeTx[q.cert] EXCEPT !.status =
        Written(StorageTxStatus(q), q.seenTx.status, @)]

StorageTxRow(q) ==
    [status |-> Written(StorageTxStatus(q), q.seenTx.status, storeTx[q.cert].status),
     txHash |-> Written(q.txHash, q.seenTx.txHash, storeTx[q.cert].txHash)]

StorageCertRow(q) ==
    [cert[q.cert] EXCEPT !.status =
        Written(StorageCertStatus(q), q.seenStatus, cert[q.cert].status)]

StorageConstraints(q) ==
    /\ TxHashFree(<<q.cert, 0>>, StorageTxRow(q).txHash)
    /\ RevokedSync(StorageCertRow(q))

\* The end of the block.  On success the request goes on to generate a QR code
\* in a transaction of its own; its session still holds the certificate.
CommitStorage(r) ==
    LET q == req[r] IN
    /\ At(r, "confirmStorage", "queried")
    /\ ~ Raises(q.outcome)
    /\ StorageConstraints(q)
    /\ storeTx' = [storeTx EXCEPT ![q.cert] = StorageTxRow(q)]
    /\ cert' = [cert EXCEPT ![q.cert] = StorageCertRow(q)]
    /\ req' = [req EXCEPT ![r] =
                  IF q.outcome = "accepted"
                  THEN [Idle EXCEPT !.kind = "generateQr", !.pc = "loaded",
                                    !.cert = q.cert]
                  ELSE Idle]
    /\ UNCHANGED <<chainVars, revokeTx, qrCodes, wallet, held>>

\* The block raises, or a constraint does: nothing it wrote survives.
RollbackStorage(r) ==
    /\ At(r, "confirmStorage", "queried")
    /\ Raises(req[r].outcome) \/ ~ StorageConstraints(req[r])
    /\ Return(r)
    /\ UNCHANGED <<chainVars, dbVars>>

-----------------------------------------------------------------------------
(* QR codes.                                                               *)

\* Fault: a code generated as soon as the certificate is uploaded.
AnyUploaded(c) == cert[c].status # "ABSENT"

MayHaveQr(c) == cert[c].status = "CONFIRMED"

\* POST /qr/generate: generate_qr_for_certificate on a session of its own.
LoadForQr(r, c) ==
    /\ req[r] = Idle
    /\ MayHaveQr(c)
    /\ req' = [req EXCEPT ![r] = [Idle EXCEPT !.kind = "generateQr",
                                              !.pc = "loaded", !.cert = c]]
    /\ UNCHANGED <<chainVars, dbVars>>

ActiveQr(c) == {i \in 1 .. Len(qrCodes[c]) : qrCodes[c][i]}

\* get_active_by_certificate
LoadActiveQr(r) ==
    LET active == ActiveQr(req[r].cert) IN
    /\ At(r, "generateQr", "loaded")
    /\ req' = [req EXCEPT ![r].pc = "queried",
                          ![r].qr = IF active = {} THEN 0
                                    ELSE CHOOSE i \in active : TRUE]
    /\ UNCHANGED <<chainVars, dbVars>>

\* Fault: uq_qr_one_active_per_certificate missing.
QrIndexMissing(r) == TRUE

\* uq_qr_one_active_per_certificate, for the row about to be inserted.
QrIndexAllows(r) == ActiveQr(req[r].cert) \subseteq {req[r].qr}

\* Deactivate the code that was loaded, insert the new one.
CommitQr(r) ==
    LET q == req[r] IN
    /\ At(r, "generateQr", "queried")
    /\ QrIndexAllows(r)
    /\ Len(qrCodes[q.cert]) < MaxQr
    /\ qrCodes' = [qrCodes EXCEPT ![q.cert] =
          Append([i \in 1 .. Len(@) |-> @[i] /\ i # q.qr], TRUE)]
    /\ Return(r)
    /\ UNCHANGED <<chainVars, cert, storeTx, revokeTx, wallet, held>>

RollbackQr(r) ==
    /\ At(r, "generateQr", "queried")
    /\ ~ QrIndexAllows(r)
    /\ Return(r)
    /\ UNCHANGED <<chainVars, dbVars>>

-----------------------------------------------------------------------------
(* Revocation.                                                             *)

\* The blockchain pre-flight of initiate_revocation.  A node that cannot be
\* reached degrades it to the database checks alone.
Preflight(c, reachable) ==
    LET record == Registry!GetCertificateRecord(c)
        address == wallet[IssuerOf[c]]
    IN  reachable =>
        /\ Registry!IsAuthorizedIssuer(address)
        /\ record.exists
        /\ record.status = "ACTIVE"
        /\ record.issuingUniversity = address

\* initiate_revocation, up to the insertion of the REVOKE_HASH row.
LoadForRevocation(r, c) ==
    /\ req[r] = Idle
    /\ cert[c].isActive
    /\ cert[c].status = "CONFIRMED"
    /\ wallet[IssuerOf[c]] # Null
    /\ Len(revokeTx[c]) < MaxRevocations
    /\ \E reachable \in BOOLEAN : Preflight(c, reachable)
    /\ revokeTx' = [revokeTx EXCEPT ![c] = Append(@, NoTransaction)]
    /\ req' = [req EXCEPT ![r] =
                  [Idle EXCEPT !.kind = "initiateRevocation", !.pc = "loaded",
                               !.cert = c, !.row = Len(revokeTx[c]) + 1]]
    /\ UNCHANGED <<chainVars, cert, storeTx, qrCodes, wallet, held>>

CommitRevocationRow(r) ==
    LET q == req[r] IN
    /\ At(r, "initiateRevocation", "loaded")
    /\ revokeTx' = [revokeTx EXCEPT ![q.cert][q.row].status = "PENDING"]
    /\ Return(r)
    /\ UNCHANGED <<chainVars, cert, storeTx, qrCodes, wallet, held>>

\* confirm_revocation, up to the read of the certificate.  Unlike phase 1 it
\* does not ask for CONFIRMED.
LoadForRevocationConfirmation(r, c, h) ==
    /\ req[r] = Idle
    /\ cert[c].status # "ABSENT"
    /\ cert[c].isActive
    /\ req' = [req EXCEPT ![r] =
                  [Idle EXCEPT !.kind = "confirmRevocation", !.pc = "loaded",
                               !.cert = c, !.txHash = h]]
    /\ UNCHANGED <<chainVars, dbVars>>

OpenRevocations(c) ==
    {i \in 1 .. Len(revokeTx[c]) : revokeTx[c][i].status \in {"PENDING", "SUBMITTED"}}

\* The most recent open REVOKE_HASH row, or 0.
LatestRevocation(c) ==
    LET open == OpenRevocations(c) IN
    IF open = {} THEN 0 ELSE CHOOSE i \in open : \A j \in open : j <= i

\* Fault: the receipt trusted without looking at the record.
ReceiptSuffices(q) == TRUE

RecordRevoked(q) ==
    LET record == Registry!GetCertificateRecord(q.cert) IN
    record.exists /\ record.status = "REVOKED"

RevocationOutcome(q, outcome) ==
    \/ outcome = "unreachable"
    \/ outcome = "notMined" /\ receipt[q.txHash] = "none"
    \/ outcome = "reverted" /\ receipt[q.txHash] = "reverted"
    \/ outcome = "rejected" /\ receipt[q.txHash] = "ok" /\ ~ RecordRevoked(q)
    \/ outcome = "accepted" /\ receipt[q.txHash] = "ok" /\ RecordRevoked(q)

QueryRevocation(r) ==
    LET c == req[r].cert
        i == LatestRevocation(c)
    IN  /\ At(r, "confirmRevocation", "loaded")
        /\ \E outcome \in Outcome :
              /\ RevocationOutcome(req[r], outcome)
              /\ req' = [req EXCEPT ![r].pc = "queried",
                                    ![r].row = i,
                                    ![r].seenTx = IF i = 0 THEN NoTransaction
                                                  ELSE revokeTx[c][i],
                                    ![r].outcome = outcome]
        /\ UNCHANGED <<chainVars, dbVars>>

RevocationTxStatus(q) ==
    CASE q.outcome \in {"notMined", "unreachable"} -> "SUBMITTED"
      [] q.outcome = "reverted" -> "FAILED"
      [] q.outcome = "rejected" -> q.seenTx.status
      [] q.outcome = "accepted" -> "CONFIRMED"

RevocationTxRow(q) ==
    LET current == revokeTx[q.cert][q.row] IN
    [status |-> Written(RevocationTxStatus(q), q.seenTx.status, current.status),
     txHash |-> Written(q.txHash, q.seenTx.txHash, current.txHash)]

\* CertificateRepository.revoke
RevokedRow(c) == [cert[c] EXCEPT !.isActive = FALSE, !.status = "REVOKED"]

RevocationConstraints(q) ==
    q.row # 0 => TxHashFree(<<q.cert, q.row>>, RevocationTxRow(q).txHash)

CommitRevocation(r) ==
    LET q == req[r] IN
    /\ At(r, "confirmRevocation", "queried")
    /\ ~ Raises(q.outcome)
    /\ RevocationConstraints(q)
    /\ revokeTx' = IF q.row = 0 THEN revokeTx
                   ELSE [revokeTx EXCEPT ![q.cert][q.row] = RevocationTxRow(q)]
    /\ cert' = IF q.outcome = "accepted"
               THEN [cert EXCEPT ![q.cert] = RevokedRow(q.cert)]
               ELSE cert
    /\ Return(r)
    /\ UNCHANGED <<chainVars, storeTx, qrCodes, wallet, held>>

RollbackRevocation(r) ==
    /\ At(r, "confirmRevocation", "queried")
    /\ Raises(req[r].outcome) \/ ~ RevocationConstraints(req[r])
    /\ Return(r)
    /\ UNCHANGED <<chainVars, dbVars>>

-----------------------------------------------------------------------------
(* Wallets, failures and the chain.                                        *)

\* update_wallet_address of a verified university; wallet_address is UNIQUE.
UpdateWallet(u, address) ==
    /\ address # wallet[u]
    /\ \A other \in University \ {u} : wallet[other] # address
    /\ wallet' = [wallet EXCEPT ![u] = address]
    /\ held' = [held EXCEPT ![u] = @ \union {address}]
    /\ UNCHANGED <<chainVars, cert, storeTx, revokeTx, qrCodes, req>>

\* The worker dies, the client disconnects or an unexpected error is raised
\* while the request is open: its transaction is rolled back.
Crash(r) ==
    /\ req[r] # Idle
    /\ Return(r)
    /\ UNCHANGED <<chainVars, dbVars>>

\* A transaction the client sent is mined.
Mined(h, status) ==
    /\ receipt[h] = "none"
    /\ receipt' = [receipt EXCEPT ![h] = status]
    /\ UNCHANGED <<dbVars, req>>

\* Any wallet may have sent it, with any arguments.
MineStore(h, sender, c, hash) ==
    Mined(h, "ok") /\ Registry!StoreCertificate(sender, c, hash)

MineRevoke(h, sender, c) ==
    Mined(h, "ok") /\ Registry!RevokeCertificate(sender, c)

MineReverted(h) == Mined(h, "reverted") /\ UNCHANGED registryVars

\* A successful transaction that is no call of this contract.
MineElsewhere(h) == Mined(h, "ok") /\ UNCHANGED registryVars

\* The owner's scripts.
OwnerCall(a) ==
    /\ Registry!AuthorizeIssuer(owner, a) \/ Registry!DeauthorizeIssuer(owner, a)
    /\ UNCHANGED <<receipt, dbVars, req>>

-----------------------------------------------------------------------------

Init ==
    /\ Registry!Init
    /\ receipt = [h \in TxHash |-> "none"]
    /\ cert = [c \in Cert |-> [status |-> "ABSENT", isActive |-> TRUE]]
    /\ storeTx = [c \in Cert |-> NoTransaction]
    /\ revokeTx = [c \in Cert |-> << >>]
    /\ qrCodes = [c \in Cert |-> << >>]
    /\ wallet = [u \in University |-> Null]
    /\ held = [u \in University |-> {}]
    /\ req = [r \in Request |-> Idle]

Chain ==
    \/ \E a \in Address : OwnerCall(a)
    \/ \E h \in TxHash :
          \/ \E s \in Registry!Sender, c \in Cert, hash \in Hash : MineStore(h, s, c, hash)
          \/ \E s \in Registry!Sender, c \in Cert : MineRevoke(h, s, c)
          \/ MineReverted(h)
          \/ MineElsewhere(h)

Next ==
    \/ Chain
    \/ \E u \in University, a \in Wallet : UpdateWallet(u, a)
    \/ \E c \in Cert : UploadCertificate(c)
    \/ \E r \in Request, c \in Cert, h \in TxHash :
          \/ LoadForConfirmation(r, c, h)
          \/ LoadForRevocationConfirmation(r, c, h)
    \/ \E r \in Request, c \in Cert :
          \/ LoadForRevocation(r, c)
          \/ LoadForQr(r, c)
    \/ \E r \in Request :
          \/ QueryStorage(r) \/ CommitStorage(r) \/ RollbackStorage(r)
          \/ LoadActiveQr(r) \/ CommitQr(r) \/ RollbackQr(r)
          \/ CommitRevocationRow(r)
          \/ QueryRevocation(r) \/ CommitRevocation(r) \/ RollbackRevocation(r)
          \/ Crash(r)

Spec == Init /\ [][Next]_vars

-----------------------------------------------------------------------------
(* Correctness.                                                            *)

\* Rows and requests hold values that the columns allow, the contract's storage
\* is well typed under the transactions the clients send, and the bounds hold.
TypeOK ==
    /\ Registry!TypeOK
    /\ receipt \in [TxHash -> {"none", "ok", "reverted"}]
    /\ cert \in [Cert -> CertificateRow]
    /\ storeTx \in [Cert -> TransactionRow]
    /\ revokeTx \in [Cert -> Seq(TransactionRow)]
    /\ \A c \in Cert : Len(revokeTx[c]) <= MaxRevocations
    /\ qrCodes \in [Cert -> Seq(BOOLEAN)]
    /\ \A c \in Cert : Len(qrCodes[c]) <= MaxQr
    /\ wallet \in [University -> Wallet \union {Null}]
    /\ held \in [University -> SUBSET Wallet]
    /\ req \in [Request -> RequestState]

\* The chain holds a record of c with the hash of the uploaded file.
Anchored(c) ==
    /\ certificates[c].exists
    /\ certificates[c].certificateHash = HashOf[c]

\* A CONFIRMED certificate is on the chain under its UID with the hash of the
\* uploaded file, whatever the hash of the transaction the client quoted and
\* however late the request writes (confirm_blockchain_storage, checks A, B).
ConfirmedIsAnchored ==
    \A c \in Cert : cert[c].status = "CONFIRMED" => Anchored(c)

\* A CONFIRMED certificate was stored by an address that its university had
\* entered as its wallet, however the wallet changed between the transaction, the
\* request that confirms it and its commit (confirm_blockchain_storage, check C;
\* update_wallet_address): nobody else's record is taken for the university's.
ConfirmedByItsIssuer ==
    \A c \in Cert :
        cert[c].status = "CONFIRMED" =>
            certificates[c].issuingUniversity \in held[IssuerOf[c]]

\* The database says REVOKED only of a certificate the contract says is
\* REVOKED (confirm_revocation, step 3).
RevokedIsRevokedOnChain ==
    \A c \in Cert :
        cert[c].status = "REVOKED" =>
            certificates[c].exists /\ certificates[c].status = "REVOKED"

\* is_active and blockchain_status are two columns for one fact, written by
\* different requests: they never disagree about revocation.
InactiveMeansRevoked ==
    \A c \in Cert : cert[c].isActive = FALSE <=> cert[c].status = "REVOKED"

\* Once revoked in the database a certificate stays revoked, even when a
\* confirmation that read it before the revocation writes after it.
RevocationIsFinal ==
    [][\A c \in Cert :
          cert[c].status = "REVOKED" => cert'[c].status = "REVOKED"]_vars

\* A QR code exists only for a certificate that is anchored on the chain, also
\* when the certificate's status fell back after the code was generated.
QrCodesAreAnchored ==
    \A c \in Cert : qrCodes[c] # << >> => Anchored(c)

\* A confirmed certificate, and one with a QR code, has the hash of its storing
\* transaction in the database: the log of a verification copies it, and its
\* check constraint refuses the empty string _get_store_tx_hash returns
\* otherwise, which would turn every scan into an error.
StoringTransactionKnown ==
    \A c \in Cert :
        cert[c].status = "CONFIRMED" \/ qrCodes[c] # << >> => storeTx[c].txHash # Null

\* Generating codes concurrently leaves one active code: every scan of an
\* older code is refused.
OneActiveQr ==
    \A c \in Cert : Cardinality(ActiveQr(c)) <= 1

\* The verdict a request carries from the node to its commit is still true when
\* it commits, whatever the chain and the other requests did in between; and a
\* request that generates a code does so for an anchored certificate, although
\* after a confirmation its session does not look at the status again.
VerdictsHold ==
    \A r \in Request :
        /\ req[r].kind = "confirmStorage" /\ req[r].outcome = "accepted"
              => Anchored(req[r].cert)
        /\ req[r].kind = "generateQr" => Anchored(req[r].cert)
        /\ req[r].kind = "confirmRevocation" /\ req[r].outcome = "accepted"
              => RecordRevoked(req[r])

\* Certificates recorded on the chain by an address of their university.
StoredByIssuer ==
    {c \in Cert : /\ certificates[c].exists
                  /\ certificates[c].issuingUniversity \in held[IssuerOf[c]]}

\* Projection onto the abstract ledger.
LedgerChain ==
    [c \in Cert |->
        [record |-> IF ~ certificates[c].exists THEN "none"
                    ELSE IF Anchored(c) THEN "same" ELSE "other",
         revoked |-> certificates[c].status = "REVOKED"]]

LedgerEntry(status) ==
    CASE status = "ABSENT" -> "absent"
      [] status \in {"PENDING", "SUBMITTED", "FAILED"} -> "open"
      [] status = "CONFIRMED" -> "confirmed"
      [] status = "REVOKED" -> "revoked"

LedgerDb == [c \in Cert |-> LedgerEntry(cert[c].status)]

Ledger == INSTANCE CredentialLedger
    WITH chain <- LedgerChain, owned <- StoredByIssuer, db <- LedgerDb,
         codes <- qrCodes

\* The lifecycle implements the abstract ledger.
ImplementsLedger == Ledger!LedgerSpec

-----------------------------------------------------------------------------
(* What the documentation says and the code does not do.                   *)

\* "the natural lifecycle: PENDING -> SUBMITTED -> CONFIRMED | FAILED"
\* (alembic/versions/015): a confirmed certificate is never unconfirmed.
StatusNeverFallsBack ==
    [][\A c \in Cert :
          cert[c].status = "CONFIRMED" => cert'[c].status \in {"CONFIRMED", "REVOKED"}]_vars

\* "If TX failed (receipt.status == 0): Update blockchain_tx: status=FAILED"
\* (docs/backend.md, section 14.1): once a confirmation that saw a reverted
\* receipt has run its block to the end, the row says FAILED.
RevertIsRecorded ==
    [][\A r \in Request :
          /\ req[r].outcome = "reverted"
          /\ RollbackStorage(r) \/ CommitStorage(r)
          => storeTx'[req[r].cert].status = "FAILED"]_vars
=============================================================================
