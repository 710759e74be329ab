-------------------------- MODULE ConfirmationProofs --------------------------
(***************************************************************************)
(* What a confirmation leaves behind, for any universities, certificates,  *)
(* transaction hashes and any number of concurrent requests: a CONFIRMED   *)
(* certificate was stored by a wallet of its university, and the hash of   *)
(* its storing transaction is in the database.  What is built on such a    *)
(* certificate, and that the lifecycle implements the abstract ledger.     *)
(*                                                                         *)
(* The argument: what a request compared the record with was a wallet of   *)
(* the university when it was read, and what a university has held it has  *)
(* held for ever; a stale confirmation can write an older transaction hash *)
(* but never the absence of one.  Codes and revocations begin with a       *)
(* confirmed certificate and outlive its status, but its record does not   *)
(* change hands.                                                           *)
(***************************************************************************)
EXTENDS CredentialLifecycleProofs

USE LifecycleAssumption

-----------------------------------------------------------------------------
(* The invariant.                                                          *)

\* Certificates whose storing transaction the database knows.
StoreHashKnown == {c \in Cert : storeTx[c].txHash # Null}

\* What a request e knows, of the certificates stored by their issuers, those
\* with a transaction hash, and the wallets held so far.
Knows(e, stored, known, wallets) ==
    /\ e.kind = "confirmStorage" =>
          /\ e.txHash \in TxHash
          /\ e.pc = "loaded" => e.seenWallet \in wallets[IssuerOf[e.cert]]
          /\ e.outcome = "accepted" => e.cert \in stored
          /\ e.pc = "queried" /\ e.seenTx.txHash # Null => e.cert \in known
    /\ e.kind = "generateQr" => e.cert \in stored /\ e.cert \in known

RequestsKnow ==
    \A r \in Request : Knows(req[r], StoredByIssuer, StoreHashKnown, held)

WalletsAreHeld == \A u \in University : wallet[u] # Null => wallet[u] \in held[u]

IssuersHaveWallets ==
    \A c \in Cert : cert[c].status # "ABSENT" => wallet[IssuerOf[c]] # Null

CodesBelongToRows ==
    \A c \in Cert : cert[c].status = "ABSENT" => qrCodes[c] = << >>

CustodyInv ==
    /\ WalletsAreHeld
    /\ IssuersHaveWallets
    /\ CodesBelongToRows
    /\ ConfirmedByItsIssuer
    /\ StoringTransactionKnown
    /\ RequestsKnow

-----------------------------------------------------------------------------
(* What the steps do to the rows.                                          *)

\* What a confirmation that commits writes.
LEMMA CommitStorageWrites ==
    ASSUME IInv, NEW r \in Request, CommitStorage(r)
    PROVE  /\ req[r].kind = "confirmStorage" /\ req[r].pc = "queried"
           /\ req[r].cert \in Cert
           /\ cert[req[r].cert].status # "ABSENT"
           /\ cert'[req[r].cert].status = "CONFIRMED" =>
                 \/ cert[req[r].cert].status = "CONFIRMED"
                 \/ req[r].outcome = "accepted"
           /\ storeTx'[req[r].cert].txHash =
                 Written(req[r].txHash, req[r].seenTx.txHash, storeTx[req[r].cert].txHash)
           /\ \A d \in Cert : d # req[r].cert =>
                 cert'[d] = cert[d] /\ storeTx'[d] = storeTx[d]
<1> DEFINE q == req[r]
<1>1. /\ At(r, "confirmStorage", "queried")
      /\ ~ Raises(q.outcome)
      /\ storeTx' = [storeTx EXCEPT ![q.cert] = StorageTxRow(q)]
      /\ cert' = [cert EXCEPT ![q.cert] = StorageCertRow(q)]
  BY DEF CommitStorage
<1>2. q.cert \in Cert /\ cert[q.cert].status # "ABSENT" /\ q.outcome # "none"
  BY <1>1, AtControlPoint DEF IInv
<1>3. q.outcome \in {"notMined", "accepted"}
  <2>1. q.outcome \in Outcome
    BY DEF IInv, TypeOK, RequestState
  <2> QED
    BY <1>1, <1>2, <2>1 DEF Raises, Outcome
<1>4. /\ cert \in [Cert -> CertificateRow] /\ storeTx \in [Cert -> TransactionRow]
      /\ cert'[q.cert] = StorageCertRow(q) /\ storeTx'[q.cert] = StorageTxRow(q)
  BY <1>1, <1>2 DEF IInv, TypeOK
<1>5. cert'[q.cert].status = Written(StorageCertStatus(q), q.seenStatus, cert[q.cert].status)
  BY <1>2, <1>4 DEF StorageCertRow, CertificateRow
<1>6. cert'[q.cert].status = "CONFIRMED" =>
         cert[q.cert].status = "CONFIRMED" \/ q.outcome = "accepted"
  BY <1>3, <1>5 DEF Written, StorageCertStatus
<1>7. storeTx'[q.cert].txHash = Written(q.txHash, q.seenTx.txHash, storeTx[q.cert].txHash)
  BY <1>4 DEF StorageTxRow
<1>8. \A d \in Cert : d # q.cert => cert'[d] = cert[d] /\ storeTx'[d] = storeTx[d]
  BY <1>1, <1>4
<1> QED
  BY <1>1, <1>2, <1>6, <1>7, <1>8 DEF At

\* Only a confirmation that was accepted makes a certificate CONFIRMED.
LEMMA ConfirmedComesFrom ==
    ASSUME IInv, [Next]_vars, NEW c \in Cert, cert'[c].status = "CONFIRMED"
    PROVE  \/ cert[c].status = "CONFIRMED"
           \/ \E r \in Request :
                 CommitStorage(r) /\ req[r].cert = c /\ req[r].outcome = "accepted"
<1>0. cert \in [Cert -> CertificateRow]
  BY DEF IInv, TypeOK
<1>1. ASSUME NEW d \in Cert, UploadCertificate(d)
      PROVE  cert[c].status = "CONFIRMED"
  BY <1>0, <1>1 DEF UploadCertificate, CertificateRow
<1>2. ASSUME NEW r \in Request, CommitStorage(r)
      PROVE  \/ cert[c].status = "CONFIRMED"
             \/ req[r].cert = c /\ req[r].outcome = "accepted"
  BY <1>2, CommitStorageWrites
<1>3. ASSUME NEW r \in Request, CommitRevocation(r)
      PROVE  cert[c].status = "CONFIRMED"
  <2>1. cert' = cert \/ cert' = [cert EXCEPT ![req[r].cert] = RevokedRow(req[r].cert)]
    BY <1>3 DEF CommitRevocation
  <2>2. CASE c = req[r].cert /\ cert' # cert
    <3>1. RevokedRow(c).status = "REVOKED"
      BY <1>0 DEF RevokedRow, CertificateRow
    <3> QED
      BY <1>0, <2>1, <2>2, <3>1
  <2>3. CASE c # req[r].cert \/ cert' = cert
    BY <1>0, <2>1, <2>3
  <2> QED
    BY <2>2, <2>3
<1>4. ASSUME UNCHANGED cert
      PROVE  cert[c].status = "CONFIRMED"
  BY <1>4
<1> QED
  BY <1>1, <1>2, <1>3, <1>4
  DEF Next, vars, dbVars, Chain, OwnerCall, MineStore, MineRevoke, MineReverted,
      MineElsewhere, Mined, UpdateWallet, LoadForConfirmation,
      LoadForRevocationConfirmation, LoadForRevocation, LoadForQr, QueryStorage,
      RollbackStorage, LoadActiveQr, CommitQr, RollbackQr, CommitRevocationRow,
      QueryRevocation, RollbackRevocation, Crash

\* A certificate appears only in its upload.
LEMMA RowsAppearByUpload ==
    ASSUME IInv, [Next]_vars, NEW c \in Cert,
           cert[c].status = "ABSENT", cert'[c].status # "ABSENT"
    PROVE  UploadCertificate(c)
<1>0. cert \in [Cert -> CertificateRow]
  BY DEF IInv, TypeOK
<1>1. ASSUME NEW d \in Cert, UploadCertificate(d)
      PROVE  UploadCertificate(c)
  BY <1>0, <1>1 DEF UploadCertificate
<1>2. ASSUME NEW r \in Request, CommitStorage(r)
      PROVE  FALSE
  BY <1>2, CommitStorageWrites
<1>3. ASSUME NEW r \in Request, CommitRevocation(r)
      PROVE  FALSE
  <2>1. req[r].cert \in Cert /\ cert[req[r].cert].status # "ABSENT"
    BY <1>3, AtControlPoint DEF CommitRevocation, IInv
  <2>2. cert' = cert \/ cert' = [cert EXCEPT ![req[r].cert] = RevokedRow(req[r].cert)]
    BY <1>3 DEF CommitRevocation
  <2> QED
    BY <1>0, <2>1, <2>2
<1>4. ASSUME UNCHANGED cert
      PROVE  FALSE
  BY <1>4
<1> QED
  BY <1>1, <1>2, <1>3, <1>4
  DEF Next, vars, dbVars, Chain, OwnerCall, MineStore, MineRevoke, MineReverted,
      MineElsewhere, Mined, UpdateWallet, LoadForConfirmation,
      LoadForRevocationConfirmation, LoadForRevocation, LoadForQr, QueryStorage,
      RollbackStorage, LoadActiveQr, CommitQr, RollbackQr, CommitRevocationRow,
      QueryRevocation, RollbackRevocation, Crash

-----------------------------------------------------------------------------
(* What is never undone.                                                   *)

\* A university does not forget the wallets it had, and the one it has is one of
\* them.
LEMMA WalletsStep ==
    ASSUME IInv, CustodyInv, [Next]_vars
    PROVE  /\ WalletsAreHeld'
           /\ \A u \in University : held[u] \subseteq held'[u]
           /\ \A u \in University : wallet[u] # Null => wallet'[u] # Null
<1>1. ASSUME NEW u \in University, NEW a \in Wallet, UpdateWallet(u, a)
      PROVE  /\ \A v \in University : wallet'[v] # Null => wallet'[v] \in held'[v]
             /\ \A v \in University : held[v] \subseteq held'[v]
             /\ \A v \in University : wallet[v] # Null => wallet'[v] # Null
  <2>1. /\ wallet' = [wallet EXCEPT ![u] = a]
        /\ held' = [held EXCEPT ![u] = held[u] \union {a}]
        /\ a # Null
    BY <1>1 DEF UpdateWallet
  <2>2. wallet \in [University -> Wallet \union {Null}] /\ held \in [University -> SUBSET Wallet]
    BY DEF IInv, TypeOK
  <2> QED
    BY <2>1, <2>2 DEF CustodyInv, WalletsAreHeld
<1>2. ASSUME UNCHANGED <<wallet, held>>
      PROVE  /\ \A v \in University : wallet'[v] # Null => wallet'[v] \in held'[v]
             /\ \A v \in University : held[v] \subseteq held'[v]
             /\ \A v \in University : wallet[v] # Null => wallet'[v] # Null
  BY <1>2 DEF CustodyInv, WalletsAreHeld
<1>3. \/ \E u \in University, a \in Wallet : UpdateWallet(u, a)
      \/ UNCHANGED <<wallet, held>>
  BY ZenonT(30) DEF Next, vars, dbVars, Chain, OwnerCall, MineStore, MineRevoke, MineReverted,
     MineElsewhere, Mined, UploadCertificate, LoadForConfirmation,
     LoadForRevocationConfirmation, LoadForRevocation, LoadForQr, QueryStorage,
     CommitStorage, RollbackStorage, LoadActiveQr, CommitQr, RollbackQr,
     CommitRevocationRow, QueryRevocation, CommitRevocation, RollbackRevocation, Crash
<1> QED
  BY <1>1, <1>2, <1>3 DEF WalletsAreHeld

\* A record does not change hands.
LEMMA StoredStays ==
    ASSUME IInv, CustodyInv, [Next]_vars
    PROVE  StoredByIssuer \subseteq StoredByIssuer'
<1>1. Contract!TypeOK /\ [Contract!Next]_(Contract!vars)
  BY SameTypes, StepsOfTheContract DEF IInv, TypeOK
<1>2. \A c \in Cert :
         certificates[c].exists /\ certificates'[c] # certificates[c] =>
            /\ certificates'[c].exists
            /\ certificates'[c].issuingUniversity = certificates[c].issuingUniversity
  BY <1>1, ContractAssumption, Contract!RecordSteps
<1>3. \A c \in Cert : held[IssuerOf[c]] \subseteq held'[IssuerOf[c]]
  BY WalletsStep
<1> QED
  BY <1>2, <1>3 DEF StoredByIssuer

\* A confirmation, however stale, leaves a transaction hash.
LEMMA CommitStorageKnows ==
    ASSUME IInv, CustodyInv, NEW r \in Request, CommitStorage(r)
    PROVE  req[r].cert \in StoreHashKnown'
<1>1. Knows(req[r], StoredByIssuer, StoreHashKnown, held)
  BY DEF CustodyInv, RequestsKnow
<1>2. /\ req[r].kind = "confirmStorage" /\ req[r].pc = "queried"
      /\ req[r].cert \in Cert
      /\ storeTx'[req[r].cert].txHash =
            Written(req[r].txHash, req[r].seenTx.txHash, storeTx[req[r].cert].txHash)
  BY CommitStorageWrites
<1>3. req[r].txHash # Null
  BY <1>1, <1>2 DEF Knows
<1>4. CASE req[r].txHash # req[r].seenTx.txHash
  BY <1>2, <1>3, <1>4 DEF Written, StoreHashKnown
<1>5. CASE req[r].txHash = req[r].seenTx.txHash
  <2>1. req[r].cert \in StoreHashKnown
    BY <1>1, <1>2, <1>3, <1>5 DEF Knows
  <2> QED
    BY <1>2, <1>5, <2>1 DEF Written, StoreHashKnown
<1> QED
  BY <1>4, <1>5

\* A transaction hash, once known, is never lost.
LEMMA KnownStays ==
    ASSUME IInv, CustodyInv, [Next]_vars, NEW c \in Cert,
           cert[c].status # "ABSENT", c \in StoreHashKnown
    PROVE  c \in StoreHashKnown'
<1>0. storeTx \in [Cert -> TransactionRow]
  BY DEF IInv, TypeOK
<1>1. ASSUME NEW d \in Cert, UploadCertificate(d)
      PROVE  storeTx'[c].txHash # Null
  BY <1>0, <1>1 DEF UploadCertificate, StoreHashKnown
<1>2. ASSUME NEW r \in Request, CommitStorage(r)
      PROVE  storeTx'[c].txHash # Null
  <2>1. CASE c = req[r].cert
    <3>1. req[r].cert \in StoreHashKnown'
      BY <1>2, CommitStorageKnows
    <3> QED
      BY <2>1, <3>1 DEF StoreHashKnown
  <2>2. CASE c # req[r].cert
    BY <1>2, <2>2, CommitStorageWrites DEF StoreHashKnown
  <2> QED
    BY <2>1, <2>2
<1>3. ASSUME UNCHANGED storeTx
      PROVE  storeTx'[c].txHash # Null
  BY <1>3 DEF StoreHashKnown
<1>4. storeTx'[c].txHash # Null
  BY <1>1, <1>2, <1>3
  DEF Next, vars, dbVars, Chain, OwnerCall, MineStore, MineRevoke, MineReverted,
      MineElsewhere, Mined, UpdateWallet, LoadForConfirmation,
      LoadForRevocationConfirmation, LoadForRevocation, LoadForQr, QueryStorage,
      RollbackStorage, LoadActiveQr, CommitQr, RollbackQr, CommitRevocationRow,
      QueryRevocation, CommitRevocation, RollbackRevocation, Crash
<1> QED
  BY <1>4 DEF StoreHashKnown

-----------------------------------------------------------------------------
(* What requests know.                                                     *)

\* What a request knows it knows for ever.
LEMMA KnowledgeStays ==
    ASSUME IInv, CustodyInv, [Next]_vars, NEW r \in Request
    PROVE  Knows(req[r], StoredByIssuer', StoreHashKnown', held')
<1>1. Knows(req[r], StoredByIssuer, StoreHashKnown, held)
  BY DEF CustodyInv, RequestsKnow
<1>2. CASE req[r] = Idle
  BY <1>2 DEF Knows, Idle
<1>3. CASE req[r] # Idle
  <2>1. req[r].cert \in Cert /\ cert[req[r].cert].status # "ABSENT"
    BY <1>3 DEF IInv, RequestsOK, RequestOK
  <2>2. req[r].cert \in StoreHashKnown => req[r].cert \in StoreHashKnown'
    BY <2>1, KnownStays
  <2>3. req[r].cert \in StoredByIssuer => req[r].cert \in StoredByIssuer'
    BY StoredStays
  <2>4. held[IssuerOf[req[r].cert]] \subseteq held'[IssuerOf[req[r].cert]]
    BY <2>1, WalletsStep
  <2> QED
    BY <1>1, <2>2, <2>3, <2>4 DEF Knows
<1> QED
  BY <1>2, <1>3

\* A request learns only what is so.
LEMMA KnowledgeStep ==
    ASSUME IInv, CustodyInv, [Next]_vars
    PROVE  RequestsKnow'
<1> DEFINE Informed(e) == Knows(e, StoredByIssuer', StoreHashKnown', held')
<1>1. req \in [Request -> RequestState]
  BY DEF IInv, TypeOK
<1>2. \A r \in Request : Informed(req[r])
  BY KnowledgeStays
<1>3. ASSUME \A r \in Request : Informed(req'[r])
      PROVE  RequestsKnow'
  BY <1>3 DEF RequestsKnow
<1>4. ASSUME NEW r \in Request, NEW e, req' = [req EXCEPT ![r] = e], Informed(e)
      PROVE  RequestsKnow'
  <2>1. \A s \in Request : req'[s] = IF s = r THEN e ELSE req[s]
    BY <1>1, <1>4
  <2> HIDE DEF Informed
  <2>2. \A s \in Request : Informed(req'[s])
    BY <1>2, <1>4, <2>1
  <2> QED
    BY <1>3, <2>2
<1>5. ASSUME NEW e, e.kind \notin {"confirmStorage", "generateQr"}
      PROVE  Informed(e)
  BY <1>5 DEF Knows
<1>6. ASSUME NEW r \in Request, Return(r)
      PROVE  RequestsKnow'
  <2>1. Idle.kind = "none"
    BY DEF Idle
  <2> HIDE DEF Informed
  <2> QED
    BY <1>4, <1>5, <1>6, <2>1 DEF Return
<1>7. ASSUME NEW r \in Request, NEW c \in Cert, NEW h \in TxHash,
             LoadForConfirmation(r, c, h)
      PROVE  RequestsKnow'
  <2> DEFINE e == [Idle EXCEPT !.kind = "confirmStorage", !.pc = "loaded",
                               !.cert = c, !.txHash = h,
                               !.seenStatus = cert[c].status,
                               !.seenWallet = wallet[IssuerOf[c]]]
  <2>1. req' = [req EXCEPT ![r] = e]
    BY <1>7 DEF LoadForConfirmation
  <2>2. /\ e.kind = "confirmStorage" /\ e.pc = "loaded" /\ e.outcome = "none"
        /\ e.cert = c /\ e.txHash = h /\ e.seenWallet = wallet[IssuerOf[c]]
    BY DEF Idle
  <2>3. wallet[IssuerOf[c]] \in held[IssuerOf[c]]
    BY <1>7 DEF LoadForConfirmation, CustodyInv, IssuersHaveWallets, WalletsAreHeld
  <2>4. wallet[IssuerOf[c]] \in held'[IssuerOf[c]]
    BY <2>3, WalletsStep
  <2> HIDE DEF e
  <2>5. Informed(e)
    BY <2>2, <2>4 DEF Knows
  <2> HIDE DEF Informed
  <2> QED
    BY <1>4, <2>1, <2>5
<1>8. ASSUME NEW r \in Request, NEW c \in Cert, NEW h \in TxHash,
             LoadForRevocationConfirmation(r, c, h)
      PROVE  RequestsKnow'
  <2> DEFINE e == [Idle EXCEPT !.kind = "confirmRevocation", !.pc = "loaded",
                               !.cert = c, !.txHash = h]
  <2>1. req' = [req EXCEPT ![r] = e]
    BY <1>8 DEF LoadForRevocationConfirmation
  <2>2. e.kind = "confirmRevocation"
    BY DEF Idle
  <2> HIDE DEF e, Informed
  <2> QED
    BY <1>4, <1>5, <2>1, <2>2
<1>9. ASSUME NEW r \in Request, NEW c \in Cert, LoadForRevocation(r, c)
      PROVE  RequestsKnow'
  <2> DEFINE e == [Idle EXCEPT !.kind = "initiateRevocation", !.pc = "loaded",
                               !.cert = c, !.row = Len(revokeTx[c]) + 1]
  <2>1. req' = [req EXCEPT ![r] = e]
    BY <1>9 DEF LoadForRevocation
  <2>2. e.kind = "initiateRevocation"
    BY DEF Idle
  <2> HIDE DEF e, Informed
  <2> QED
    BY <1>4, <1>5, <2>1, <2>2
<1>10. ASSUME NEW r \in Request, NEW c \in Cert, LoadForQr(r, c)
       PROVE  RequestsKnow'
  <2> DEFINE e == [Idle EXCEPT !.kind = "generateQr", !.pc = "loaded", !.cert = c]
  <2>1. req' = [req EXCEPT ![r] = e]
    BY <1>10 DEF LoadForQr
  <2>2. e.kind = "generateQr" /\ e.cert = c
    BY DEF Idle
  <2>3. cert[c].status = "CONFIRMED"
    BY <1>10 DEF LoadForQr, MayHaveQr
  <2>4. c \in StoreHashKnown
    BY <2>3 DEF CustodyInv, StoringTransactionKnown, StoreHashKnown
  <2>5. c \in StoredByIssuer
    BY <2>3 DEF StoredByIssuer, IInv, ConfirmedIsAnchored, Anchored, CustodyInv,
                ConfirmedByItsIssuer
  <2>6. c \in StoreHashKnown' /\ c \in StoredByIssuer'
    BY <2>3, <2>4, <2>5, KnownStays, StoredStays
  <2> HIDE DEF e
  <2>7. Informed(e)
    BY <2>2, <2>6 DEF Knows
  <2> HIDE DEF Informed
  <2> QED
    BY <1>4, <2>1, <2>7
<1>11. ASSUME NEW r \in Request, QueryStorage(r)
       PROVE  RequestsKnow'
  <2>1. PICK outcome \in Outcome :
           /\ StorageOutcome(req[r], outcome)
           /\ req' = [req EXCEPT ![r].pc = "queried",
                                 ![r].seenWallet = Null,
                                 ![r].seenTx = storeTx[req[r].cert],
                                 ![r].outcome = outcome]
    BY <1>11 DEF QueryStorage
  <2> DEFINE c == req[r].cert
             e == [req[r] EXCEPT !.pc = "queried", !.seenWallet = Null,
                                 !.seenTx = storeTx[req[r].cert], !.outcome = outcome]
  <2>2. req' = [req EXCEPT ![r] = e]
    BY <1>1, <2>1
  <2>3. /\ req[r] \in RequestState
        /\ req[r].kind = "confirmStorage" /\ req[r].pc = "loaded"
    BY <1>1, <1>11 DEF QueryStorage, At
  <2>4. c \in Cert /\ cert[c].status # "ABSENT"
    BY <2>3 DEF IInv, RequestsOK, RequestOK, Idle
  <2>5. req[r].txHash \in TxHash /\ req[r].seenWallet \in held[IssuerOf[c]]
    BY <2>3 DEF CustodyInv, RequestsKnow, Knows
  <2>6. req[r].seenWallet # Null
    BY <2>4, <2>5 DEF IInv, TypeOK
  <2>7. outcome = "accepted" => c \in StoredByIssuer
    BY <2>1, <2>4, <2>5, <2>6
    DEF StorageOutcome, RecordMatches, StoredByIssuer, Registry!GetCertificateRecord
  <2>8. outcome = "accepted" => c \in StoredByIssuer'
    BY <2>7, StoredStays
  <2>9. storeTx[c].txHash # Null => c \in StoreHashKnown'
    BY <2>4, KnownStays DEF StoreHashKnown
  <2>10. /\ e.kind = "confirmStorage" /\ e.pc = "queried" /\ e.cert = c
         /\ e.txHash = req[r].txHash /\ e.outcome = outcome /\ e.seenTx = storeTx[c]
    BY <2>3 DEF RequestState
  <2> HIDE DEF e
  <2>11. Informed(e)
    BY <2>5, <2>8, <2>9, <2>10 DEF Knows
  <2> HIDE DEF Informed
  <2> QED
    BY <1>4, <2>2, <2>11
<1>12. ASSUME NEW r \in Request, CommitStorage(r)
       PROVE  RequestsKnow'
  <2> DEFINE e == [Idle EXCEPT !.kind = "generateQr", !.pc = "loaded",
                               !.cert = req[r].cert]
  <2>1. \/ req' = [req EXCEPT ![r] = e] /\ req[r].outcome = "accepted"
        \/ Return(r)
    BY <1>12 DEF CommitStorage, Return
  <2>2. e.kind = "generateQr" /\ e.cert = req[r].cert
    BY DEF Idle
  <2>3. req[r].cert \in StoreHashKnown'
    BY <1>12, CommitStorageKnows
  <2>4. req[r].kind = "confirmStorage"
    BY <1>12, CommitStorageWrites
  <2>5. req[r].outcome = "accepted" => req[r].cert \in StoredByIssuer'
    BY <1>2, <2>4 DEF Knows
  <2> HIDE DEF e
  <2>6. req[r].outcome = "accepted" => Informed(e)
    BY <2>2, <2>3, <2>5 DEF Knows
  <2> HIDE DEF Informed
  <2> QED
    BY <1>4, <1>6, <2>1, <2>6
<1>13. ASSUME NEW r \in Request, LoadActiveQr(r)
       PROVE  RequestsKnow'
  <2> DEFINE active == ActiveQr(req[r].cert)
             i == IF active = {} THEN 0 ELSE CHOOSE j \in active : TRUE
             e == [req[r] EXCEPT !.pc = "queried", !.qr = i]
  <2>1. req' = [req EXCEPT ![r] = e] /\ req[r].kind = "generateQr"
    BY <1>1, <1>13 DEF LoadActiveQr, At
  <2> HIDE DEF i
  <2>2. e.kind = "generateQr" /\ e.cert = req[r].cert
    BY <1>1, <2>1 DEF RequestState
  <2>3. req[r].cert \in StoreHashKnown' /\ req[r].cert \in StoredByIssuer'
    BY <1>2, <2>1 DEF Knows
  <2> HIDE DEF e
  <2>4. Informed(e)
    BY <2>2, <2>3 DEF Knows
  <2> HIDE DEF Informed
  <2> QED
    BY <1>4, <2>1, <2>4
<1>14. ASSUME NEW r \in Request, QueryRevocation(r)
       PROVE  RequestsKnow'
  <2>1. \E e : req' = [req EXCEPT ![r] = e] /\ e.kind = "confirmRevocation"
    <3> DEFINE c == req[r].cert
               i == LatestRevocation(c)
               tx == IF i = 0 THEN NoTransaction ELSE revokeTx[c][i]
    <3>1. PICK outcome \in Outcome :
             req' = [req EXCEPT ![r].pc = "queried", ![r].row = i,
                                ![r].seenTx = tx, ![r].outcome = outcome]
      BY <1>14 DEF QueryRevocation
    <3> HIDE DEF i, tx
    <3> DEFINE e == [req[r] EXCEPT !.pc = "queried", !.row = i, !.seenTx = tx,
                                   !.outcome = outcome]
    <3>2. req' = [req EXCEPT ![r] = e]
      BY <1>1, <3>1
    <3>3. req[r] \in RequestState /\ req[r].kind = "confirmRevocation"
      BY <1>1, <1>14 DEF QueryRevocation, At
    <3>4. e.kind = "confirmRevocation"
      BY <3>3 DEF RequestState
    <3> HIDE DEF e
    <3> QED
      BY <3>2, <3>4
  <2> HIDE DEF Informed
  <2> QED
    BY <1>4, <1>5, <2>1
<1>15. ASSUME NEW r \in Request,
              \/ RollbackStorage(r) \/ CommitQr(r) \/ RollbackQr(r)
              \/ CommitRevocationRow(r) \/ CommitRevocation(r)
              \/ RollbackRevocation(r) \/ Crash(r)
       PROVE  RequestsKnow'
  BY <1>6, <1>15 DEF RollbackStorage, CommitQr, RollbackQr, CommitRevocationRow,
     CommitRevocation, RollbackRevocation, Crash
<1>16. CASE \/ Chain
            \/ \E u \in University, a \in Wallet : UpdateWallet(u, a)
            \/ \E c \in Cert : UploadCertificate(c)
            \/ UNCHANGED vars
  <2>1. UNCHANGED req
    BY <1>16 DEF Chain, OwnerCall, MineStore, MineRevoke, MineReverted, MineElsewhere,
       Mined, UpdateWallet, UploadCertificate, vars
  <2> HIDE DEF Informed
  <2> QED
    BY <1>2, <1>3, <2>1
<1> HIDE DEF Informed
<1> QED
  BY <1>7, <1>8, <1>9, <1>10, <1>11, <1>12, <1>13, <1>14, <1>15, <1>16 DEF Next

-----------------------------------------------------------------------------
(* The invariant holds.                                                    *)

\* Of the empty database.
LEMMA CustodyInit == Init => CustodyInv
<1> SUFFICES ASSUME Init PROVE CustodyInv
  OBVIOUS
<1>1. /\ \A u \in University : wallet[u] = Null
      /\ \A c \in Cert : cert[c].status = "ABSENT" /\ qrCodes[c] = << >>
      /\ \A r \in Request : req[r].kind = "none"
  BY DEF Init, Idle
<1> QED
  BY <1>1 DEF CustodyInv, WalletsAreHeld, IssuersHaveWallets, CodesBelongToRows,
     ConfirmedByItsIssuer, StoringTransactionKnown, RequestsKnow, Knows

\* A code is inserted by a request that generates it for an uploaded certificate
\* whose storing transaction is known.
LEMMA CodesStep ==
    ASSUME IInv, CustodyInv, [Next]_vars, NEW c \in Cert, qrCodes'[c] # << >>
    PROVE  cert[c].status # "ABSENT" /\ c \in StoreHashKnown
<1>1. CASE qrCodes[c] # << >>
  BY <1>1 DEF CustodyInv, CodesBelongToRows, StoringTransactionKnown, StoreHashKnown
<1>2. ASSUME NEW r \in Request, CommitQr(r), qrCodes[c] = << >>
      PROVE  cert[c].status # "ABSENT" /\ c \in StoreHashKnown
  <2>1. c = req[r].cert
    BY <1>2 DEF CommitQr, IInv, TypeOK
  <2>2. cert[req[r].cert].status # "ABSENT"
    BY <1>2, AtControlPoint DEF CommitQr, IInv
  <2>3. req[r].cert \in StoreHashKnown
    BY <1>2 DEF CommitQr, At, CustodyInv, RequestsKnow, Knows
  <2> QED
    BY <2>1, <2>2, <2>3
<1>3. CASE UNCHANGED qrCodes
  BY <1>1, <1>3
<1> QED
  BY <1>1, <1>2, <1>3
  DEF Next, vars, dbVars, Chain, OwnerCall, MineStore, MineRevoke, MineReverted,
      MineElsewhere, Mined, UpdateWallet, UploadCertificate, LoadForConfirmation,
      LoadForRevocationConfirmation, LoadForRevocation, LoadForQr, QueryStorage,
      CommitStorage, RollbackStorage, LoadActiveQr, RollbackQr,
      CommitRevocationRow, QueryRevocation, CommitRevocation, RollbackRevocation, Crash

\* Every step preserves it.
LEMMA CustodyStep == IInv /\ CustodyInv /\ [Next]_vars => CustodyInv'
<1> SUFFICES ASSUME IInv, CustodyInv, [Next]_vars PROVE CustodyInv'
  OBVIOUS
<1>1. IssuersHaveWallets'
  <2> SUFFICES ASSUME NEW c \in Cert, cert'[c].status # "ABSENT"
               PROVE  wallet'[IssuerOf[c]] # Null
    BY DEF IssuersHaveWallets
  <2>1. wallet[IssuerOf[c]] # Null
    <3>1. CASE cert[c].status = "ABSENT"
      BY <3>1, RowsAppearByUpload DEF UploadCertificate
    <3>2. CASE cert[c].status # "ABSENT"
      BY <3>2 DEF CustodyInv, IssuersHaveWallets
    <3> QED
      BY <3>1, <3>2
  <2> QED
    BY <2>1, WalletsStep
<1>2. \A c \in Cert : qrCodes'[c] # << >> => cert[c].status # "ABSENT" /\ c \in StoreHashKnown'
  BY CodesStep, KnownStays
<1>3. CodesBelongToRows'
  BY <1>2, RowsStay DEF CodesBelongToRows, IInv
<1>4. ASSUME NEW c \in Cert, cert'[c].status = "CONFIRMED"
      PROVE  c \in StoredByIssuer' /\ c \in StoreHashKnown'
  <2>1. CASE cert[c].status = "CONFIRMED"
    <3>1. certificates[c].exists /\ certificates[c].issuingUniversity \in held[IssuerOf[c]]
      BY <2>1 DEF IInv, ConfirmedIsAnchored, Anchored, CustodyInv, ConfirmedByItsIssuer
    <3>2. c \in StoredByIssuer
      BY <3>1 DEF StoredByIssuer
    <3>3. c \in StoreHashKnown
      BY <2>1 DEF CustodyInv, StoringTransactionKnown, StoreHashKnown
    <3> QED
      BY <2>1, <3>2, <3>3, StoredStays, KnownStays
  <2>2. ASSUME NEW r \in Request, CommitStorage(r), req[r].cert = c,
               req[r].outcome = "accepted"
        PROVE  c \in StoredByIssuer' /\ c \in StoreHashKnown'
    <3>1. req[r].kind = "confirmStorage"
      BY <2>2, CommitStorageWrites
    <3>2. c \in StoredByIssuer
      BY <2>2, <3>1 DEF CustodyInv, RequestsKnow, Knows
    <3>3. c \in StoreHashKnown'
      BY <2>2, CommitStorageKnows
    <3> QED
      BY <3>2, <3>3, StoredStays
  <2> QED
    BY <1>4, <2>1, <2>2, ConfirmedComesFrom
<1>5. ConfirmedByItsIssuer'
  BY <1>4 DEF ConfirmedByItsIssuer, StoredByIssuer
<1>6. StoringTransactionKnown'
  BY <1>2, <1>4 DEF StoringTransactionKnown, StoreHashKnown
<1> QED
  BY <1>1, <1>3, <1>5, <1>6, WalletsStep, KnowledgeStep DEF CustodyInv

\* In every reachable state.
LEMMA Custody == Spec => []CustodyInv
  BY CustodyInit, CustodyStep, Invariance, PTL DEF Spec

-----------------------------------------------------------------------------
(* Theorems.                                                               *)

\* However its wallet changes while a confirmation is under way, what is taken
\* for a university's certificate was stored by one of its wallets (check C).
THEOREM ConfirmedIssuer == Spec => []ConfirmedByItsIssuer
<1>1. CustodyInv => ConfirmedByItsIssuer
  BY DEF CustodyInv
<1> QED
  BY <1>1, Custody, PTL

\* However many confirmations race, each certificate that may be scanned has the
\* hash of its storing transaction (_get_store_tx_hash never comes up empty).
THEOREM StoringTransaction == Spec => []StoringTransactionKnown
<1>1. CustodyInv => StoringTransactionKnown
  BY DEF CustodyInv
<1> QED
  BY <1>1, Custody, PTL

-----------------------------------------------------------------------------
(* What is built on a certificate.                                         *)

\* Certificates that are confirmed, have a QR code or a row for a revocation.
Announced ==
    {c \in Cert : \/ cert[c].status = "CONFIRMED"
                  \/ qrCodes[c] # << >>
                  \/ revokeTx[c] # << >>}

\* Certificates whose record is the university's own and holds the file's hash.
OwnRecords == {c \in StoredByIssuer : Anchored(c)}

AnnouncedAreOwn == Announced \subseteq OwnRecords

\* Codes and revocations begin with a certificate that is stored by its issuer.
LEMMA BuiltOnOwnRecords ==
    ASSUME IInv, CustodyInv, [Next]_vars, NEW c \in Cert
    PROVE  /\ qrCodes'[c] # << >> => qrCodes[c] # << >> \/ c \in OwnRecords
           /\ revokeTx'[c] # << >> => revokeTx[c] # << >> \/ c \in OwnRecords
<1>0. /\ qrCodes \in [Cert -> Seq(BOOLEAN)]
      /\ revokeTx \in [Cert -> Seq(TransactionRow)]
  BY DEF IInv, TypeOK
<1> DEFINE Same == qrCodes'[c] = qrCodes[c] /\ revokeTx'[c] = revokeTx[c]
<1>1. ASSUME NEW r \in Request, CommitQr(r)
      PROVE  Same \/ (c \in OwnRecords /\ revokeTx'[c] = revokeTx[c])
  <2>1. req[r].cert \in OwnRecords
    BY <1>1 DEF CommitQr, At, CustodyInv, RequestsKnow, Knows, OwnRecords, IInv, VerdictsHold
  <2>2. c # req[r].cert => qrCodes'[c] = qrCodes[c]
    BY <1>0, <1>1 DEF CommitQr
  <2>3. revokeTx' = revokeTx
    BY <1>1 DEF CommitQr
  <2> QED
    BY <2>1, <2>2, <2>3
<1>2. ASSUME NEW r \in Request, NEW d \in Cert, LoadForRevocation(r, d)
      PROVE  Same \/ (c \in OwnRecords /\ qrCodes'[c] = qrCodes[c])
  <2>1. cert[d].status = "CONFIRMED"
    BY <1>2 DEF LoadForRevocation
  <2>2. d \in OwnRecords
    BY <2>1 DEF IInv, ConfirmedIsAnchored, Anchored, CustodyInv, ConfirmedByItsIssuer,
       StoredByIssuer, OwnRecords
  <2>3. c # d => revokeTx'[c] = revokeTx[c]
    BY <1>0, <1>2 DEF LoadForRevocation
  <2>4. qrCodes' = qrCodes
    BY <1>2 DEF LoadForRevocation
  <2> QED
    BY <2>2, <2>3, <2>4
<1>3. ASSUME NEW d, NEW i, NEW row, revokeTx' = [revokeTx EXCEPT ![d][i] = row]
      PROVE  revokeTx[c] = << >> => revokeTx'[c] = << >>
  <2>1. DOMAIN revokeTx'[c] = DOMAIN revokeTx[c]
    BY <1>0, <1>3
  <2>2. revokeTx'[c] = [j \in DOMAIN revokeTx[c] |-> revokeTx'[c][j]]
    BY <1>0, <1>3
  <2>3. ASSUME revokeTx[c] = << >> PROVE revokeTx'[c] = << >>
    BY <2>1, <2>2, <2>3
  <2> QED
    BY <2>3
<1>4. ASSUME NEW r \in Request, CommitRevocationRow(r) \/ CommitRevocation(r)
      PROVE  /\ revokeTx[c] = << >> => revokeTx'[c] = << >>
             /\ qrCodes' = qrCodes
  <2>1. \/ revokeTx' = revokeTx
        \/ \E d, i, row : revokeTx' = [revokeTx EXCEPT ![d][i] = row]
    BY <1>4 DEF CommitRevocationRow, CommitRevocation
  <2>2. qrCodes' = qrCodes
    BY <1>4 DEF CommitRevocationRow, CommitRevocation
  <2> QED
    BY <1>3, <2>1, <2>2
<1>5. CASE UNCHANGED <<qrCodes, revokeTx>>
  BY <1>5
<1> QED
  BY <1>1, <1>2, <1>4, <1>5, ZenonT(60)
  DEF Next, vars, dbVars, Chain, OwnerCall, MineStore, MineRevoke, MineReverted,
      MineElsewhere, Mined, UpdateWallet, UploadCertificate, LoadForConfirmation,
      LoadForRevocationConfirmation, LoadForQr, QueryStorage, CommitStorage,
      RollbackStorage, LoadActiveQr, RollbackQr, QueryRevocation, RollbackRevocation, Crash

\* What the platform has once announced, scans or is about to revoke is on the
\* chain with the uploaded file's hash, written by a wallet of its university,
\* also after its status fell back and whatever became of the wallet.
THEOREM AnnouncedOwn == Spec => []AnnouncedAreOwn
<1>1. Init => AnnouncedAreOwn
  BY DEF Init, AnnouncedAreOwn, Announced
<1>2. IInv /\ IInv' /\ CustodyInv /\ CustodyInv' /\ AnnouncedAreOwn /\ [Next]_vars
      => AnnouncedAreOwn'
  <2> SUFFICES ASSUME IInv, IInv', CustodyInv, CustodyInv', AnnouncedAreOwn, [Next]_vars,
                      NEW c \in Cert, c \in Announced'
               PROVE  c \in OwnRecords'
    BY DEF AnnouncedAreOwn, Announced
  <2>1. c \in OwnRecords => c \in OwnRecords'
    BY ChainGrows, StoredStays DEF OwnRecords, IInv, TypeOK
  <2>2. CASE cert'[c].status = "CONFIRMED"
    BY <2>2 DEF IInv, ConfirmedIsAnchored, Anchored, CustodyInv, ConfirmedByItsIssuer,
       StoredByIssuer, OwnRecords
  <2>3. CASE qrCodes'[c] # << >> \/ revokeTx'[c] # << >>
    BY <2>1, <2>3, BuiltOnOwnRecords DEF AnnouncedAreOwn, Announced
  <2> QED
    BY <2>2, <2>3 DEF Announced
<1> QED
  BY <1>1, <1>2, Invariance, Custody, PTL DEF Spec

\* A change of the record of a certificate that is announced is its revocation,
\* sent by a wallet of its own university that the owner's whitelist still holds.
ChangedByItsIssuerOnly ==
    [][\A c \in Announced :
          certificates'[c] # certificates[c] =>
             \E h \in TxHash, s \in held[IssuerOf[c]] \cap authorizedIssuers :
                MineRevoke(h, s, c)]_vars

\* No other university and no repeated store can touch the record that verifiers
\* are shown (modifiers of storeCertificate and revokeCertificate).
THEOREM OnlyItsIssuerRevokes == Spec => ChangedByItsIssuerOnly
<1>1. IInv /\ AnnouncedAreOwn /\ [Next]_vars =>
      [\A c \in Announced :
          certificates'[c] # certificates[c] =>
             \E h \in TxHash, s \in held[IssuerOf[c]] \cap authorizedIssuers :
                MineRevoke(h, s, c)]_vars
  <2> SUFFICES ASSUME IInv, AnnouncedAreOwn, [Next]_vars, NEW c \in Announced,
                      certificates'[c] # certificates[c]
               PROVE  \E h \in TxHash, s \in held[IssuerOf[c]] \cap authorizedIssuers :
                         MineRevoke(h, s, c)
    OBVIOUS
  <2>1. /\ c \in Cert
        /\ certificates[c].exists
        /\ certificates[c].issuingUniversity \in held[IssuerOf[c]]
    BY DEF AnnouncedAreOwn, Announced, OwnRecords, StoredByIssuer
  <2>2. DOMAIN certificates = Cert
    BY DEF IInv, TypeOK, Registry!TypeOK
  <2>3. ASSUME NEW h \in TxHash, NEW s \in Registry!Sender, NEW d \in Cert,
               NEW hash \in Hash, MineStore(h, s, d, hash)
        PROVE  FALSE
    <3>1. ~ certificates[d].exists
      BY <2>3 DEF MineStore, Registry!StoreCertificate, Registry!CanStore
    <3>2. c # d => certificates'[c] = certificates[c]
      BY <2>1, <2>2, <2>3 DEF MineStore, Registry!StoreCertificate
    <3> QED
      BY <2>1, <3>1, <3>2
  <2>4. ASSUME NEW h \in TxHash, NEW s \in Registry!Sender, NEW d \in Cert,
               MineRevoke(h, s, d)
        PROVE  /\ d = c
               /\ s \in held[IssuerOf[c]] \cap authorizedIssuers
    <3>1. /\ s \in authorizedIssuers
          /\ certificates[d].issuingUniversity = s
      BY <2>4 DEF MineRevoke, Registry!RevokeCertificate, Registry!CanRevoke,
         Registry!OnlyAuthorizedIssuer, Registry!OnlyOriginalIssuer
    <3>2. c # d => certificates'[c] = certificates[c]
      BY <2>1, <2>2, <2>4 DEF MineRevoke, Registry!RevokeCertificate
    <3> QED
      BY <2>1, <3>1, <3>2
  <2>5. \/ certificates' = certificates
        \/ \E h \in TxHash, s \in Registry!Sender, d \in Cert, hash \in Hash :
              MineStore(h, s, d, hash)
        \/ \E h \in TxHash, s \in Registry!Sender, d \in Cert : MineRevoke(h, s, d)
    BY ZenonT(60) DEF Next, vars, chainVars, registryVars, Chain, OwnerCall,
       Registry!AuthorizeIssuer, Registry!DeauthorizeIssuer, Registry!recordVars,
       MineReverted, MineElsewhere, UpdateWallet, UploadCertificate, LoadForConfirmation,
       LoadForRevocationConfirmation, LoadForRevocation, LoadForQr, QueryStorage,
       CommitStorage, RollbackStorage, LoadActiveQr, CommitQr, RollbackQr,
       CommitRevocationRow, QueryRevocation, CommitRevocation, RollbackRevocation, Crash
  <2> QED
    BY <2>3, <2>4, <2>5
<1> QED
  BY <1>1, Invariance, AnnouncedOwn, PTL DEF Spec, ChangedByItsIssuerOnly

-----------------------------------------------------------------------------
(* What is never recorded.                                                 *)

\* No row of any certificate says FAILED.
NothingFailed ==
    \A c \in Cert :
        /\ cert[c].status # "FAILED"
        /\ storeTx[c].status # "FAILED"
        /\ \A i \in 1 .. Len(revokeTx[c]) : revokeTx[c][i].status # "FAILED"

\* A confirmation of storage that commits found no failure.
LEMMA StorageSettles ==
    ASSUME IInv, NothingFailed, NEW r \in Request, CommitStorage(r)
    PROVE  \A c \in Cert : cert'[c].status # "FAILED" /\ storeTx'[c].status # "FAILED"
<1> DEFINE q == req[r]
<1>1. /\ At(r, "confirmStorage", "queried")
      /\ ~ Raises(q.outcome)
      /\ storeTx' = [storeTx EXCEPT ![q.cert] = StorageTxRow(q)]
      /\ cert' = [cert EXCEPT ![q.cert] = StorageCertRow(q)]
  BY DEF CommitStorage
<1>2. q.cert \in Cert /\ q.outcome # "none"
  BY <1>1, AtControlPoint DEF IInv
<1>3. q.outcome \in {"notMined", "accepted"}
  <2>1. q.outcome \in Outcome
    BY DEF IInv, TypeOK, RequestState
  <2> QED
    BY <1>1, <1>2, <2>1 DEF Raises, Outcome
<1>4. /\ cert \in [Cert -> CertificateRow] /\ storeTx \in [Cert -> TransactionRow]
      /\ cert'[q.cert] = StorageCertRow(q) /\ storeTx'[q.cert] = StorageTxRow(q)
      /\ \A c \in Cert : c # q.cert => cert'[c] = cert[c] /\ storeTx'[c] = storeTx[c]
  BY <1>1, <1>2 DEF IInv, TypeOK
<1>5. cert'[q.cert].status = Written(StorageCertStatus(q), q.seenStatus, cert[q.cert].status)
  BY <1>2, <1>4 DEF StorageCertRow, CertificateRow
<1>6. storeTx'[q.cert].status =
         Written(StorageTxStatus(q), q.seenTx.status, storeTx[q.cert].status)
  BY <1>4 DEF StorageTxRow
<1>7. StorageCertStatus(q) # "FAILED" /\ StorageTxStatus(q) # "FAILED"
  BY <1>3 DEF StorageCertStatus, StorageTxStatus
<1>8. cert'[q.cert].status # "FAILED" /\ storeTx'[q.cert].status # "FAILED"
  BY <1>2, <1>5, <1>6, <1>7 DEF NothingFailed, Written
<1> QED
  BY <1>4, <1>8 DEF NothingFailed

\* Nor did a confirmation of a revocation that commits.
LEMMA RevocationSettles ==
    ASSUME IInv, NothingFailed, NEW r \in Request, CommitRevocation(r)
    PROVE  /\ \A c \in Cert : cert'[c].status # "FAILED"
           /\ \A c \in Cert : \A i \in 1 .. Len(revokeTx'[c]) :
                 revokeTx'[c][i].status # "FAILED"
<1> DEFINE q == req[r]
<1>1. /\ At(r, "confirmRevocation", "queried")
      /\ ~ Raises(q.outcome)
      /\ revokeTx' = IF q.row = 0 THEN revokeTx
                     ELSE [revokeTx EXCEPT ![q.cert][q.row] = RevocationTxRow(q)]
      /\ cert' = IF q.outcome = "accepted"
                 THEN [cert EXCEPT ![q.cert] = RevokedRow(q.cert)] ELSE cert
  BY DEF CommitRevocation
<1>2. q.cert \in Cert /\ q.outcome # "none"
  BY <1>1, AtControlPoint DEF IInv
<1>3. q.outcome \in {"notMined", "accepted"}
  <2>1. q.outcome \in Outcome
    BY DEF IInv, TypeOK, RequestState
  <2> QED
    BY <1>1, <1>2, <2>1 DEF Raises, Outcome
<1>4. /\ cert \in [Cert -> CertificateRow]
      /\ revokeTx \in [Cert -> Seq(TransactionRow)]
  BY DEF IInv, TypeOK
<1>5. \A c \in Cert : cert'[c].status # "FAILED"
  <2>1. RevokedRow(q.cert).status = "REVOKED"
    BY <1>2, <1>4 DEF RevokedRow, CertificateRow
  <2> QED
    BY <1>1, <1>2, <1>4, <2>1 DEF NothingFailed
<1>6. CASE q.row = 0
  BY <1>1, <1>5, <1>6 DEF NothingFailed
<1>7. CASE q.row # 0
  <2> DEFINE old == revokeTx[q.cert]
             new == [old EXCEPT ![q.row] = RevocationTxRow(q)]
  <2>1. revokeTx' = [revokeTx EXCEPT ![q.cert] = new]
    BY <1>1, <1>7
  <2>2. old \in Seq(TransactionRow) /\ DOMAIN old = 1 .. Len(old)
    BY <1>2, <1>4, LenProperties
  <2>3. RevocationTxStatus(q) # "FAILED"
    BY <1>3 DEF RevocationTxStatus
  <2>4. ASSUME q.row \in 1 .. Len(old)
        PROVE  RevocationTxRow(q).status # "FAILED"
    BY <1>2, <2>3, <2>4 DEF RevocationTxRow, Written, NothingFailed
  <2>5. Len(new) = Len(old)
    BY <2>2
  <2>6. \A i \in 1 .. Len(old) : new[i] = IF i = q.row THEN RevocationTxRow(q) ELSE old[i]
    BY <2>2
  <2> HIDE DEF new
  <2>7. \A i \in 1 .. Len(new) : new[i].status # "FAILED"
    BY <1>2, <2>4, <2>5, <2>6 DEF NothingFailed
  <2>8. \A c \in Cert : revokeTx'[c] = IF c = q.cert THEN new ELSE revokeTx[c]
    BY <1>2, <1>4, <2>1
  <2> QED
    BY <1>5, <2>7, <2>8 DEF NothingFailed
<1> QED
  BY <1>6, <1>7

\* A step of initiate_revocation records no failure either.
LEMMA InitiationSettles ==
    ASSUME IInv, NothingFailed,
           \/ \E r \in Request, c \in Cert : LoadForRevocation(r, c)
           \/ \E r \in Request : CommitRevocationRow(r)
    PROVE  \A c \in Cert : \A i \in 1 .. Len(revokeTx'[c]) :
              revokeTx'[c][i].status # "FAILED"
<1>0. revokeTx \in [Cert -> Seq(TransactionRow)]
  BY DEF IInv, TypeOK
<1>1. ASSUME NEW r \in Request, NEW d \in Cert, LoadForRevocation(r, d),
             NEW c \in Cert, NEW i \in 1 .. Len(revokeTx'[c])
      PROVE  revokeTx'[c][i].status # "FAILED"
  <2>1. revokeTx' = [revokeTx EXCEPT ![d] = Append(revokeTx[d], NoTransaction)]
    BY <1>1 DEF LoadForRevocation
  <2>2. CASE c # d
    BY <1>0, <2>1, <2>2, <1>1 DEF NothingFailed
  <2>3. CASE c = d
    <3>1. revokeTx'[c] = Append(revokeTx[c], NoTransaction)
      BY <1>0, <2>1, <2>3
    <3>2. NoTransaction \in TransactionRow /\ NoTransaction.status = "NONE"
      BY DEF NoTransaction, TransactionRow, TransactionStatus
    <3>3. /\ revokeTx[c] \in Seq(TransactionRow) /\ Len(revokeTx[c]) \in Nat
          /\ Len(revokeTx'[c]) = Len(revokeTx[c]) + 1
          /\ revokeTx'[c][Len(revokeTx[c]) + 1] = NoTransaction
          /\ \A j \in 1 .. Len(revokeTx[c]) : revokeTx'[c][j] = revokeTx[c][j]
      BY <1>0, <3>1, <3>2, AppendProperties, LenProperties
    <3>4. i \in 1 .. Len(revokeTx[c]) \/ i = Len(revokeTx[c]) + 1
      BY <1>1, <3>3
    <3> QED
      BY <3>2, <3>3, <3>4 DEF NothingFailed
  <2> QED
    BY <2>2, <2>3
<1>2. ASSUME NEW r \in Request, CommitRevocationRow(r),
             NEW c \in Cert, NEW i \in 1 .. Len(revokeTx'[c])
      PROVE  revokeTx'[c][i].status # "FAILED"
  <2> DEFINE d == req[r].cert
             row == [revokeTx[d][req[r].row] EXCEPT !.status = "PENDING"]
             rows == [revokeTx[d] EXCEPT ![req[r].row] = row]
  <2>1. revokeTx' = [revokeTx EXCEPT ![d] = rows]
    BY <1>2 DEF CommitRevocationRow
  <2>2. CASE c # d
    BY <1>0, <2>1, <2>2, <1>2 DEF NothingFailed
  <2>3. CASE c = d
    <3>1. revokeTx'[c] = rows
      BY <1>0, <2>1, <2>3
    <3>2. /\ revokeTx[c] \in Seq(TransactionRow)
          /\ DOMAIN revokeTx[c] = 1 .. Len(revokeTx[c])
      BY <1>0, LenProperties
    <3>3. /\ Len(rows) = Len(revokeTx[c])
          /\ \A j \in 1 .. Len(revokeTx[c]) :
                rows[j] = IF j = req[r].row THEN row ELSE revokeTx[c][j]
      <4> HIDE DEF row
      <4> QED
        BY <2>3, <3>2
    <3>4. ASSUME req[r].row \in 1 .. Len(revokeTx[c])
          PROVE  row.status = "PENDING"
      <4>1. revokeTx[c][req[r].row] \in TransactionRow
        BY <3>2, <3>4, ElementOfSeq
      <4> QED
        BY <2>3, <4>1 DEF TransactionRow
    <3> HIDE DEF rows, row
    <3> QED
      BY <1>2, <3>1, <3>3, <3>4 DEF NothingFailed
  <2> QED
    BY <2>2, <2>3
<1> QED
  BY <1>1, <1>2

\* FAILED is a status of the enumerations and of the documentation, and of two
\* branches of the code, but of no reachable database: the blocks that assign it
\* raise before they commit, and a rolled back block leaves the row as it was.
THEOREM FailureIsNeverRecorded == Spec => []NothingFailed
<1>1. Init => NothingFailed
  BY DEF Init, NothingFailed, NoTransaction
<1>2. IInv /\ NothingFailed /\ [Next]_vars => NothingFailed'
  <2> SUFFICES ASSUME IInv, NothingFailed, [Next]_vars PROVE NothingFailed'
    OBVIOUS
  <2>1. ASSUME NEW d \in Cert, UploadCertificate(d)
        PROVE  NothingFailed'
    <3>1. /\ cert' = [cert EXCEPT ![d].status = "PENDING"]
          /\ storeTx' = [storeTx EXCEPT ![d] = [status |-> "PENDING", txHash |-> Null]]
          /\ revokeTx' = revokeTx
      BY <2>1 DEF UploadCertificate
    <3>2. cert \in [Cert -> CertificateRow] /\ storeTx \in [Cert -> TransactionRow]
      BY DEF IInv, TypeOK
    <3>3. \A c \in Cert : cert'[c].status # "FAILED"
      BY <3>1, <3>2 DEF NothingFailed, CertificateRow
    <3>4. \A c \in Cert : storeTx'[c].status # "FAILED"
      BY <3>1, <3>2 DEF NothingFailed
    <3> QED
      BY <3>1, <3>3, <3>4 DEF NothingFailed
  <2>2. ASSUME NEW r \in Request, CommitStorage(r)
        PROVE  NothingFailed'
    <3>1. revokeTx' = revokeTx
      BY <2>2 DEF CommitStorage
    <3> QED
      BY <2>2, <3>1, StorageSettles DEF NothingFailed
  <2>3. ASSUME NEW r \in Request, CommitRevocation(r)
        PROVE  NothingFailed'
    <3>1. storeTx' = storeTx
      BY <2>3 DEF CommitRevocation
    <3> QED
      BY <2>3, <3>1, RevocationSettles DEF NothingFailed
  <2>4. CASE \/ \E r \in Request, c \in Cert : LoadForRevocation(r, c)
             \/ \E r \in Request : CommitRevocationRow(r)
    <3>1. cert' = cert /\ storeTx' = storeTx
      BY <2>4 DEF LoadForRevocation, CommitRevocationRow
    <3> QED
      BY <2>4, <3>1, InitiationSettles DEF NothingFailed
  <2>5. CASE UNCHANGED <<cert, storeTx, revokeTx>>
    BY <2>5, ZenonT(30) DEF NothingFailed
  <2> QED
    BY <2>1, <2>2, <2>3, <2>4, <2>5, ZenonT(60)
    DEF Next, vars, dbVars, Chain, OwnerCall, MineStore, MineRevoke, MineReverted,
        MineElsewhere, Mined, UpdateWallet, LoadForConfirmation,
        LoadForRevocationConfirmation, LoadForQr, QueryStorage, RollbackStorage,
        LoadActiveQr, CommitQr, RollbackQr, QueryRevocation, RollbackRevocation, Crash
<1> QED
  BY <1>1, <1>2, Invariance, PTL DEF Spec

-----------------------------------------------------------------------------
(* The lifecycle implements the ledger.                                    *)

ChainEntry == [record : {"none", "same", "other"}, revoked : BOOLEAN]

\* One field of one entry of the ledger's chain is written.
LEMMA ChangedField ==
    ASSUME NEW f \in [Cert -> ChainEntry], NEW g \in [Cert -> ChainEntry], NEW c \in Cert,
           \A d \in Cert : d # c => g[d] = f[d]
    PROVE  /\ g[c].revoked = f[c].revoked => g = [f EXCEPT ![c].record = g[c].record]
           /\ g[c].record = f[c].record => g = [f EXCEPT ![c].revoked = g[c].revoked]
BY DEF ChainEntry

\* The entries of the ledger's chain, before and after a step.
LEMMA ChainEntries ==
    LedgerChain \in [Cert -> ChainEntry] /\ LedgerChain' \in [Cert -> ChainEntry]
BY DEF LedgerChain, ChainEntry

\* A call of the contract is a step of the ledger's chain.
LEMMA ChainImplements ==
    ASSUME IInv, Chain
    PROVE  [Ledger!LedgerNext]_(Ledger!ledger)
<1>1. UNCHANGED <<cert, qrCodes, held>>
  BY DEF Chain, OwnerCall, MineStore, MineRevoke, MineReverted, MineElsewhere, Mined, dbVars
<1>2. UNCHANGED LedgerDb
  BY <1>1 DEF LedgerDb
<1>3. certificates \in [Cert -> Registry!CertificateRecord]
  BY DEF IInv, TypeOK, Registry!TypeOK
<1>4. ASSUME NEW s, NEW c \in Cert, NEW hash, Registry!StoreCertificate(s, c, hash)
      PROVE  Ledger!LedgerNext
  <2> DEFINE record == IF hash = HashOf[c] THEN "same" ELSE "other"
             new == [certificateHash |-> hash, issuingUniversity |-> s,
                     status |-> "ACTIVE", exists |-> TRUE]
  <2>1. ~ certificates[c].exists /\ certificates[c].status = "ACTIVE"
    BY <1>4 DEF Registry!StoreCertificate, Registry!CanStore, IInv, TypeOK,
                Registry!TypeOK, Registry!EmptyRecord
  <2>2. certificates' = [certificates EXCEPT ![c] = new]
    BY <1>4 DEF Registry!StoreCertificate
  <2>3. LedgerChain[c] = [record |-> "none", revoked |-> FALSE]
    BY <2>1 DEF LedgerChain
  <2>4. LedgerChain'[c] = [record |-> record, revoked |-> FALSE]
    BY <1>3, <2>2 DEF LedgerChain, Anchored
  <2>5. \A d \in Cert : d # c => LedgerChain'[d] = LedgerChain[d]
    BY <1>3, <2>2 DEF LedgerChain, Anchored
  <2>6. LedgerChain' = [LedgerChain EXCEPT ![c].record = record]
    <3>1. /\ LedgerChain'[c].record = record
          /\ LedgerChain'[c].revoked = LedgerChain[c].revoked
      BY <2>3, <2>4
    <3> HIDE DEF record
    <3> QED
      BY <3>1, <2>5, ChainEntries, ChangedField
  <2>7. /\ c \notin StoredByIssuer
        /\ \A d \in Cert : d # c => (d \in StoredByIssuer' <=> d \in StoredByIssuer)
    BY <1>1, <1>3, <2>1, <2>2 DEF StoredByIssuer
  <2>8. StoredByIssuer' \in {StoredByIssuer, StoredByIssuer \union {c}}
    BY <2>7 DEF StoredByIssuer
  <2> HIDE DEF record
  <2>9. record \in {"same", "other"}
    BY DEF record
  <2>10. Ledger!Anchor(c, record)
    BY <1>1, <1>2, <2>3, <2>6, <2>8, <2>9 DEF Ledger!Anchor
  <2> QED
    BY <2>9, <2>10 DEF Ledger!LedgerNext
<1>5. ASSUME NEW s, NEW c \in Cert, Registry!RevokeCertificate(s, c)
      PROVE  Ledger!LedgerNext
  <2>1. certificates[c].exists /\ certificates[c].status = "ACTIVE"
    BY <1>5 DEF Registry!RevokeCertificate, Registry!CanRevoke,
                Registry!CertificateMustExist, Registry!CertificateMustBeActive
  <2>2. certificates' = [certificates EXCEPT ![c].status = "REVOKED"]
    BY <1>5 DEF Registry!RevokeCertificate
  <2>3. LedgerChain[c].record # "none" /\ LedgerChain[c].revoked = FALSE
    BY <2>1 DEF LedgerChain
  <2>4. /\ certificates'[c].exists
        /\ certificates'[c].certificateHash = certificates[c].certificateHash
        /\ certificates'[c].issuingUniversity = certificates[c].issuingUniversity
        /\ certificates'[c].status = "REVOKED"
    BY <1>3, <2>1, <2>2 DEF Registry!CertificateRecord
  <2>5. LedgerChain'[c] = [record |-> LedgerChain[c].record, revoked |-> TRUE]
    BY <2>1, <2>4 DEF LedgerChain, Anchored
  <2>6. \A d \in Cert : d # c => LedgerChain'[d] = LedgerChain[d]
    BY <1>3, <2>2 DEF LedgerChain, Anchored
  <2>7. LedgerChain' = [LedgerChain EXCEPT ![c].revoked = TRUE]
    <3>1. LedgerChain'[c].revoked = TRUE /\ LedgerChain'[c].record = LedgerChain[c].record
      BY <2>5
    <3> QED
      BY <3>1, <2>6, ChainEntries, ChangedField
  <2>8. StoredByIssuer' = StoredByIssuer
    <3>1. \A d \in Cert : d # c => certificates'[d] = certificates[d]
      BY <1>3, <2>2
    <3> QED
      BY <1>1, <2>1, <2>4, <3>1 DEF StoredByIssuer
  <2>9. Ledger!RevokeOnChain(c)
    BY <1>1, <1>2, <2>3, <2>7, <2>8 DEF Ledger!RevokeOnChain
  <2> QED
    BY <2>9 DEF Ledger!LedgerNext
<1>6. ASSUME UNCHANGED certificates
      PROVE  UNCHANGED Ledger!ledger
  BY <1>1, <1>2, <1>6 DEF Ledger!ledger, LedgerChain, Anchored, StoredByIssuer
<1> QED
  BY <1>4, <1>5, <1>6
  DEF Chain, OwnerCall, MineStore, MineRevoke, MineReverted, MineElsewhere,
      registryVars, Registry!AuthorizeIssuer, Registry!DeauthorizeIssuer,
      Registry!recordVars

\* The projection of a step that changes one row.
LEMMA LedgerDbMoves ==
    ASSUME NEW c \in Cert, \A d \in Cert : d # c => cert'[d] = cert[d]
    PROVE  /\ cert'[c].status \in {"PENDING", "SUBMITTED", "FAILED"}
                 => LedgerDb' = [LedgerDb EXCEPT ![c] = "open"]
           /\ cert'[c].status = "CONFIRMED" => LedgerDb' = [LedgerDb EXCEPT ![c] = "confirmed"]
           /\ cert'[c].status = "REVOKED" => LedgerDb' = [LedgerDb EXCEPT ![c] = "revoked"]
<1>1. \A d \in Cert : d # c => LedgerDb'[d] = LedgerDb[d]
  BY DEF LedgerDb
<1>2. /\ cert'[c].status \in {"PENDING", "SUBMITTED", "FAILED"} => LedgerDb'[c] = "open"
      /\ cert'[c].status = "CONFIRMED" => LedgerDb'[c] = "confirmed"
      /\ cert'[c].status = "REVOKED" => LedgerDb'[c] = "revoked"
  BY DEF LedgerDb, LedgerEntry
<1>3. ASSUME NEW x, LedgerDb'[c] = x
      PROVE  LedgerDb' = [LedgerDb EXCEPT ![c] = x]
  <2>1. LedgerDb' = [d \in Cert |-> LedgerDb'[d]] /\ LedgerDb = [d \in Cert |-> LedgerDb[d]]
    BY DEF LedgerDb
  <2> QED
    BY <1>1, <1>3, <2>1
<1> QED
  BY <1>2, <1>3

\* A move of a certificate's row is a step of the ledger's database.
LEMMA CertMovesImplement ==
    ASSUME IInv, CertMoves, UNCHANGED <<certificates, held, qrCodes>>,
           \A c \in Cert : cert'[c].status = "CONFIRMED" => c \in StoredByIssuer'
    PROVE  [Ledger!LedgerNext]_(Ledger!ledger)
<1>1. UNCHANGED <<LedgerChain, StoredByIssuer, qrCodes>>
  BY DEF LedgerChain, Anchored, StoredByIssuer
<1>2. cert \in [Cert -> CertificateRow]
  BY DEF IInv, TypeOK
<1>3. \A c \in Cert : /\ Anchored(c) => LedgerChain[c].record = "same"
                      /\ OnChainRevoked(c) => LedgerChain[c].revoked
  BY DEF LedgerChain, Anchored, OnChainRevoked
<1>4. ASSUME NEW c \in Cert, MakePending(c)
      PROVE  Ledger!LedgerNext
  <2>1. LedgerDb[c] = "absent"
    BY <1>4 DEF MakePending, LedgerDb, LedgerEntry
  <2>2. cert'[c].status = "PENDING" /\ \A d \in Cert : d # c => cert'[d] = cert[d]
    BY <1>2, <1>4 DEF MakePending, CertificateRow
  <2>3. LedgerDb' = [LedgerDb EXCEPT ![c] = "open"]
    BY <2>2, LedgerDbMoves
  <2>4. Ledger!Upload(c)
    BY <1>1, <2>1, <2>3 DEF Ledger!Upload
  <2> QED
    BY <2>4 DEF Ledger!LedgerNext
<1>5. ASSUME NEW c \in Cert, NEW status \in {"PENDING", "SUBMITTED", "CONFIRMED", "FAILED"},
             Settle(c, status)
      PROVE  [Ledger!LedgerNext]_(Ledger!ledger)
  <2>1. cert'[c].status = status /\ \A d \in Cert : d # c => cert'[d] = cert[d]
    BY <1>2, <1>5 DEF Settle, CertificateRow
  <2>2. cert[c].status \in {"PENDING", "SUBMITTED", "CONFIRMED", "FAILED"}
    BY <1>2, <1>5 DEF Settle, CertificateRow, BlockchainStatus
  <2>3. LedgerDb[c] = IF cert[c].status = "CONFIRMED" THEN "confirmed" ELSE "open"
    BY <2>2 DEF LedgerDb, LedgerEntry
  <2>4. LedgerDb' = [LedgerDb EXCEPT ![c] = IF status = "CONFIRMED" THEN "confirmed"
                                            ELSE "open"]
    BY <2>1, LedgerDbMoves
  <2>5. CASE (cert[c].status = "CONFIRMED") = (status = "CONFIRMED")
    <3>1. LedgerDb' = LedgerDb
      BY <2>3, <2>4, <2>5 DEF LedgerDb
    <3> QED
      BY <1>1, <3>1 DEF Ledger!ledger
  <2>6. CASE cert[c].status # "CONFIRMED" /\ status = "CONFIRMED"
    <3>1. c \in StoredByIssuer /\ LedgerChain[c].record = "same"
      BY <1>1, <1>3, <1>5, <2>1, <2>6 DEF Settle
    <3>2. Ledger!Confirm(c)
      BY <1>1, <2>3, <2>4, <2>6, <3>1 DEF Ledger!Confirm
    <3> QED
      BY <3>2 DEF Ledger!LedgerNext
  <2>7. CASE cert[c].status = "CONFIRMED" /\ status # "CONFIRMED"
    <3>1. Ledger!FallBack(c)
      BY <1>1, <2>3, <2>4, <2>7 DEF Ledger!FallBack
    <3> QED
      BY <3>1 DEF Ledger!LedgerNext
  <2> QED
    BY <2>5, <2>6, <2>7
<1>6. ASSUME NEW c \in Cert, MakeRevoked(c)
      PROVE  [Ledger!LedgerNext]_(Ledger!ledger)
  <2>1. /\ cert'[c].status = "REVOKED"
        /\ \A d \in Cert : d # c => cert'[d] = cert[d]
    <3>1. RevokedRow(c).status = "REVOKED"
      BY <1>2 DEF RevokedRow, CertificateRow
    <3> QED
      BY <1>2, <1>6, <3>1 DEF MakeRevoked
  <2>2. LedgerDb' = [LedgerDb EXCEPT ![c] = "revoked"]
    BY <2>1, LedgerDbMoves
  <2>3. CASE cert[c].status = "REVOKED"
    <3>1. LedgerDb[c] = "revoked"
      BY <2>3 DEF LedgerDb, LedgerEntry
    <3>2. LedgerDb' = LedgerDb
      BY <2>2, <3>1 DEF LedgerDb
    <3> QED
      BY <1>1, <3>2 DEF Ledger!ledger
  <2>4. CASE cert[c].status # "REVOKED"
    <3>1. cert[c].status \in {"PENDING", "SUBMITTED", "CONFIRMED", "FAILED"}
      BY <1>2, <1>6, <2>4 DEF MakeRevoked, CertificateRow, BlockchainStatus
    <3>2. LedgerDb[c] \in {"open", "confirmed"}
      BY <3>1 DEF LedgerDb, LedgerEntry
    <3>3. Ledger!RecordRevocation(c)
      BY <1>1, <1>3, <1>6, <2>2, <3>2 DEF MakeRevoked, Ledger!RecordRevocation
    <3> QED
      BY <3>3 DEF Ledger!LedgerNext
  <2> QED
    BY <2>3, <2>4
<1> QED
  BY <1>4, <1>5, <1>6 DEF CertMoves

\* A university that enters an address adopts the records the address wrote.
LEMMA WalletImplements ==
    ASSUME IInv, CustodyInv, [Next]_vars,
           NEW u \in University, NEW address \in Wallet, UpdateWallet(u, address)
    PROVE  [Ledger!LedgerNext]_(Ledger!ledger)
<1>1. UNCHANGED <<certificates, cert, qrCodes>>
  BY DEF UpdateWallet, chainVars, registryVars
<1>2. UNCHANGED <<LedgerChain, LedgerDb, qrCodes>>
  BY <1>1 DEF LedgerChain, LedgerDb, Anchored
<1>3. StoredByIssuer' \in SUBSET Cert
  BY DEF StoredByIssuer
<1>4. \A c \in StoredByIssuer' : LedgerChain[c].record # "none"
  BY <1>1 DEF StoredByIssuer, LedgerChain
<1>5. StoredByIssuer' = StoredByIssuer \union StoredByIssuer'
  BY StoredStays
<1>6. Ledger!Adopt(StoredByIssuer')
  BY <1>2, <1>4, <1>5 DEF Ledger!Adopt
<1> QED
  BY <1>3, <1>6 DEF Ledger!LedgerNext

\* The unique index admits a code only when every other one is inactive, and the
\* request that generates it does so for a certificate its university anchored.
LEMMA QrImplements ==
    ASSUME IInv, CustodyInv, NEW r \in Request, CommitQr(r)
    PROVE  Ledger!LedgerNext
<1> DEFINE c == req[r].cert
           codes == [i \in 1 .. Len(qrCodes[c]) |-> FALSE]
<1>1. /\ At(r, "generateQr", "queried")
      /\ ActiveQr(c) \subseteq {req[r].qr}
      /\ Len(qrCodes[c]) < MaxQr
      /\ qrCodes' = [qrCodes EXCEPT ![c] =
            Append([i \in 1 .. Len(qrCodes[c]) |-> qrCodes[c][i] /\ i # req[r].qr], TRUE)]
      /\ UNCHANGED <<certificates, cert, held>>
  BY DEF CommitQr, QrIndexAllows, chainVars, registryVars
<1>2. c \in Cert /\ cert[c].status # "ABSENT" /\ Anchored(c) /\ c \in StoredByIssuer
  BY <1>1, AtControlPoint DEF At, IInv, VerdictsHold, CustodyInv, RequestsKnow, Knows
<1>3. [i \in 1 .. Len(qrCodes[c]) |-> qrCodes[c][i] /\ i # req[r].qr] = codes
  <2>1. \A i \in 1 .. Len(qrCodes[c]) : (qrCodes[c][i] /\ i # req[r].qr) = FALSE
    BY <1>1 DEF ActiveQr
  <2> QED
    BY <2>1
<1>4. qrCodes' = [qrCodes EXCEPT ![c] = Append(codes, TRUE)]
  BY <1>1, <1>3
<1>5. UNCHANGED <<LedgerChain, StoredByIssuer, LedgerDb>>
  BY <1>1 DEF LedgerChain, StoredByIssuer, LedgerDb, Anchored
<1>6. LedgerChain[c].record = "same"
  BY <1>2 DEF LedgerChain, Anchored
<1>7. LedgerDb[c] # "absent"
  <2>1. cert[c].status \in {"PENDING", "SUBMITTED", "CONFIRMED", "FAILED", "REVOKED"}
    BY <1>2 DEF IInv, TypeOK, CertificateRow, BlockchainStatus
  <2> QED
    BY <1>2, <2>1 DEF LedgerDb, LedgerEntry
<1>8. Ledger!GenerateQr(c)
  BY <1>1, <1>2, <1>4, <1>5, <1>6, <1>7 DEF Ledger!GenerateQr
<1> QED
  BY <1>2, <1>8 DEF Ledger!LedgerNext

\* Every step of the lifecycle is a step of the ledger or a stutter.
LEMMA StepImplements ==
    IInv /\ CustodyInv /\ [Next]_vars => [Ledger!LedgerNext]_(Ledger!ledger)
<1> SUFFICES ASSUME IInv, CustodyInv, [Next]_vars
             PROVE  [Ledger!LedgerNext]_(Ledger!ledger)
  OBVIOUS
<1>1. \/ Chain
      \/ \E u \in University, a \in Wallet : UpdateWallet(u, a)
      \/ \E r \in Request : CommitQr(r)
      \/ UNCHANGED <<certificates, held, qrCodes>>
  BY ZenonT(60) DEF Next, vars, chainVars, registryVars, dbVars, UploadCertificate,
     LoadForConfirmation, LoadForRevocationConfirmation, LoadForRevocation, LoadForQr,
     QueryStorage, CommitStorage, RollbackStorage, LoadActiveQr, RollbackQr,
     CommitRevocationRow, QueryRevocation, CommitRevocation, RollbackRevocation, Crash
<1>2. CASE Chain
  BY <1>2, ChainImplements
<1>3. CASE \E u \in University, a \in Wallet : UpdateWallet(u, a)
  BY <1>3, WalletImplements
<1>4. CASE \E r \in Request : CommitQr(r)
  BY <1>4, QrImplements
<1>5. CASE UNCHANGED <<certificates, held, qrCodes>>
  <2>1. CASE UNCHANGED cert
    BY <1>5, <2>1 DEF Ledger!ledger, LedgerChain, LedgerDb, Anchored, StoredByIssuer
  <2>2. CASE CertMoves
    <3>1. IInv' /\ CustodyInv'
      BY InvariantStep, CustodyStep
    <3>2. \A c \in Cert : cert'[c].status = "CONFIRMED" => c \in StoredByIssuer'
      BY <3>1 DEF IInv, ConfirmedIsAnchored, Anchored, CustodyInv, ConfirmedByItsIssuer,
                  StoredByIssuer
    <3> QED
      BY <1>5, <2>2, <3>2, CertMovesImplement
  <2> QED
    BY <2>1, <2>2, CertSteps
<1> QED
  BY <1>1, <1>2, <1>3, <1>4, <1>5

\* Seen through the projection, two-phase issuance and revocation and the QR codes,
\* with racing, crashing and stale requests and changing wallets, are the abstract
\* ledger: it never announces what the university did not anchor.
THEOREM LifecycleImplementsLedger == Spec => ImplementsLedger
<1>1. Init => Ledger!LedgerInit
  <2> SUFFICES ASSUME Init PROVE Ledger!LedgerInit
    OBVIOUS
  <2>1. \A c \in Cert : /\ certificates[c].exists = FALSE
                        /\ certificates[c].status = "ACTIVE"
                        /\ cert[c].status = "ABSENT"
    BY DEF Init, Registry!Init, Registry!EmptyRecord
  <2>2. LedgerChain = [c \in Cert |-> [record |-> "none", revoked |-> FALSE]]
    BY <2>1 DEF LedgerChain
  <2>3. LedgerDb = [c \in Cert |-> "absent"]
    BY <2>1 DEF LedgerDb, LedgerEntry
  <2>4. StoredByIssuer = {} /\ qrCodes = [c \in Cert |-> << >>]
    BY <2>1 DEF StoredByIssuer, Init
  <2> QED
    BY <2>2, <2>3, <2>4 DEF Ledger!LedgerInit
<1>2. IInv /\ CustodyInv /\ [Next]_vars => [Ledger!LedgerStep]_(Ledger!ledger)
  BY StepImplements DEF Ledger!LedgerStep
<1> QED
  BY <1>1, <1>2, Invariance, Custody, PTL
  DEF Spec, ImplementsLedger, Ledger!LedgerSpec
=============================================================================
