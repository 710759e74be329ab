---------------------- MODULE CredentialLifecycleProofs ----------------------
(***************************************************************************)
(* Theorems about the two ledgers, for any universities, certificates,     *)
(* transaction hashes and any number of concurrent requests.               *)
(*                                                                         *)
(* The argument: the chain only grows (proved of the contract, and every   *)
(* step of the lifecycle is a call of the contract or leaves it alone), so *)
(* a verdict a request took from the chain is still true when it commits,  *)
(* however much later; hence what it writes is backed by the chain.        *)
(***************************************************************************)
EXTENDS CredentialLifecycle, FiniteSetTheorems, SequenceTheorems,
        WellFoundedInduction, TLAPS

USE LifecycleAssumption

-----------------------------------------------------------------------------
(* The contract inside the lifecycle.                                      *)

Contract == INSTANCE CertificateRegistryProofs WITH Uid <- Cert

\* The lifecycle's constants satisfy what the contract assumes of its own.
LEMMA ContractAssumption == Contract!RegistryAssumption
  BY DEF Contract!RegistryAssumption, UidLength

\* The two instances of the contract say the same of its storage.
LEMMA SameTypes == Registry!TypeOK <=> Contract!TypeOK
  BY DEF Registry!TypeOK, Contract!TypeOK, Registry!Sender, Contract!Sender,
         Registry!CertificateRecord, Contract!CertificateRecord,
         Registry!CertificateStatus, Contract!CertificateStatus,
         Registry!EmptyRecord, Contract!EmptyRecord,
         Registry!ValidCertHash, Contract!ValidCertHash,
         Registry!ValidCertUid, Contract!ValidCertUid

\* The same of the next state.
LEMMA SameTypesPrimed == Registry!TypeOK' <=> Contract!TypeOK'
  BY SameTypes, PTL

\* Every step of the lifecycle is a call of the contract or leaves it alone.
LEMMA StepsOfTheContract ==
    ASSUME Registry!TypeOK, [Next]_vars
    PROVE  [Contract!Next]_(Contract!vars)
<1>1. CASE UNCHANGED registryVars
  BY <1>1 DEF registryVars, Contract!vars, Contract!recordVars
<1>2. ASSUME NEW a \in Address, OwnerCall(a)
      PROVE  Contract!Next
  <2>1. owner \in Contract!Sender
    BY DEF Registry!TypeOK, Registry!Sender, Contract!Sender
  <2>2. Contract!AuthorizeIssuer(owner, a) \/ Contract!DeauthorizeIssuer(owner, a)
    BY <1>2 DEF OwnerCall, Registry!AuthorizeIssuer, Contract!AuthorizeIssuer,
       Registry!DeauthorizeIssuer, Contract!DeauthorizeIssuer,
       Registry!OnlyOwner, Contract!OnlyOwner,
       Registry!MayBecomeIssuer, Contract!MayBecomeIssuer,
       Registry!recordVars, Contract!recordVars
  <2> QED
    BY <2>1, <2>2 DEF Contract!Next
<1>3. ASSUME NEW h \in TxHash, NEW s \in Registry!Sender, NEW c \in Cert,
             NEW hash \in Hash, MineStore(h, s, c, hash)
      PROVE  Contract!Next
  <2>1. s \in Contract!Sender
    BY DEF Registry!Sender, Contract!Sender
  <2>2. Contract!StoreCertificate(s, c, hash)
    BY <1>3 DEF MineStore, Registry!StoreCertificate, Contract!StoreCertificate,
       Registry!CanStore, Contract!CanStore,
       Registry!OnlyAuthorizedIssuer, Contract!OnlyAuthorizedIssuer,
       Registry!ValidCertUid, Contract!ValidCertUid,
       Registry!ValidCertHash, Contract!ValidCertHash
  <2> QED
    BY <2>1, <2>2 DEF Contract!Next
<1>4. ASSUME NEW h \in TxHash, NEW s \in Registry!Sender, NEW c \in Cert,
             MineRevoke(h, s, c)
      PROVE  Contract!Next
  <2>1. s \in Contract!Sender
    BY DEF Registry!Sender, Contract!Sender
  <2>2. Contract!RevokeCertificate(s, c)
    BY <1>4 DEF MineRevoke, Registry!RevokeCertificate, Contract!RevokeCertificate,
       Registry!CanRevoke, Contract!CanRevoke,
       Registry!OnlyAuthorizedIssuer, Contract!OnlyAuthorizedIssuer,
       Registry!CertificateMustExist, Contract!CertificateMustExist,
       Registry!CertificateMustBeActive, Contract!CertificateMustBeActive,
       Registry!OnlyOriginalIssuer, Contract!OnlyOriginalIssuer
  <2> QED
    BY <2>1, <2>2 DEF Contract!Next
<1>5. Chain \/ UNCHANGED registryVars
  BY DEF Next, vars, chainVars, UpdateWallet, UploadCertificate,
     LoadForConfirmation, LoadForRevocationConfirmation, LoadForRevocation, LoadForQr,
     QueryStorage, CommitStorage, RollbackStorage, LoadActiveQr, CommitQr, RollbackQr,
     CommitRevocationRow, QueryRevocation, CommitRevocation, RollbackRevocation, Crash
<1> QED
  BY <1>1, <1>2, <1>3, <1>4, <1>5 DEF Chain, MineReverted, MineElsewhere

OnChainRevoked(c) == certificates[c].exists /\ certificates[c].status = "REVOKED"

\* The chain only grows: what it backs once it backs for ever.
LEMMA ChainGrows ==
    ASSUME Registry!TypeOK, [Next]_vars, NEW c \in Cert
    PROVE  /\ Anchored(c) => Anchored(c)'
           /\ OnChainRevoked(c) => OnChainRevoked(c)'
<1>1. Contract!TypeOK /\ [Contract!Next]_(Contract!vars)
  BY SameTypes, StepsOfTheContract
<1>2. certificates[c].exists /\ certificates'[c] # certificates[c]
      => /\ certificates[c].status = "ACTIVE"
         /\ certificates'[c].exists
         /\ certificates'[c].certificateHash = certificates[c].certificateHash
  BY <1>1, ContractAssumption, Contract!RecordSteps
<1> QED
  BY <1>2 DEF Anchored, OnChainRevoked

\* The contract's storage stays well typed under the lifecycle's steps.
LEMMA ContractTypes ==
    ASSUME Registry!TypeOK, [Next]_vars
    PROVE  Registry!TypeOK'
  BY SameTypes, SameTypesPrimed, StepsOfTheContract, ContractAssumption, Contract!TypeStep

-----------------------------------------------------------------------------
(* Types.                                                                  *)

\* Updating one place of a sequence, or a place it does not have.
LEMMA UpdatedSeq ==
    \A S, s, i, e :
       s \in Seq(S) /\ (i \in 1 .. Len(s) => e \in S)
       => [s EXCEPT ![i] = e] \in Seq(S) /\ Len([s EXCEPT ![i] = e]) = Len(s)
<1> SUFFICES ASSUME NEW S, NEW s \in Seq(S), NEW i, NEW e, i \in 1 .. Len(s) => e \in S
             PROVE  [s EXCEPT ![i] = e] \in Seq(S) /\ Len([s EXCEPT ![i] = e]) = Len(s)
  OBVIOUS
<1>1. CASE i \in 1 .. Len(s)
  BY <1>1, ExceptSeq
<1>2. CASE i \notin 1 .. Len(s)
  <2>1. s \in [1 .. Len(s) -> S] /\ DOMAIN s = 1 .. Len(s)
    BY LenProperties
  <2>2. [s EXCEPT ![i] = e] = s
    BY <1>2, <2>1
  <2> QED
    BY <2>2
<1> QED
  BY <1>1, <1>2

\* Appending leaves the places a sequence had alone.
LEMMA AppendKeeps ==
    \A S, s, e : s \in Seq(S) /\ e \in S
                   => \A i \in 1 .. Len(s) : Append(s, e)[i] = s[i]
  BY AppendProperties

\* A free slot is a request.
LEMMA IdleType == Idle \in RequestState
  BY DEF Idle, RequestState, BlockchainStatus, TransactionRow, TransactionStatus,
         NoTransaction, Outcome

\* The empty database over the deployed contract is well typed.
LEMMA TypeInit == Init => TypeOK
<1> SUFFICES ASSUME Init PROVE TypeOK
  OBVIOUS
<1>1. Registry!TypeOK
  BY DEF Init, Registry!Init, Registry!TypeOK, Registry!EmptyRecord, Registry!Sender,
     Registry!CertificateRecord, Registry!CertificateStatus
<1>2. << >> \in Seq(TransactionRow) /\ << >> \in Seq(BOOLEAN) /\ Len(<< >>) = 0
  BY EmptySeq
<1> QED
  BY <1>1, <1>2, IdleType DEF Init, TypeOK, CertificateRow, BlockchainStatus,
     TransactionRow, TransactionStatus, NoTransaction

\* The columns of the certificate and its STORE_HASH row after a confirmation.
LEMMA StorageRowTypes ==
    ASSUME TypeOK, NEW r \in Request, At(r, "confirmStorage", "queried"),
           ~ Raises(req[r].outcome), req[r].outcome # "none",
           req[r].cert \in Cert
    PROVE  /\ StorageTxRow(req[r]) \in TransactionRow
           /\ StorageCertRow(req[r]) \in CertificateRow
<1> DEFINE q == req[r]
<1>1. q \in RequestState /\ storeTx[q.cert] \in TransactionRow /\ cert[q.cert] \in CertificateRow
  BY DEF TypeOK
<1>2. q.outcome \in {"notMined", "accepted"}
  BY <1>1 DEF Raises, RequestState, Outcome
<1>3. StorageTxStatus(q) \in TransactionStatus /\ StorageCertStatus(q) \in BlockchainStatus
  BY <1>2 DEF StorageTxStatus, StorageCertStatus, TransactionStatus, BlockchainStatus
<1> HIDE DEF q
<1>4. /\ Written(StorageTxStatus(q), q.seenTx.status, storeTx[q.cert].status) \in TransactionStatus
      /\ Written(q.txHash, q.seenTx.txHash, storeTx[q.cert].txHash) \in TxHash \union {Null}
      /\ Written(StorageCertStatus(q), q.seenStatus, cert[q.cert].status) \in BlockchainStatus
  BY <1>1, <1>3 DEF Written, TransactionRow, CertificateRow, RequestState
<1>5. StorageTxRow(q) \in TransactionRow
  BY <1>4 DEF StorageTxRow, TransactionRow
<1>6. StorageCertRow(q) \in CertificateRow
  BY <1>1, <1>4 DEF StorageCertRow, CertificateRow
<1> QED
  BY <1>5, <1>6 DEF q

\* The columns of the REVOKE_HASH row after a confirmation.
LEMMA RevocationRowType ==
    ASSUME TypeOK, NEW r \in Request, At(r, "confirmRevocation", "queried"),
           ~ Raises(req[r].outcome), req[r].outcome # "none",
           req[r].cert \in Cert, req[r].row \in 1 .. Len(revokeTx[req[r].cert])
    PROVE  RevocationTxRow(req[r]) \in TransactionRow
<1> DEFINE q == req[r]
<1>1. q \in RequestState /\ revokeTx[q.cert][q.row] \in TransactionRow
  BY ElementOfSeq DEF TypeOK
<1>2. q.outcome \in {"notMined", "accepted"}
  BY <1>1 DEF Raises, RequestState, Outcome
<1>3. RevocationTxStatus(q) \in TransactionStatus
  BY <1>2 DEF RevocationTxStatus, TransactionStatus
<1> HIDE DEF q
<1>4. /\ Written(RevocationTxStatus(q), q.seenTx.status, revokeTx[q.cert][q.row].status)
            \in TransactionStatus
      /\ Written(q.txHash, q.seenTx.txHash, revokeTx[q.cert][q.row].txHash)
            \in TxHash \union {Null}
  BY <1>1, <1>3 DEF Written, TransactionRow, RequestState
<1>5. RevocationTxRow(q) \in TransactionRow
  BY <1>4 DEF RevocationTxRow, TransactionRow
<1> QED
  BY <1>5 DEF q

\* What a request in progress stands for: it looked up a certificate that the
\* database had, confirmations began from an open status, and a request that
\* has called the node holds an answer.
RequestOK(r) ==
    \/ req[r] = Idle
    \/ /\ req[r].kind \in {"confirmStorage", "initiateRevocation",
                           "confirmRevocation", "generateQr"}
       /\ req[r].cert \in Cert
       /\ cert[req[r].cert].status # "ABSENT"
       /\ req[r].kind = "confirmStorage" => req[r].seenStatus \in {"PENDING", "SUBMITTED"}
       /\ req[r].kind \in {"confirmStorage", "confirmRevocation"} /\ req[r].pc = "queried"
             => req[r].outcome # "none"

RequestsOK == \A r \in Request : RequestOK(r)

\* At each control point: the request is on a certificate and has its answer.
LEMMA AtControlPoint ==
    ASSUME RequestsOK, NEW r \in Request, NEW kind, NEW pc,
           At(r, kind, pc), kind # "none"
    PROVE  /\ req[r].cert \in Cert
           /\ cert[req[r].cert].status # "ABSENT"
           /\ kind = "confirmStorage" => req[r].seenStatus \in {"PENDING", "SUBMITTED"}
           /\ kind \in {"confirmStorage", "confirmRevocation"} /\ pc = "queried"
                 => req[r].outcome # "none"
  BY DEF RequestsOK, RequestOK, At, Idle

\* A certificate the database has never disappears.
LEMMA RowsStay ==
    ASSUME TypeOK, RequestsOK, [Next]_vars, NEW c \in Cert, cert[c].status # "ABSENT"
    PROVE  cert'[c].status # "ABSENT"
<1>0. cert[c] \in CertificateRow
  BY DEF TypeOK
<1>1. ASSUME NEW d \in Cert, UploadCertificate(d)
      PROVE  cert'[c].status # "ABSENT"
  BY <1>0, <1>1 DEF UploadCertificate, CertificateRow, TypeOK
<1>2. ASSUME NEW r \in Request, CommitStorage(r)
      PROVE  cert'[c].status # "ABSENT"
  <2>1. At(r, "confirmStorage", "queried") /\ ~ Raises(req[r].outcome)
    BY <1>2 DEF CommitStorage
  <2>2. req[r].outcome \in {"notMined", "accepted"} /\ req[r].cert \in Cert
    <3>1. req[r].outcome # "none" /\ req[r].cert \in Cert
      BY <2>1, AtControlPoint
    <3>2. req[r].outcome \in Outcome
      BY DEF TypeOK, RequestState
    <3> QED
      BY <2>1, <3>1, <3>2 DEF Raises, Outcome
  <2>3. StorageCertStatus(req[r]) # "ABSENT"
    BY <2>2 DEF StorageCertStatus
  <2>4. cert' = [cert EXCEPT ![req[r].cert] = StorageCertRow(req[r])]
    BY <1>2 DEF CommitStorage
  <2>5. CASE c = req[r].cert
    <3>1. cert'[c] = StorageCertRow(req[r])
      BY <2>4, <2>5 DEF TypeOK
    <3>2. StorageCertRow(req[r]).status =
             Written(StorageCertStatus(req[r]), req[r].seenStatus, cert[c].status)
      BY <1>0, <2>5 DEF StorageCertRow, CertificateRow
    <3> QED
      BY <2>3, <3>1, <3>2 DEF Written
  <2>6. CASE c # req[r].cert
    BY <2>4, <2>6 DEF TypeOK
  <2> QED
    BY <2>5, <2>6
<1>3. ASSUME NEW r \in Request, CommitRevocation(r)
      PROVE  cert'[c].status # "ABSENT"
  BY <1>0, <1>3 DEF CommitRevocation, RevokedRow, CertificateRow, TypeOK
<1>4. ASSUME UNCHANGED cert
      PROVE  cert'[c].status # "ABSENT"
  BY <1>4
<1> QED
  BY <1>1, <1>2, <1>3, <1>4
  DEF Next, vars, dbVars, Chain, OwnerCall, MineStore, MineRevoke, MineReverted,
      MineElsewhere, Mined, UpdateWallet, LoadForConfirmation,
      LoadForRevocationConfirmation, LoadForRevocation, LoadForQr, QueryStorage,
      RollbackStorage, LoadActiveQr, CommitQr, RollbackQr, CommitRevocationRow,
      QueryRevocation, RollbackRevocation, Crash

\* A non-empty bounded set of naturals has a greatest element.
LEMMA BoundedNaturalsHaveMax ==
    ASSUME NEW n \in Nat, NEW S \in SUBSET (0 .. n), S # {}
    PROVE  \E i \in S : \A j \in S : j <= i
<1> DEFINE R == {p \in Nat \X Nat : p[1] < p[2]}
           T == {k \in 0 .. n : n - k \in S}
<1>1. IsWellFoundedOn(R, Nat)
  <2>1. R = OpToRel(<, Nat)
    BY DEF OpToRel
  <2> QED
    BY <2>1, NatLessThanWellFounded
<1>2. T # {}
  <2>1. PICK i \in S : TRUE
    OBVIOUS
  <2>2. n - i \in T
    OBVIOUS
  <2> QED
    BY <2>2
<1>3. T \subseteq Nat
  OBVIOUS
<1> HIDE DEF R, T
<1>4. PICK k \in T : \A l \in T : ~ (<<l, k>> \in R)
  BY <1>1, <1>2, <1>3, WFMin
<1>5. \A l \in T : k <= l
  <2> TAKE l \in T
  <2>1. l \in Nat /\ k \in Nat /\ (l < k => <<l, k>> \in R)
    BY <1>3 DEF R
  <2> QED
    BY <1>4, <2>1
<1>6. n - k \in S /\ k \in 0 .. n
  BY <1>4 DEF T
<1>7. \A j \in S : n - j \in T
  BY DEF T
<1>8. \A j \in S : j <= n - k
  <2> TAKE j \in S
  <2>1. k <= n - j
    BY <1>5, <1>7
  <2> QED
    BY <2>1, <1>6
<1> QED
  BY <1>6, <1>8

\* get_by_certificate_id orders the rows; the first open one is a row of c.
LEMMA LatestRevocationRange ==
    ASSUME TypeOK, NEW c \in Cert
    PROVE  LatestRevocation(c) = 0 \/ LatestRevocation(c) \in 1 .. Len(revokeTx[c])
<1> DEFINE open == OpenRevocations(c)
<1>1. open \subseteq 1 .. Len(revokeTx[c]) /\ Len(revokeTx[c]) \in Nat
  BY LenProperties DEF OpenRevocations, TypeOK
<1>2. open # {} => \E i \in open : \A j \in open : j <= i
  <2> SUFFICES ASSUME open # {} PROVE \E i \in open : \A j \in open : j <= i
    OBVIOUS
  <2> QED
    BY <1>1, open \in SUBSET (0 .. Len(revokeTx[c])), BoundedNaturalsHaveMax
<1> QED
  BY <1>1, <1>2 DEF LatestRevocation

\* Requests stay well formed: in every step one slot at most changes, to Idle or
\* to the state its handler describes.
LEMMA RequestsStep ==
    ASSUME TypeOK, RequestsOK, [Next]_vars
    PROVE  RequestsOK' /\ req' \in [Request -> RequestState]
<1> DEFINE Good(e) ==
       /\ e \in RequestState
       /\ \/ e = Idle
          \/ /\ e.kind \in {"confirmStorage", "initiateRevocation",
                            "confirmRevocation", "generateQr"}
             /\ e.cert \in Cert
             /\ cert[e.cert].status # "ABSENT"
             /\ e.kind = "confirmStorage" => e.seenStatus \in {"PENDING", "SUBMITTED"}
             /\ e.kind \in {"confirmStorage", "confirmRevocation"} /\ e.pc = "queried"
                   => e.outcome # "none"
<1>1. ASSUME UNCHANGED req
      PROVE  RequestsOK' /\ req' \in [Request -> RequestState]
  BY <1>1, RowsStay DEF RequestsOK, RequestOK, TypeOK
<1>2. ASSUME NEW r \in Request, NEW e, req' = [req EXCEPT ![r] = e], Good(e)
      PROVE  RequestsOK' /\ req' \in [Request -> RequestState]
  BY <1>2, RowsStay DEF RequestsOK, RequestOK, TypeOK
<1>3. Good(Idle)
  BY IdleType
<1>4. ASSUME NEW r \in Request, Return(r)
      PROVE  RequestsOK' /\ req' \in [Request -> RequestState]
  BY <1>2, <1>3, <1>4 DEF Return
<1>5. ASSUME NEW r \in Request, NEW c \in Cert, NEW h \in TxHash,
             LoadForConfirmation(r, c, h)
      PROVE  RequestsOK' /\ req' \in [Request -> RequestState]
  <2> DEFINE e == [Idle EXCEPT !.kind = "confirmStorage", !.pc = "loaded",
                               !.cert = c, !.txHash = h,
                               !.seenStatus = cert[c].status,
                               !.seenWallet = wallet[IssuerOf[c]]]
  <2>1. wallet[IssuerOf[c]] \in Wallet \union {Null}
    BY DEF TypeOK
  <2>2. cert[c].status \in {"PENDING", "SUBMITTED"}
    BY <1>5 DEF LoadForConfirmation
  <2>3. Good(e)
    BY <2>1, <2>2, IdleType, ZenonT(30) DEF Idle, RequestState, BlockchainStatus
  <2> QED
    BY <1>2, <1>5, <2>3 DEF LoadForConfirmation
<1>6. ASSUME NEW r \in Request, NEW c \in Cert, NEW h \in TxHash,
             LoadForRevocationConfirmation(r, c, h)
      PROVE  RequestsOK' /\ req' \in [Request -> RequestState]
  <2> DEFINE e == [Idle EXCEPT !.kind = "confirmRevocation", !.pc = "loaded",
                               !.cert = c, !.txHash = h]
  <2>1. Good(e)
    BY <1>6, IdleType DEF LoadForRevocationConfirmation, Idle, RequestState
  <2> QED
    BY <1>2, <1>6, <2>1 DEF LoadForRevocationConfirmation
<1>7. ASSUME NEW r \in Request, NEW c \in Cert, LoadForRevocation(r, c)
      PROVE  RequestsOK' /\ req' \in [Request -> RequestState]
  <2> DEFINE e == [Idle EXCEPT !.kind = "initiateRevocation", !.pc = "loaded",
                               !.cert = c, !.row = Len(revokeTx[c]) + 1]
  <2>1. Len(revokeTx[c]) + 1 \in 0 .. MaxRevocations
    BY <1>7, LenProperties DEF LoadForRevocation, TypeOK
  <2>2. Good(e)
    BY <1>7, <2>1, IdleType DEF LoadForRevocation, Idle, RequestState
  <2> QED
    BY <1>2, <1>7, <2>2 DEF LoadForRevocation
<1>8. ASSUME NEW r \in Request, NEW c \in Cert, LoadForQr(r, c)
      PROVE  RequestsOK' /\ req' \in [Request -> RequestState]
  <2> DEFINE e == [Idle EXCEPT !.kind = "generateQr", !.pc = "loaded", !.cert = c]
  <2>1. Good(e)
    BY <1>8, IdleType DEF LoadForQr, MayHaveQr, Idle, RequestState
  <2> QED
    BY <1>2, <1>8, <2>1 DEF LoadForQr
<1>9. ASSUME NEW r \in Request, QueryStorage(r)
      PROVE  RequestsOK' /\ req' \in [Request -> RequestState]
  <2>1. req[r] \in RequestState /\ req[r].kind = "confirmStorage"
    BY <1>9 DEF QueryStorage, At, TypeOK
  <2>2. /\ req[r].cert \in Cert
        /\ cert[req[r].cert].status # "ABSENT"
        /\ req[r].seenStatus \in {"PENDING", "SUBMITTED"}
    BY <2>1 DEF RequestsOK, RequestOK, Idle
  <2>3. PICK outcome \in Outcome :
           /\ StorageOutcome(req[r], outcome)
           /\ req' = [req EXCEPT ![r].pc = "queried",
                                 ![r].seenWallet = Null,
                                 ![r].seenTx = storeTx[req[r].cert],
                                 ![r].outcome = outcome]
    BY <1>9 DEF QueryStorage
  <2> DEFINE e == [req[r] EXCEPT !.pc = "queried", !.seenWallet = Null,
                                 !.seenTx = storeTx[req[r].cert], !.outcome = outcome]
  <2>4. req' = [req EXCEPT ![r] = e]
    BY <2>3 DEF TypeOK
  <2>5. storeTx[req[r].cert] \in TransactionRow /\ outcome # "none"
    BY <2>2, <2>3 DEF TypeOK, StorageOutcome
  <2>6. Good(e)
    BY <2>1, <2>2, <2>5 DEF RequestState
  <2> QED
    BY <1>2, <2>4, <2>6
<1>10. ASSUME NEW r \in Request, QueryRevocation(r)
       PROVE  RequestsOK' /\ req' \in [Request -> RequestState]
  <2> DEFINE c == req[r].cert
             i == LatestRevocation(c)
  <2>1. req[r] \in RequestState /\ req[r].kind = "confirmRevocation"
    BY <1>10 DEF QueryRevocation, At, TypeOK
  <2>2. c \in Cert /\ cert[c].status # "ABSENT"
    BY <2>1 DEF RequestsOK, RequestOK, Idle
  <2>3. PICK outcome \in Outcome :
           /\ RevocationOutcome(req[r], outcome)
           /\ req' = [req EXCEPT ![r].pc = "queried",
                                 ![r].row = i,
                                 ![r].seenTx = IF i = 0 THEN NoTransaction
                                               ELSE revokeTx[c][i],
                                 ![r].outcome = outcome]
    BY <1>10 DEF QueryRevocation
  <2> DEFINE e == [req[r] EXCEPT !.pc = "queried", !.row = i,
                                 !.seenTx = IF i = 0 THEN NoTransaction
                                            ELSE revokeTx[c][i],
                                 !.outcome = outcome]
  <2>4. req' = [req EXCEPT ![r] = e]
    BY <2>3 DEF TypeOK
  <2>5. i = 0 \/ i \in 1 .. Len(revokeTx[c])
    BY <2>2, LatestRevocationRange
  <2>6. i \in 0 .. MaxRevocations
    BY <2>2, <2>5, LenProperties DEF TypeOK
  <2>7. (IF i = 0 THEN NoTransaction ELSE revokeTx[c][i]) \in TransactionRow
    <3>1. revokeTx[c] \in Seq(TransactionRow)
      BY <2>2 DEF TypeOK
    <3>2. i # 0 => revokeTx[c][i] \in TransactionRow
      BY <2>5, <3>1, ElementOfSeq
    <3>3. NoTransaction \in TransactionRow
      BY DEF NoTransaction, TransactionRow, TransactionStatus
    <3> QED
      BY <3>2, <3>3
  <2>8. outcome # "none"
    BY <2>3 DEF RevocationOutcome
  <2>9. Good(e)
    BY <2>1, <2>2, <2>6, <2>7, <2>8 DEF RequestState
  <2> QED
    BY <1>2, <2>4, <2>9
<1>11. ASSUME NEW r \in Request, CommitStorage(r)
       PROVE  RequestsOK' /\ req' \in [Request -> RequestState]
  <2> DEFINE e == [Idle EXCEPT !.kind = "generateQr", !.pc = "loaded",
                               !.cert = req[r].cert]
  <2>1. req[r].cert \in Cert /\ cert[req[r].cert].status # "ABSENT"
    BY <1>11 DEF CommitStorage, At, RequestsOK, RequestOK, Idle
  <2>2. Good(e)
    BY <2>1, IdleType DEF Idle, RequestState
  <2>3. req' = [req EXCEPT ![r] = e] \/ req' = [req EXCEPT ![r] = Idle]
    BY <1>11 DEF CommitStorage
  <2> QED
    BY <1>2, <1>3, <2>2, <2>3
<1>12. ASSUME NEW r \in Request, LoadActiveQr(r)
       PROVE  RequestsOK' /\ req' \in [Request -> RequestState]
  <2> DEFINE c == req[r].cert
             i == IF ActiveQr(c) = {} THEN 0 ELSE CHOOSE j \in ActiveQr(c) : TRUE
             e == [req[r] EXCEPT !.pc = "queried", !.qr = i]
  <2>1. req[r] \in RequestState /\ req[r].kind = "generateQr"
    BY <1>12 DEF LoadActiveQr, At, TypeOK
  <2>2. c \in Cert /\ cert[c].status # "ABSENT"
    BY <2>1 DEF RequestsOK, RequestOK, Idle
  <2>3. i = 0 \/ i \in 1 .. Len(qrCodes[c])
    <3>1. ActiveQr(c) \subseteq 1 .. Len(qrCodes[c])
      BY DEF ActiveQr
    <3>2. ActiveQr(c) # {} => (CHOOSE j \in ActiveQr(c) : TRUE) \in ActiveQr(c)
      OBVIOUS
    <3>3. CASE ActiveQr(c) = {}
      <4>1. i = 0
        BY <3>3
      <4> QED
        BY <4>1
    <3>4. CASE ActiveQr(c) # {}
      <4>1. i = CHOOSE j \in ActiveQr(c) : TRUE
        BY <3>4
      <4> QED
        BY <3>1, <3>2, <3>4, <4>1
    <3> QED
      BY <3>3, <3>4
  <2>4. req' = [req EXCEPT ![r] = e]
    BY <1>12 DEF LoadActiveQr, TypeOK
  <2> HIDE DEF i
  <2>5. i \in 0 .. MaxQr
    BY <2>2, <2>3, LenProperties DEF TypeOK
  <2>6. Good(e)
    BY <2>1, <2>2, <2>5 DEF RequestState
  <2> QED
    BY <1>2, <2>4, <2>6
<1>13. ASSUME NEW r \in Request,
              \/ RollbackStorage(r) \/ CommitQr(r) \/ RollbackQr(r)
              \/ CommitRevocationRow(r) \/ CommitRevocation(r)
              \/ RollbackRevocation(r) \/ Crash(r)
       PROVE  RequestsOK' /\ req' \in [Request -> RequestState]
  BY <1>4, <1>13 DEF RollbackStorage, CommitQr, RollbackQr, CommitRevocationRow,
     CommitRevocation, RollbackRevocation, Crash
<1>14. CASE \/ Chain
            \/ \E u \in University, a \in Wallet : UpdateWallet(u, a)
            \/ \E c \in Cert : UploadCertificate(c)
            \/ UNCHANGED vars
  <2>1. UNCHANGED req
    BY <1>14 DEF Chain, OwnerCall, MineStore, MineRevoke, MineReverted, MineElsewhere,
       Mined, UpdateWallet, UploadCertificate, vars
  <2> QED
    BY <1>1, <2>1
<1> HIDE DEF Good
<1> QED
  BY <1>5, <1>6, <1>7, <1>8, <1>9, <1>10, <1>11, <1>12, <1>13, <1>14 DEF Next

\* The rows a request may write keep their types.
LEMMA RowTypes ==
    ASSUME TypeOK, RequestsOK, [Next]_vars
    PROVE  /\ cert' \in [Cert -> CertificateRow]
           /\ storeTx' \in [Cert -> TransactionRow]
           /\ revokeTx' \in [Cert -> Seq(TransactionRow)]
           /\ \A c \in Cert : Len(revokeTx'[c]) <= MaxRevocations
<1> DEFINE RowsOK == /\ cert' \in [Cert -> CertificateRow]
                     /\ storeTx' \in [Cert -> TransactionRow]
                     /\ revokeTx' \in [Cert -> Seq(TransactionRow)]
                     /\ \A c \in Cert : Len(revokeTx'[c]) <= MaxRevocations
<1>1. CASE UNCHANGED <<cert, storeTx, revokeTx>>
  BY <1>1 DEF TypeOK
<1>2. ASSUME NEW c \in Cert, UploadCertificate(c)
      PROVE  RowsOK
  <2>1. cert[c] \in CertificateRow
    BY DEF TypeOK
  <2>2. [cert[c] EXCEPT !.status = "PENDING"] \in CertificateRow
    BY <2>1 DEF CertificateRow, BlockchainStatus
  <2>3. [status |-> "PENDING", txHash |-> Null] \in TransactionRow
    BY DEF TransactionRow, TransactionStatus
  <2>4. /\ cert' = [cert EXCEPT ![c] = [cert[c] EXCEPT !.status = "PENDING"]]
        /\ storeTx' = [storeTx EXCEPT ![c] = [status |-> "PENDING", txHash |-> Null]]
        /\ UNCHANGED revokeTx
    BY <1>2 DEF UploadCertificate
  <2> QED
    BY <2>2, <2>3, <2>4 DEF TypeOK
<1>3. ASSUME NEW r \in Request, CommitStorage(r)
      PROVE  RowsOK
  <2>1. /\ At(r, "confirmStorage", "queried")
        /\ ~ Raises(req[r].outcome)
        /\ storeTx' = [storeTx EXCEPT ![req[r].cert] = StorageTxRow(req[r])]
        /\ cert' = [cert EXCEPT ![req[r].cert] = StorageCertRow(req[r])]
        /\ UNCHANGED revokeTx
    BY <1>3 DEF CommitStorage
  <2>2. req[r].outcome # "none" /\ req[r].cert \in Cert
    BY <2>1, AtControlPoint
  <2>3. StorageTxRow(req[r]) \in TransactionRow /\ StorageCertRow(req[r]) \in CertificateRow
    BY <2>1, <2>2, StorageRowTypes
  <2> QED
    BY <2>1, <2>2, <2>3 DEF TypeOK
<1>4. ASSUME NEW r \in Request, NEW c \in Cert, LoadForRevocation(r, c)
      PROVE  RowsOK
  <2>1. /\ revokeTx' = [revokeTx EXCEPT ![c] = Append(revokeTx[c], NoTransaction)]
        /\ Len(revokeTx[c]) < MaxRevocations
        /\ UNCHANGED <<cert, storeTx>>
    BY <1>4 DEF LoadForRevocation
  <2>2. NoTransaction \in TransactionRow
    BY DEF NoTransaction, TransactionRow, TransactionStatus
  <2>3. revokeTx[c] \in Seq(TransactionRow) /\ Len(revokeTx[c]) \in Nat
    BY LenProperties DEF TypeOK
  <2>4. /\ Append(revokeTx[c], NoTransaction) \in Seq(TransactionRow)
        /\ Len(Append(revokeTx[c], NoTransaction)) <= MaxRevocations
    BY <2>1, <2>2, <2>3, AppendProperties
  <2> QED
    BY <2>1, <2>4 DEF TypeOK
<1>5. ASSUME NEW r \in Request, CommitRevocationRow(r)
      PROVE  RowsOK
  <2> DEFINE c == req[r].cert
             i == req[r].row
             row == [revokeTx[c][i] EXCEPT !.status = "PENDING"]
  <2>1. /\ revokeTx' = [revokeTx EXCEPT ![c] = [revokeTx[c] EXCEPT ![i] = row]]
        /\ UNCHANGED <<cert, storeTx>>
    BY <1>5 DEF CommitRevocationRow
  <2>2. c \in Cert
    BY <1>5, AtControlPoint DEF CommitRevocationRow
  <2>3. revokeTx[c] \in Seq(TransactionRow)
    BY <2>2 DEF TypeOK
  <2>4. i \in 1 .. Len(revokeTx[c]) => row \in TransactionRow
    <3>1. i \in 1 .. Len(revokeTx[c]) => revokeTx[c][i] \in TransactionRow
      BY <2>3, ElementOfSeq
    <3> QED
      BY <3>1 DEF TransactionRow, TransactionStatus
  <2>5. /\ [revokeTx[c] EXCEPT ![i] = row] \in Seq(TransactionRow)
        /\ Len([revokeTx[c] EXCEPT ![i] = row]) = Len(revokeTx[c])
    <3> HIDE DEF row, i, c
    <3>1. \A s, k, e :
             s \in Seq(TransactionRow) /\ (k \in 1 .. Len(s) => e \in TransactionRow)
             => [s EXCEPT ![k] = e] \in Seq(TransactionRow) /\ Len([s EXCEPT ![k] = e]) = Len(s)
      BY UpdatedSeq, Zenon
    <3> QED
      BY <2>3, <2>4, <3>1, Zenon
  <2> QED
    BY <2>1, <2>2, <2>5 DEF TypeOK
<1>6. ASSUME NEW r \in Request, CommitRevocation(r)
      PROVE  RowsOK
  <2> DEFINE c == req[r].cert
             i == req[r].row
             row == RevocationTxRow(req[r])
  <2>1. /\ At(r, "confirmRevocation", "queried")
        /\ ~ Raises(req[r].outcome)
        /\ revokeTx' = IF i = 0 THEN revokeTx
                       ELSE [revokeTx EXCEPT ![c] = [revokeTx[c] EXCEPT ![i] = row]]
        /\ UNCHANGED storeTx
    BY <1>6 DEF CommitRevocation
  <2>2. c \in Cert /\ req[r].outcome # "none"
    BY <2>1, AtControlPoint
  <2>3. revokeTx[c] \in Seq(TransactionRow)
    BY <2>2 DEF TypeOK
  <2>4. i \in 1 .. Len(revokeTx[c]) => row \in TransactionRow
    BY <2>1, <2>2, RevocationRowType
  <2>5. cert' \in [Cert -> CertificateRow]
    <3>1. RevokedRow(c) \in CertificateRow
      <4>1. cert[c] \in [status : BlockchainStatus, isActive : BOOLEAN]
        BY <2>2 DEF TypeOK, CertificateRow
      <4>2. RevokedRow(c) = [cert[c] EXCEPT !.isActive = FALSE, !.status = "REVOKED"]
        BY DEF RevokedRow
      <4> HIDE DEF c
      <4> QED
        BY <4>1, <4>2 DEF CertificateRow, BlockchainStatus
    <3>2. cert' = [cert EXCEPT ![c] = RevokedRow(c)] \/ cert' = cert
      BY <1>6 DEF CommitRevocation
    <3> QED
      BY <3>1, <3>2 DEF TypeOK
  <2>6. /\ [revokeTx[c] EXCEPT ![i] = row] \in Seq(TransactionRow)
        /\ Len([revokeTx[c] EXCEPT ![i] = row]) = Len(revokeTx[c])
    <3> HIDE DEF row, i, c
    <3>1. \A s, k, e :
             s \in Seq(TransactionRow) /\ (k \in 1 .. Len(s) => e \in TransactionRow)
             => [s EXCEPT ![k] = e] \in Seq(TransactionRow) /\ Len([s EXCEPT ![k] = e]) = Len(s)
      BY UpdatedSeq, Zenon
    <3> QED
      BY <2>3, <2>4, <3>1, Zenon
  <2>7. /\ revokeTx' \in [Cert -> Seq(TransactionRow)]
        /\ \A d \in Cert : Len(revokeTx'[d]) <= MaxRevocations
    BY <2>1, <2>2, <2>6 DEF TypeOK
  <2>8. storeTx' \in [Cert -> TransactionRow]
    BY <2>1 DEF TypeOK
  <2> QED
    BY <2>5, <2>7, <2>8
<1> QED
  BY <1>1, <1>2, <1>3, <1>4, <1>5, <1>6
  DEF Next, vars, dbVars, Chain, OwnerCall, MineStore, MineRevoke, MineReverted,
      MineElsewhere, Mined, UpdateWallet, LoadForConfirmation,
      LoadForRevocationConfirmation, LoadForQr, QueryStorage,
      RollbackStorage, LoadActiveQr, CommitQr, RollbackQr,
      QueryRevocation, RollbackRevocation, Crash

\* No step writes a value that its column does not allow.
LEMMA TypeStep == TypeOK /\ RequestsOK /\ [Next]_vars => TypeOK'
<1> SUFFICES ASSUME TypeOK, RequestsOK, [Next]_vars
             PROVE  TypeOK'
  OBVIOUS
<1>1. Registry!TypeOK'
  BY ContractTypes DEF TypeOK
<1>2. receipt' \in [TxHash -> {"none", "ok", "reverted"}]
  <2>1. ASSUME NEW h \in TxHash, NEW status \in {"ok", "reverted"}, Mined(h, status)
        PROVE  receipt' \in [TxHash -> {"none", "ok", "reverted"}]
    BY <2>1 DEF Mined, TypeOK
  <2>2. CASE UNCHANGED receipt
    BY <2>2 DEF TypeOK
  <2> QED
    BY <2>1, <2>2
    DEF Next, vars, chainVars, Chain, OwnerCall, MineStore, MineRevoke, MineReverted,
        MineElsewhere, UpdateWallet, UploadCertificate, LoadForConfirmation,
        LoadForRevocationConfirmation, LoadForRevocation, LoadForQr, QueryStorage,
        CommitStorage, RollbackStorage, LoadActiveQr, CommitQr, RollbackQr,
        CommitRevocationRow, QueryRevocation, CommitRevocation, RollbackRevocation, Crash
<1>3. wallet' \in [University -> Wallet \union {Null}]
  <2>1. ASSUME NEW u \in University, NEW a \in Wallet, UpdateWallet(u, a)
        PROVE  wallet' \in [University -> Wallet \union {Null}]
    BY <2>1 DEF UpdateWallet, TypeOK
  <2>2. CASE UNCHANGED wallet
    BY <2>2 DEF TypeOK
  <2> QED
    BY <2>1, <2>2
    DEF Next, vars, dbVars, Chain, OwnerCall, MineStore, MineRevoke, MineReverted,
        MineElsewhere, Mined, UploadCertificate, LoadForConfirmation,
        LoadForRevocationConfirmation, LoadForRevocation, LoadForQr, QueryStorage,
        CommitStorage, RollbackStorage, LoadActiveQr, CommitQr, RollbackQr,
        CommitRevocationRow, QueryRevocation, CommitRevocation, RollbackRevocation, Crash
<1>6. held' \in [University -> SUBSET Wallet]
  <2>1. ASSUME NEW u \in University, NEW a \in Wallet, UpdateWallet(u, a)
        PROVE  held' \in [University -> SUBSET Wallet]
    BY <2>1 DEF UpdateWallet, TypeOK
  <2>2. CASE UNCHANGED held
    BY <2>2 DEF TypeOK
  <2> QED
    BY <2>1, <2>2
    DEF Next, vars, dbVars, Chain, OwnerCall, MineStore, MineRevoke, MineReverted,
        MineElsewhere, Mined, UploadCertificate, LoadForConfirmation,
        LoadForRevocationConfirmation, LoadForRevocation, LoadForQr, QueryStorage,
        CommitStorage, RollbackStorage, LoadActiveQr, CommitQr, RollbackQr,
        CommitRevocationRow, QueryRevocation, CommitRevocation, RollbackRevocation, Crash
<1>4. qrCodes' \in [Cert -> Seq(BOOLEAN)] /\ \A c \in Cert : Len(qrCodes'[c]) <= MaxQr
  <2>1. ASSUME NEW r \in Request, CommitQr(r)
        PROVE  qrCodes' \in [Cert -> Seq(BOOLEAN)]
               /\ \A c \in Cert : Len(qrCodes'[c]) <= MaxQr
    <3> DEFINE c == req[r].cert
               old == [i \in 1 .. Len(qrCodes[c]) |-> qrCodes[c][i] /\ i # req[r].qr]
    <3>1. /\ qrCodes' = [qrCodes EXCEPT ![c] = Append(old, TRUE)]
          /\ Len(qrCodes[c]) < MaxQr
      BY <2>1 DEF CommitQr
    <3>2. c \in Cert
      BY <2>1, AtControlPoint DEF CommitQr
    <3>3. Len(qrCodes[c]) \in Nat
      BY <3>2, LenProperties DEF TypeOK
    <3>4. old \in Seq(BOOLEAN) /\ Len(old) = Len(qrCodes[c])
      BY <3>3, SeqDef
    <3> HIDE DEF old
    <3>5. Append(old, TRUE) \in Seq(BOOLEAN) /\ Len(Append(old, TRUE)) <= MaxQr
      BY <3>1, <3>3, <3>4, AppendProperties
    <3> QED
      BY <3>1, <3>5 DEF TypeOK
  <2>2. CASE UNCHANGED qrCodes
    BY <2>2 DEF TypeOK
  <2> QED
    BY <2>1, <2>2
    DEF Next, vars, dbVars, Chain, OwnerCall, MineStore, MineRevoke, MineReverted,
        MineElsewhere, Mined, UpdateWallet, UploadCertificate, LoadForConfirmation,
        LoadForRevocationConfirmation, LoadForRevocation, LoadForQr, QueryStorage,
        CommitStorage, RollbackStorage, LoadActiveQr, RollbackQr,
        CommitRevocationRow, QueryRevocation, CommitRevocation, RollbackRevocation, Crash
<1>5. req' \in [Request -> RequestState]
  BY RequestsStep
<1> QED
  BY <1>1, <1>2, <1>3, <1>4, <1>5, <1>6, RowTypes DEF TypeOK

-----------------------------------------------------------------------------
(* The inductive invariant.                                                *)

IInv ==
    /\ TypeOK
    /\ RequestsOK
    /\ ConfirmedIsAnchored
    /\ RevokedIsRevokedOnChain
    /\ InactiveMeansRevoked
    /\ VerdictsHold
    /\ QrCodesAreAnchored

\* The three things a step can do to a certificate's row.
MakePending(c) ==
    /\ cert[c].status = "ABSENT"
    /\ cert' = [cert EXCEPT ![c].status = "PENDING"]

Settle(c, status) ==
    /\ cert[c].status \notin {"ABSENT", "REVOKED"}
    /\ status = "CONFIRMED" => Anchored(c)
    /\ cert' = [cert EXCEPT ![c].status = status]

MakeRevoked(c) ==
    /\ cert[c].status # "ABSENT"
    /\ OnChainRevoked(c)
    /\ cert' = [cert EXCEPT ![c] = RevokedRow(c)]

CertMoves ==
    \E c \in Cert :
        \/ MakePending(c)
        \/ \E status \in {"PENDING", "SUBMITTED", "CONFIRMED", "FAILED"} : Settle(c, status)
        \/ MakeRevoked(c)

\* A confirmation that commits settles the row, or leaves a revoked one alone.
LEMMA CommitStorageMoves ==
    ASSUME IInv, NEW r \in Request, CommitStorage(r)
    PROVE  UNCHANGED cert \/ CertMoves
<1> DEFINE q == req[r]
           c == q.cert
           new == StorageCertStatus(q)
           status == Written(new, q.seenStatus, cert[c].status)
<1>1. /\ At(r, "confirmStorage", "queried")
      /\ ~ Raises(q.outcome)
      /\ RevokedSync(StorageCertRow(q))
      /\ cert' = [cert EXCEPT ![c] = StorageCertRow(q)]
  BY DEF CommitStorage, StorageConstraints
<1>2. /\ c \in Cert
      /\ cert[c].status # "ABSENT"
      /\ q.seenStatus \in {"PENDING", "SUBMITTED"}
      /\ q.outcome # "none"
  BY <1>1, AtControlPoint DEF IInv
<1>3. q.outcome \in {"notMined", "accepted"}
  <2>1. q.outcome \in Outcome
    BY DEF IInv, TypeOK, RequestState
  <2> QED
    BY <1>1, <1>2, <2>1 DEF Raises, Outcome
<1>4. new \in {"SUBMITTED", "CONFIRMED"} /\ (new = "CONFIRMED" => Anchored(c))
  BY <1>1, <1>3 DEF StorageCertStatus, IInv, VerdictsHold, At
<1>5. cert[c] \in CertificateRow
  BY <1>2 DEF IInv, TypeOK
<1>6. StorageCertRow(q) = [cert[c] EXCEPT !.status = status]
  BY DEF StorageCertRow
<1>7. CASE cert[c].status = "REVOKED"
  <2>1. cert[c].isActive = FALSE
    BY <1>2, <1>7 DEF IInv, InactiveMeansRevoked
  <2> HIDE DEF status, new, q, c
  <2>2. [cert[c] EXCEPT !.status = status].status = status
        /\ [cert[c] EXCEPT !.status = status].isActive = cert[c].isActive
    BY <1>5 DEF CertificateRow
  <2>3. status = "REVOKED"
    BY <1>1, <1>6, <2>1, <2>2 DEF RevokedSync
  <2>4. [cert[c] EXCEPT !.status = status] = cert[c]
    BY <1>5, <1>7, <2>3 DEF CertificateRow
  <2>5. cert \in [Cert -> CertificateRow]
    BY DEF IInv, TypeOK
  <2>6. cert' = cert
    BY <1>1, <1>2, <1>6, <2>4, <2>5
  <2> QED
    BY <2>6
<1>8. CASE cert[c].status # "REVOKED"
  <2>1. cert[c].status \in {"PENDING", "SUBMITTED", "CONFIRMED", "FAILED"}
    BY <1>2, <1>5, <1>8 DEF CertificateRow, BlockchainStatus
  <2>2. status \in {"PENDING", "SUBMITTED", "CONFIRMED", "FAILED"}
    BY <1>4, <2>1 DEF Written
  <2>3. status = "CONFIRMED" => Anchored(c)
    BY <1>2, <1>4 DEF Written, IInv, ConfirmedIsAnchored
  <2> HIDE DEF status
  <2>4. Settle(c, status)
    BY <1>1, <1>2, <1>6, <1>8, <2>3 DEF Settle
  <2> QED
    BY <1>2, <2>2, <2>4 DEF CertMoves
<1> QED
  BY <1>7, <1>8

\* Every step of the lifecycle moves at most one certificate's row, forward or
\* with the backing of the chain.
LEMMA CertSteps ==
    ASSUME IInv, [Next]_vars
    PROVE  UNCHANGED cert \/ CertMoves
<1>1. ASSUME NEW c \in Cert, UploadCertificate(c)
      PROVE  CertMoves
  BY <1>1 DEF UploadCertificate, CertMoves, MakePending
<1>2. ASSUME NEW r \in Request, CommitStorage(r)
      PROVE  UNCHANGED cert \/ CertMoves
  BY <1>2, CommitStorageMoves
<1>3. ASSUME NEW r \in Request, CommitRevocation(r)
      PROVE  UNCHANGED cert \/ CertMoves
  <2> DEFINE c == req[r].cert
  <2>1. At(r, "confirmRevocation", "queried")
    BY <1>3 DEF CommitRevocation
  <2>2. c \in Cert /\ cert[c].status # "ABSENT"
    BY <2>1, AtControlPoint DEF IInv
  <2>3. CASE req[r].outcome = "accepted"
    <3>1. OnChainRevoked(c)
      BY <2>1, <2>3 DEF At, IInv, VerdictsHold, RecordRevoked, OnChainRevoked,
                        Registry!GetCertificateRecord
    <3>2. cert' = [cert EXCEPT ![c] = RevokedRow(c)]
      BY <1>3, <2>3 DEF CommitRevocation
    <3> QED
      BY <2>2, <3>1, <3>2 DEF CertMoves, MakeRevoked
  <2>4. CASE req[r].outcome # "accepted"
    BY <1>3, <2>4 DEF CommitRevocation
  <2> QED
    BY <2>3, <2>4
<1> QED
  BY <1>1, <1>2, <1>3
  DEF Next, vars, dbVars, Chain, OwnerCall, MineStore, MineRevoke, MineReverted,
      MineElsewhere, Mined, UpdateWallet, LoadForConfirmation,
      LoadForRevocationConfirmation, LoadForRevocation, LoadForQr, QueryStorage,
      RollbackStorage, LoadActiveQr, CommitQr, RollbackQr, CommitRevocationRow,
      QueryRevocation, RollbackRevocation, Crash

\* What the moves mean for one row.
LEMMA RowSteps ==
    ASSUME IInv, [Next]_vars, NEW c \in Cert
    PROVE  \/ cert'[c] = cert[c]
           \/ /\ cert[c].status # "REVOKED"
              /\ cert'[c].status \in {"PENDING", "SUBMITTED", "CONFIRMED", "FAILED"}
              /\ cert'[c].status = "CONFIRMED" => Anchored(c)
              /\ cert'[c].isActive = cert[c].isActive
           \/ /\ cert'[c].status = "REVOKED"
              /\ cert'[c].isActive = FALSE
              /\ OnChainRevoked(c)
<1>1. cert \in [Cert -> CertificateRow]
  BY DEF IInv, TypeOK
<1>2. ASSUME NEW d \in Cert, MakePending(d)
      PROVE  \/ cert'[c] = cert[c]
             \/ /\ cert[c].status # "REVOKED"
                /\ cert'[c].status = "PENDING"
                /\ cert'[c].isActive = cert[c].isActive
  BY <1>1, <1>2 DEF MakePending, CertificateRow
<1>3. ASSUME NEW d \in Cert, NEW status, Settle(d, status)
      PROVE  \/ cert'[c] = cert[c]
             \/ /\ cert[c].status # "REVOKED"
                /\ cert'[c].status = status
                /\ status = "CONFIRMED" => Anchored(c)
                /\ cert'[c].isActive = cert[c].isActive
  BY <1>1, <1>3 DEF Settle, CertificateRow
<1>4. ASSUME NEW d \in Cert, MakeRevoked(d)
      PROVE  \/ cert'[c] = cert[c]
             \/ /\ cert'[c].status = "REVOKED"
                /\ cert'[c].isActive = FALSE
                /\ OnChainRevoked(c)
  <2>1. CASE c = d
    <3>1. cert'[c] = [cert[c] EXCEPT !.isActive = FALSE, !.status = "REVOKED"]
      BY <1>1, <1>4, <2>1 DEF MakeRevoked, RevokedRow
    <3>2. cert[c] \in [status : BlockchainStatus, isActive : BOOLEAN]
      BY <1>1 DEF CertificateRow
    <3>3. cert'[c].status = "REVOKED" /\ cert'[c].isActive = FALSE
      BY <3>1, <3>2
    <3> QED
      BY <1>4, <2>1, <3>3 DEF MakeRevoked
  <2>2. CASE c # d
    BY <1>1, <1>4, <2>2 DEF MakeRevoked
  <2> QED
    BY <2>1, <2>2
<1> QED
  BY <1>2, <1>3, <1>4, CertSteps DEF CertMoves

\* A verdict is true when it is taken, and stays true because the chain grows.
LEMMA VerdictsStep ==
    ASSUME IInv, [Next]_vars
    PROVE  VerdictsHold'
<1> DEFINE Backed(e) ==
       /\ e.kind = "confirmStorage" /\ e.outcome = "accepted" => Anchored(e.cert)
       /\ e.kind = "generateQr" => Anchored(e.cert)
       /\ e.kind = "confirmRevocation" /\ e.outcome = "accepted" => OnChainRevoked(e.cert)
<1>1. req \in [Request -> RequestState] /\ Registry!TypeOK
  BY DEF IInv, TypeOK
<1>2. \A r \in Request : req'[r] = Idle \/ req'[r].cert \in Cert
  BY RequestsStep DEF IInv, RequestsOK, RequestOK
<1>3. \A r \in Request : Backed(req[r])
  BY DEF IInv, VerdictsHold, RecordRevoked, OnChainRevoked, Registry!GetCertificateRecord
<1>4. ASSUME \A r \in Request : Backed(req'[r])
      PROVE  VerdictsHold'
  <2> SUFFICES ASSUME NEW r \in Request
               PROVE  /\ req'[r].kind = "confirmStorage" /\ req'[r].outcome = "accepted"
                            => Anchored(req[r].cert)'
                      /\ req'[r].kind = "generateQr" => Anchored(req[r].cert)'
                      /\ req'[r].kind = "confirmRevocation" /\ req'[r].outcome = "accepted"
                            => RecordRevoked(req[r])'
    BY DEF VerdictsHold
  <2>1. CASE req'[r] = Idle
    BY <2>1 DEF Idle
  <2>2. CASE req'[r].cert \in Cert
    <3> DEFINE c == req'[r].cert
    <3>1. /\ Anchored(c) => /\ certificates'[c].exists
                            /\ certificates'[c].certificateHash = HashOf[c]
          /\ OnChainRevoked(c) => /\ certificates'[c].exists
                                  /\ certificates'[c].status = "REVOKED"
      <4> HIDE DEF c
      <4>1. \A d \in Cert : /\ Anchored(d) => /\ certificates'[d].exists
                                              /\ certificates'[d].certificateHash = HashOf[d]
                            /\ OnChainRevoked(d) => /\ certificates'[d].exists
                                                    /\ certificates'[d].status = "REVOKED"
        BY <1>1, ChainGrows DEF Anchored, OnChainRevoked
      <4> QED
        BY <2>2, <4>1 DEF c
    <3> QED
      BY <1>4, <3>1 DEF Anchored, RecordRevoked, Registry!GetCertificateRecord
  <2> QED
    BY <1>2, <2>1, <2>2
<1>5. ASSUME NEW r \in Request, NEW e, req' = [req EXCEPT ![r] = e], Backed(e)
      PROVE  VerdictsHold'
  <2>1. \A s \in Request : Backed(req'[s])
    BY <1>1, <1>3, <1>5
  <2> QED
    BY <1>4, <2>1
<1>6. ASSUME NEW r \in Request, Return(r)
      PROVE  VerdictsHold'
  BY <1>5, <1>6 DEF Return, Idle
<1>7. ASSUME NEW r \in Request, NEW c \in Cert, NEW h \in TxHash,
             LoadForConfirmation(r, c, h) \/ LoadForRevocationConfirmation(r, c, h)
      PROVE  VerdictsHold'
  <2> DEFINE e1 == [Idle EXCEPT !.kind = "confirmStorage", !.pc = "loaded",
                                !.cert = c, !.txHash = h,
                                !.seenStatus = cert[c].status,
                                !.seenWallet = wallet[IssuerOf[c]]]
             e2 == [Idle EXCEPT !.kind = "confirmRevocation", !.pc = "loaded",
                                !.cert = c, !.txHash = h]
  <2>1. req' = [req EXCEPT ![r] = e1] \/ req' = [req EXCEPT ![r] = e2]
    BY <1>7 DEF LoadForConfirmation, LoadForRevocationConfirmation
  <2>2. /\ e1.kind = "confirmStorage" /\ e1.outcome = "none"
        /\ e2.kind = "confirmRevocation" /\ e2.outcome = "none"
    BY DEF Idle
  <2> HIDE DEF e1, e2
  <2> QED
    BY <1>5, <2>1, <2>2
<1>8. ASSUME NEW r \in Request, NEW c \in Cert, LoadForRevocation(r, c)
      PROVE  VerdictsHold'
  <2> DEFINE e == [Idle EXCEPT !.kind = "initiateRevocation", !.pc = "loaded",
                               !.cert = c, !.row = Len(revokeTx[c]) + 1]
  <2>1. req' = [req EXCEPT ![r] = e]
    BY <1>8 DEF LoadForRevocation
  <2>2. e.kind = "initiateRevocation"
    BY DEF Idle
  <2> HIDE DEF e
  <2> QED
    BY <1>5, <2>1, <2>2
<1>9. ASSUME NEW r \in Request, NEW c \in Cert, LoadForQr(r, c)
      PROVE  VerdictsHold'
  <2> DEFINE e == [Idle EXCEPT !.kind = "generateQr", !.pc = "loaded", !.cert = c]
  <2>1. req' = [req EXCEPT ![r] = e]
    BY <1>9 DEF LoadForQr
  <2>2. e.kind = "generateQr" /\ e.cert = c
    BY DEF Idle
  <2>3. Anchored(c)
    BY <1>9 DEF LoadForQr, MayHaveQr, IInv, ConfirmedIsAnchored
  <2> HIDE DEF e
  <2> QED
    BY <1>5, <2>1, <2>2, <2>3
<1>10. ASSUME NEW r \in Request, QueryStorage(r)
       PROVE  VerdictsHold'
  <2>1. PICK outcome \in Outcome :
           /\ StorageOutcome(req[r], outcome)
           /\ req' = [req EXCEPT ![r].pc = "queried",
                                 ![r].seenWallet = Null,
                                 ![r].seenTx = storeTx[req[r].cert],
                                 ![r].outcome = outcome]
    BY <1>10 DEF QueryStorage
  <2> DEFINE e == [req[r] EXCEPT !.pc = "queried", !.seenWallet = Null,
                                 !.seenTx = storeTx[req[r].cert], !.outcome = outcome]
  <2>2. req' = [req EXCEPT ![r] = e]
    BY <1>1, <2>1
  <2>3. req[r] \in RequestState /\ req[r].kind = "confirmStorage"
    BY <1>1, <1>10 DEF QueryStorage, At
  <2>4. e.kind = "confirmStorage" /\ e.cert = req[r].cert /\ e.outcome = outcome
    BY <2>3 DEF RequestState
  <2>5. outcome = "accepted" => Anchored(req[r].cert)
    BY <2>1 DEF StorageOutcome, RecordMatches, Anchored, Registry!GetCertificateRecord
  <2> HIDE DEF e
  <2> QED
    BY <1>5, <2>2, <2>4, <2>5
<1>11. ASSUME NEW r \in Request, QueryRevocation(r)
       PROVE  VerdictsHold'
  <2> DEFINE c == req[r].cert
             i == LatestRevocation(c)
             tx == IF i = 0 THEN NoTransaction ELSE revokeTx[c][i]
  <2>1. PICK outcome \in Outcome :
           /\ RevocationOutcome(req[r], outcome)
           /\ req' = [req EXCEPT ![r].pc = "queried", ![r].row = i,
                                 ![r].seenTx = tx, ![r].outcome = outcome]
    BY <1>11 DEF QueryRevocation
  <2> HIDE DEF i, tx
  <2> DEFINE e == [req[r] EXCEPT !.pc = "queried", !.row = i, !.seenTx = tx,
                                 !.outcome = outcome]
  <2>2. req' = [req EXCEPT ![r] = e]
    BY <1>1, <2>1
  <2>3. req[r] \in RequestState /\ req[r].kind = "confirmRevocation"
    BY <1>1, <1>11 DEF QueryRevocation, At
  <2>4. e.kind = "confirmRevocation" /\ e.cert = req[r].cert /\ e.outcome = outcome
    BY <2>3 DEF RequestState
  <2>5. outcome = "accepted" => OnChainRevoked(req[r].cert)
    BY <2>1 DEF RevocationOutcome, RecordRevoked, OnChainRevoked,
                Registry!GetCertificateRecord
  <2> HIDE DEF e
  <2> QED
    BY <1>5, <2>2, <2>4, <2>5
<1>12. ASSUME NEW r \in Request, CommitStorage(r)
       PROVE  VerdictsHold'
  <2>1. CASE req[r].outcome = "accepted"
    <3> DEFINE e == [Idle EXCEPT !.kind = "generateQr", !.pc = "loaded",
                                 !.cert = req[r].cert]
    <3>1. req' = [req EXCEPT ![r] = e]
      BY <1>12, <2>1 DEF CommitStorage
    <3>2. e.kind = "generateQr" /\ e.cert = req[r].cert
      BY DEF Idle
    <3>3. Anchored(req[r].cert)
      BY <1>3, <1>12, <2>1 DEF CommitStorage, At
    <3> HIDE DEF e
    <3> QED
      BY <1>5, <3>1, <3>2, <3>3
  <2>2. CASE req[r].outcome # "accepted"
    <3>1. req' = [req EXCEPT ![r] = Idle]
      BY <1>12, <2>2 DEF CommitStorage
    <3> QED
      BY <1>6, <3>1 DEF Return
  <2> QED
    BY <2>1, <2>2
<1>13. ASSUME NEW r \in Request, LoadActiveQr(r)
       PROVE  VerdictsHold'
  <2> DEFINE active == ActiveQr(req[r].cert)
             i == IF active = {} THEN 0 ELSE CHOOSE j \in active : TRUE
             e == [req[r] EXCEPT !.pc = "queried", !.qr = i]
  <2>1. req' = [req EXCEPT ![r] = e] /\ req[r].kind = "generateQr"
    BY <1>1, <1>13 DEF LoadActiveQr, At
  <2> HIDE DEF i
  <2>2. e.kind = "generateQr" /\ e.cert = req[r].cert
    BY <1>1, <2>1 DEF RequestState
  <2>3. Anchored(req[r].cert)
    BY <1>3, <2>1
  <2> HIDE DEF e
  <2> QED
    BY <1>5, <2>1, <2>2, <2>3
<1>14. ASSUME NEW r \in Request,
              \/ RollbackStorage(r) \/ CommitQr(r) \/ RollbackQr(r)
              \/ CommitRevocationRow(r) \/ CommitRevocation(r)
              \/ RollbackRevocation(r) \/ Crash(r)
       PROVE  VerdictsHold'
  BY <1>6, <1>14 DEF RollbackStorage, CommitQr, RollbackQr, CommitRevocationRow,
     CommitRevocation, RollbackRevocation, Crash
<1>15. CASE \/ Chain
            \/ \E u \in University, a \in Wallet : UpdateWallet(u, a)
            \/ \E c \in Cert : UploadCertificate(c)
            \/ UNCHANGED vars
  <2>1. UNCHANGED req
    BY <1>15 DEF Chain, OwnerCall, MineStore, MineRevoke, MineReverted, MineElsewhere,
       Mined, UpdateWallet, UploadCertificate, vars
  <2>2. \A r \in Request : Backed(req'[r])
    BY <1>3, <2>1
  <2> QED
    BY <1>4, <2>2
<1> HIDE DEF Backed
<1> QED
  BY <1>7, <1>8, <1>9, <1>10, <1>11, <1>12, <1>13, <1>14, <1>15 DEF Next

\* The inductive invariant holds of the empty database.
LEMMA InvariantInit == Init => IInv
<1> SUFFICES ASSUME Init PROVE IInv
  OBVIOUS
<1>1. \A c \in Cert : /\ cert[c].status = "ABSENT" /\ cert[c].isActive = TRUE
                      /\ qrCodes[c] = << >>
  BY DEF Init
<1>2. \A r \in Request : req[r] = Idle
  BY DEF Init
<1>3. ConfirmedIsAnchored /\ RevokedIsRevokedOnChain /\ InactiveMeansRevoked
      /\ QrCodesAreAnchored
  BY <1>1 DEF ConfirmedIsAnchored, RevokedIsRevokedOnChain, InactiveMeansRevoked,
              QrCodesAreAnchored
<1>4. RequestsOK /\ VerdictsHold
  BY <1>2 DEF RequestsOK, RequestOK, VerdictsHold, Idle
<1> QED
  BY <1>3, <1>4, TypeInit DEF IInv

\* A code is written by a request whose certificate is anchored, and no code
\* is ever taken away.
LEMMA QrCodesStep ==
    ASSUME IInv, [Next]_vars
    PROVE  QrCodesAreAnchored'
<1>1. \A c \in Cert : Anchored(c) => Anchored(c)'
  BY ChainGrows DEF IInv, TypeOK
<1>2. ASSUME NEW r \in Request, CommitQr(r)
      PROVE  \A c \in Cert : qrCodes'[c] # << >> => Anchored(c)
  <2>1. At(r, "generateQr", "queried")
    BY <1>2 DEF CommitQr
  <2>2. Anchored(req[r].cert)
    BY <2>1 DEF At, IInv, VerdictsHold
  <2>3. \A c \in Cert : c # req[r].cert => qrCodes'[c] = qrCodes[c]
    BY <1>2 DEF CommitQr, IInv, TypeOK
  <2> QED
    BY <2>2, <2>3 DEF IInv, QrCodesAreAnchored
<1>3. ASSUME UNCHANGED qrCodes
      PROVE  \A c \in Cert : qrCodes'[c] # << >> => Anchored(c)
  BY <1>3 DEF IInv, QrCodesAreAnchored
<1>4. \A c \in Cert : qrCodes'[c] # << >> => Anchored(c)
  BY <1>2, <1>3
  DEF Next, vars, dbVars, Chain, OwnerCall, MineStore, MineRevoke, MineReverted,
      MineElsewhere, Mined, UpdateWallet, UploadCertificate, LoadForConfirmation,
      LoadForRevocationConfirmation, LoadForRevocation, LoadForQr, QueryStorage,
      CommitStorage, RollbackStorage, LoadActiveQr, RollbackQr,
      CommitRevocationRow, QueryRevocation, CommitRevocation, RollbackRevocation, Crash
<1> QED
  BY <1>1, <1>4 DEF QrCodesAreAnchored

\* Every step preserves it.
LEMMA InvariantStep == IInv /\ [Next]_vars => IInv'
<1> SUFFICES ASSUME IInv, [Next]_vars PROVE IInv'
  OBVIOUS
<1>1. TypeOK' /\ RequestsOK'
  BY TypeStep, RequestsStep DEF IInv
<1>2. \A c \in Cert : (Anchored(c) => Anchored(c)') /\ (OnChainRevoked(c) => OnChainRevoked(c)')
  BY ChainGrows DEF IInv, TypeOK
<1>3. ConfirmedIsAnchored'
  BY <1>2, RowSteps DEF IInv, ConfirmedIsAnchored
<1>4. RevokedIsRevokedOnChain'
  <2>1. \A c \in Cert : cert'[c].status = "REVOKED" => OnChainRevoked(c)
    BY RowSteps DEF IInv, RevokedIsRevokedOnChain, OnChainRevoked
  <2> QED
    BY <1>2, <2>1 DEF RevokedIsRevokedOnChain, OnChainRevoked
<1>5. InactiveMeansRevoked'
  BY RowSteps DEF IInv, InactiveMeansRevoked
<1> QED
  BY <1>1, <1>3, <1>4, <1>5, VerdictsStep, QrCodesStep DEF IInv

\* It holds in every reachable state.
LEMMA Invariance == Spec => []IInv
  BY InvariantInit, InvariantStep, PTL DEF Spec

-----------------------------------------------------------------------------
(* Theorems.                                                               *)

\* Rows, requests and the contract's storage are well typed.
THEOREM LifecycleTypes == Spec => []TypeOK
<1>1. IInv => TypeOK
  BY DEF IInv
<1> QED
  BY <1>1, Invariance, PTL

\* However many confirmations race, a CONFIRMED certificate is on the chain with
\* the hash of the uploaded file.
THEOREM ConfirmedAnchored == Spec => []ConfirmedIsAnchored
<1>1. IInv => ConfirmedIsAnchored
  BY DEF IInv
<1> QED
  BY <1>1, Invariance, PTL

\* The database never runs ahead of the chain in revoking.
THEOREM RevokedOnChain == Spec => []RevokedIsRevokedOnChain
<1>1. IInv => RevokedIsRevokedOnChain
  BY DEF IInv
<1> QED
  BY <1>1, Invariance, PTL

\* The two columns that say a certificate is revoked agree.
THEOREM InactiveRevoked == Spec => []InactiveMeansRevoked
<1>1. IInv => InactiveMeansRevoked
  BY DEF IInv
<1> QED
  BY <1>1, Invariance, PTL

\* A verdict taken from the chain is not stale when it is used.
THEOREM VerdictsAreStable == Spec => []VerdictsHold
<1>1. IInv => VerdictsHold
  BY DEF IInv
<1> QED
  BY <1>1, Invariance, PTL

\* Every QR code ever issued is for an anchored certificate.
THEOREM QrAnchored == Spec => []QrCodesAreAnchored
<1>1. IInv => QrCodesAreAnchored
  BY DEF IInv
<1> QED
  BY <1>1, Invariance, PTL

\* No late confirmation brings a revoked certificate back.
THEOREM RevocationFinal == Spec => RevocationIsFinal
<1>1. IInv /\ [Next]_vars =>
      [\A c \in Cert : cert[c].status = "REVOKED" => cert'[c].status = "REVOKED"]_vars
  BY RowSteps
<1> QED
  BY <1>1, Invariance, PTL DEF Spec, RevocationIsFinal

AtMostOneActive == \A c \in Cert : \A i, j \in ActiveQr(c) : i = j

\* The unique index lets a request deactivate the code it loaded only if that
\* is still the active one.
LEMMA ActiveQrStep ==
    ASSUME IInv, AtMostOneActive, [Next]_vars
    PROVE  AtMostOneActive'
<1>1. ASSUME NEW r \in Request, CommitQr(r)
      PROVE  AtMostOneActive'
  <2> DEFINE d == req[r].cert
             n == Len(qrCodes[d])
             old == [i \in 1 .. n |-> qrCodes[d][i] /\ i # req[r].qr]
             new == Append(old, TRUE)
  <2>1. /\ qrCodes' = [qrCodes EXCEPT ![d] = new]
        /\ ActiveQr(d) \subseteq {req[r].qr}
    BY <1>1 DEF CommitQr, QrIndexAllows
  <2>2. d \in Cert
    BY <1>1, AtControlPoint DEF CommitQr, IInv
  <2>3. qrCodes \in [Cert -> Seq(BOOLEAN)] /\ qrCodes[d] \in Seq(BOOLEAN) /\ n \in Nat
    BY <2>2, LenProperties DEF IInv, TypeOK
  <2>4. old \in Seq(BOOLEAN) /\ Len(old) = n
    BY <2>3, SeqDef
  <2>5. \A i \in 1 .. n : old[i] = FALSE
    BY <2>1 DEF ActiveQr
  <2> HIDE DEF old
  <2>6. Len(new) = n + 1 /\ \A i \in 1 .. n : new[i] = old[i]
    <3>1. TRUE \in BOOLEAN
      OBVIOUS
    <3>2. Len(Append(old, TRUE)) = Len(old) + 1
      BY <2>4, <3>1, AppendProperties
    <3>3. \A i \in 1 .. Len(old) : Append(old, TRUE)[i] = old[i]
      <4> DEFINE active == TRUE
      <4>1. active \in BOOLEAN
        OBVIOUS
      <4> HIDE DEF active
      <4>2. \A i \in 1 .. Len(old) : Append(old, active)[i] = old[i]
        <5> HIDE DEF n
        <5>1. \A s, e : s \in Seq(BOOLEAN) /\ e \in BOOLEAN
                           => \A i \in 1 .. Len(s) : Append(s, e)[i] = s[i]
          BY AppendKeeps, Zenon
        <5>2. old \in Seq(BOOLEAN)
          BY <2>4
        <5> QED
          BY <5>1, <5>2, <4>1, Zenon
      <4> QED
        BY <4>2 DEF active
    <3> QED
      BY <2>4, <3>2, <3>3
  <2>7. \A i \in 1 .. Len(new) : new[i] => i = n + 1
    BY <2>3, <2>5, <2>6
  <2> HIDE DEF new
  <2>8. ASSUME NEW c \in Cert
        PROVE  \A i, j \in ActiveQr(c)' : i = j
    <3>1. CASE c = d
      <4>1. qrCodes'[c] = new
        BY <2>1, <2>2, <2>3, <3>1
      <4> QED
        BY <2>7, <4>1 DEF ActiveQr
    <3>2. CASE c # d
      <4>1. qrCodes'[c] = qrCodes[c]
        BY <2>1, <2>3, <3>2
      <4> QED
        BY <4>1 DEF ActiveQr, AtMostOneActive
    <3> QED
      BY <3>1, <3>2
  <2> QED
    BY <2>8 DEF AtMostOneActive
<1>2. ASSUME UNCHANGED qrCodes
      PROVE  AtMostOneActive'
  BY <1>2 DEF AtMostOneActive, ActiveQr
<1> QED
  BY <1>1, <1>2
  DEF Next, vars, dbVars, Chain, OwnerCall, MineStore, MineRevoke, MineReverted,
      MineElsewhere, Mined, UpdateWallet, UploadCertificate, LoadForConfirmation,
      LoadForRevocationConfirmation, LoadForRevocation, LoadForQr, QueryStorage,
      CommitStorage, RollbackStorage, LoadActiveQr, RollbackQr,
      CommitRevocationRow, QueryRevocation, CommitRevocation, RollbackRevocation, Crash

\* However many requests generate codes at once, one code is active.
THEOREM SingleActiveQr == Spec => []OneActiveQr
<1>1. Init => AtMostOneActive
  BY EmptySeq DEF Init, AtMostOneActive, ActiveQr
<1>2. IInv /\ AtMostOneActive /\ [Next]_vars => AtMostOneActive'
  BY ActiveQrStep
<1>3. AtMostOneActive => OneActiveQr
  <2> SUFFICES ASSUME AtMostOneActive, NEW c \in Cert
               PROVE  Cardinality(ActiveQr(c)) <= 1
    BY DEF OneActiveQr
  <2>1. CASE ActiveQr(c) = {}
    BY <2>1, FS_EmptySet
  <2>2. ASSUME NEW i \in ActiveQr(c)
        PROVE  Cardinality(ActiveQr(c)) <= 1
    <3>1. ActiveQr(c) = {i}
      BY DEF AtMostOneActive
    <3>2. Cardinality({i}) = 1
      BY FS_Singleton
    <3> QED
      BY <3>1, <3>2
  <2> QED
    BY <2>1, <2>2
<1> QED
  BY <1>1, <1>2, <1>3, Invariance, PTL DEF Spec
=============================================================================
