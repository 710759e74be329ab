----------------------- MODULE CertificateRegistryProofs -----------------------
(***************************************************************************)
(* Theorems about the contract, for any accounts, UIDs and hashes.         *)
(***************************************************************************)
EXTENDS CertificateRegistry, FiniteSetTheorems, TLAPS

USE RegistryAssumption

-----------------------------------------------------------------------------
(* Types.                                                                  *)

\* No call leaves the contract's storage ill typed.
LEMMA TypeStep == TypeOK /\ [Next]_vars => TypeOK'
<1> SUFFICES ASSUME TypeOK, [Next]_vars
             PROVE  TypeOK'
  OBVIOUS
<1> USE DEF TypeOK
<1>1. ASSUME NEW sender \in Sender, NEW a \in Address, AuthorizeIssuer(sender, a)
      PROVE  TypeOK'
  BY <1>1 DEF AuthorizeIssuer, MayBecomeIssuer, Sender, recordVars, ValidCertHash,
              ValidCertUid
<1>2. ASSUME NEW sender \in Sender, NEW a \in Address, DeauthorizeIssuer(sender, a)
      PROVE  TypeOK'
  BY <1>2 DEF DeauthorizeIssuer, recordVars, ValidCertHash, ValidCertUid
<1>3. ASSUME NEW sender \in Sender, NEW a \in Address, TransferOwnership(sender, a)
      PROVE  TypeOK'
  BY <1>3 DEF TransferOwnership, Sender, recordVars, ValidCertHash, ValidCertUid
<1>4. ASSUME NEW sender \in Sender, NEW uid \in Uid, NEW hash \in Hash,
             StoreCertificate(sender, uid, hash)
      PROVE  TypeOK'
  BY <1>4 DEF StoreCertificate, CanStore, Sender, CertificateRecord,
              CertificateStatus, ValidCertHash, ValidCertUid
<1>5. ASSUME NEW sender \in Sender, NEW uid \in Uid, RevokeCertificate(sender, uid)
      PROVE  TypeOK'
  BY <1>5 DEF RevokeCertificate, CanRevoke, CertificateMustExist, Sender,
              CertificateRecord, CertificateStatus, ValidCertHash, ValidCertUid
<1>6. CASE UNCHANGED vars
  BY <1>6 DEF vars, recordVars, ValidCertHash, ValidCertUid
<1> QED
  BY <1>1, <1>2, <1>3, <1>4, <1>5, <1>6 DEF Next

\* The freshly deployed contract is well typed.
LEMMA TypeInit == Init => TypeOK
  BY DEF Init, TypeOK, EmptyRecord, CertificateRecord, CertificateStatus, Sender

\* A written record is a real one: the constructor and the five functions
\* leave the contract's storage well typed.
THEOREM TypeCorrect == Spec => []TypeOK
  BY TypeInit, TypeStep, PTL DEF Spec

-----------------------------------------------------------------------------
(* Counters.  The counters only make sense while the sets they count are   *)
(* finite, which no type says: Uid may be infinite.                        *)

CountedFinitely ==
    /\ IsFiniteSet(Stored)
    /\ IsFiniteSet(Revoked)
    /\ CountersMatchRecords

\* Writing a record adds one UID to Stored and none to Revoked.
LEMMA StoreAddsOne ==
    ASSUME TypeOK, NEW sender \in Sender, NEW uid \in Uid, NEW hash \in Hash,
           StoreCertificate(sender, uid, hash)
    PROVE  /\ uid \notin Stored
           /\ Stored' = Stored \union {uid}
           /\ Revoked' = Revoked
<1>1. certificates' = [certificates EXCEPT ![uid] =
                          [certificateHash |-> hash, issuingUniversity |-> sender,
                           status |-> "ACTIVE", exists |-> TRUE]]
  BY DEF StoreCertificate
<1>2. ~ certificates[uid].exists /\ certificates[uid].status = "ACTIVE"
  BY DEF StoreCertificate, CanStore, TypeOK, EmptyRecord
<1> QED
  BY <1>1, <1>2 DEF Stored, Revoked, TypeOK

\* Revoking a record adds one UID to Revoked and none to Stored.
LEMMA RevokeAddsOne ==
    ASSUME TypeOK, NEW sender \in Sender, NEW uid \in Uid,
           RevokeCertificate(sender, uid)
    PROVE  /\ uid \notin Revoked
           /\ Revoked' = Revoked \union {uid}
           /\ Stored' = Stored
<1>1. certificates' = [certificates EXCEPT ![uid].status = "REVOKED"]
  BY DEF RevokeCertificate
<1>2. certificates[uid].exists /\ certificates[uid].status = "ACTIVE"
  BY DEF RevokeCertificate, CanRevoke, CertificateMustExist, CertificateMustBeActive
<1>3. \A u \in Uid : /\ u # uid => certificates'[u] = certificates[u]
                     /\ certificates'[uid].status = "REVOKED"
                     /\ certificates'[uid].exists
  BY <1>1, <1>2 DEF TypeOK, CertificateRecord
<1> QED
  BY <1>2, <1>3 DEF Stored, Revoked

\* getCertificateCount and getRevocationCount are right for any number of UIDs.
THEOREM CountersCorrect == Spec => []CountersMatchRecords
<1>1. Init => CountedFinitely
  <2> SUFFICES ASSUME Init PROVE CountedFinitely
    OBVIOUS
  <2>1. Stored = {} /\ Revoked = {}
    BY DEF Init, Stored, Revoked, EmptyRecord
  <2> QED
    BY <2>1, FS_EmptySet DEF Init, CountedFinitely, CountersMatchRecords
<1>2. TypeOK /\ CountedFinitely /\ [Next]_vars => CountedFinitely'
  <2> SUFFICES ASSUME TypeOK, CountedFinitely, [Next]_vars
               PROVE  CountedFinitely'
    OBVIOUS
  <2>1. ASSUME UNCHANGED recordVars
        PROVE  CountedFinitely'
    BY <2>1 DEF recordVars, CountedFinitely, CountersMatchRecords, Stored, Revoked
  <2>2. ASSUME NEW sender \in Sender, NEW uid \in Uid, NEW hash \in Hash,
               StoreCertificate(sender, uid, hash)
        PROVE  CountedFinitely'
    <3>1. /\ uid \notin Stored
          /\ Stored' = Stored \union {uid}
          /\ Revoked' = Revoked
      BY <2>2, StoreAddsOne
    <3>2. IsFiniteSet(Stored \union {uid}) /\
          Cardinality(Stored \union {uid}) = Cardinality(Stored) + 1
      BY <3>1, FS_AddElement DEF CountedFinitely
    <3> QED
      BY <2>2, <3>1, <3>2 DEF StoreCertificate, CountedFinitely, CountersMatchRecords
  <2>3. ASSUME NEW sender \in Sender, NEW uid \in Uid, RevokeCertificate(sender, uid)
        PROVE  CountedFinitely'
    <3>1. /\ uid \notin Revoked
          /\ Revoked' = Revoked \union {uid}
          /\ Stored' = Stored
      BY <2>3, RevokeAddsOne
    <3>2. IsFiniteSet(Revoked \union {uid}) /\
          Cardinality(Revoked \union {uid}) = Cardinality(Revoked) + 1
      BY <3>1, FS_AddElement DEF CountedFinitely
    <3> QED
      BY <2>3, <3>1, <3>2 DEF RevokeCertificate, CountedFinitely, CountersMatchRecords
  <2> QED
    BY <2>1, <2>2, <2>3
    DEF Next, vars, AuthorizeIssuer, DeauthorizeIssuer, TransferOwnership
<1>3. CountedFinitely => CountersMatchRecords
  BY DEF CountedFinitely
<1> QED
  BY <1>1, <1>2, <1>3, TypeCorrect, PTL DEF Spec

-----------------------------------------------------------------------------
(* Records.                                                                *)

\* What a step can do to the record of a UID.
LEMMA RecordSteps ==
    ASSUME TypeOK, [Next]_vars, NEW uid \in Uid
    PROVE  \/ certificates'[uid] = certificates[uid]
           \/ /\ ~ certificates[uid].exists
              /\ certificates'[uid].exists
              /\ certificates'[uid].status = "ACTIVE"
              /\ certificates'[uid].issuingUniversity \in authorizedIssuers
           \/ /\ certificates[uid].exists
              /\ certificates[uid].status = "ACTIVE"
              /\ certificates[uid].issuingUniversity \in authorizedIssuers
              /\ certificates'[uid].exists
              /\ certificates'[uid].status = "REVOKED"
              /\ certificates'[uid].certificateHash = certificates[uid].certificateHash
              /\ certificates'[uid].issuingUniversity = certificates[uid].issuingUniversity
              /\ totalRevocations' = totalRevocations + 1
<1>1. ASSUME UNCHANGED certificates
      PROVE  certificates'[uid] = certificates[uid]
  BY <1>1
<1>2. ASSUME NEW sender \in Sender, NEW u \in Uid, NEW hash \in Hash,
             StoreCertificate(sender, u, hash)
      PROVE  \/ certificates'[uid] = certificates[uid]
             \/ /\ ~ certificates[uid].exists
                /\ certificates'[uid].exists
                /\ certificates'[uid].status = "ACTIVE"
                /\ certificates'[uid].issuingUniversity \in authorizedIssuers
  BY <1>2 DEF StoreCertificate, CanStore, OnlyAuthorizedIssuer, TypeOK
<1>3. ASSUME NEW sender \in Sender, NEW u \in Uid, RevokeCertificate(sender, u)
      PROVE  \/ certificates'[uid] = certificates[uid]
             \/ /\ certificates[uid].exists
                /\ certificates[uid].status = "ACTIVE"
                /\ certificates[uid].issuingUniversity \in authorizedIssuers
                /\ certificates'[uid].exists
                /\ certificates'[uid].status = "REVOKED"
                /\ certificates'[uid].certificateHash = certificates[uid].certificateHash
                /\ certificates'[uid].issuingUniversity = certificates[uid].issuingUniversity
                /\ totalRevocations' = totalRevocations + 1
  BY <1>3 DEF RevokeCertificate, CanRevoke, OnlyAuthorizedIssuer, OnlyOriginalIssuer,
              CertificateMustExist, CertificateMustBeActive, TypeOK,
              CertificateRecord
<1> QED
  BY <1>1, <1>2, <1>3
  DEF Next, vars, recordVars, AuthorizeIssuer, DeauthorizeIssuer, TransferOwnership

\* A record is write-once and its revocation is permanent.
THEOREM RecordsFinal == Spec => RecordsAreFinal
<1>1. TypeOK /\ [Next]_vars =>
      [\A uid \in Uid :
          certificates[uid].exists =>
             /\ certificates'[uid].exists
             /\ certificates'[uid].certificateHash = certificates[uid].certificateHash
             /\ certificates'[uid].issuingUniversity = certificates[uid].issuingUniversity
             /\ certificates[uid].status = "REVOKED" => certificates'[uid].status = "REVOKED"]_vars
  <2> SUFFICES ASSUME TypeOK, [Next]_vars, NEW uid \in Uid, certificates[uid].exists
               PROVE  /\ certificates'[uid].exists
                      /\ certificates'[uid].certificateHash = certificates[uid].certificateHash
                      /\ certificates'[uid].issuingUniversity = certificates[uid].issuingUniversity
                      /\ certificates[uid].status = "REVOKED" => certificates'[uid].status = "REVOKED"
    OBVIOUS
  <2>1. certificates[uid] \in CertificateRecord
    BY DEF TypeOK
  <2> QED
    BY <2>1, RecordSteps DEF CertificateRecord
<1> QED
  BY <1>1, TypeCorrect, PTL DEF Spec, RecordsAreFinal

\* Only the whitelisted writer of a record can have it revoked.
THEOREM RevokersAreIssuers == Spec => RevocationNeedsTheIssuer
<1>1. TypeOK /\ [Next]_vars =>
      [\A uid \in Uid :
          /\ certificates[uid].status = "ACTIVE"
          /\ certificates'[uid].status = "REVOKED"
          => certificates[uid].issuingUniversity \in authorizedIssuers]_vars
  BY RecordSteps
<1> QED
  BY <1>1, TypeCorrect, PTL DEF Spec, RevocationNeedsTheIssuer

\* Neither a change of the whitelist nor of the owner invalidates a certificate.
THEOREM AuthenticityStable == Spec => AuthenticityLostOnlyByRevocation
<1>1. TypeOK /\ [Next]_vars =>
      [\A uid \in Uid, hash \in Hash :
          /\ VerifyCertificate(uid, hash).isAuthentic
          /\ ~ VerifyCertificate(uid, hash)'.isAuthentic
          => totalRevocations' = totalRevocations + 1]_vars
  <2> SUFFICES ASSUME TypeOK, [Next]_vars, NEW uid \in Uid, NEW hash \in Hash,
                      VerifyCertificate(uid, hash).isAuthentic,
                      ~ VerifyCertificate(uid, hash)'.isAuthentic
               PROVE  totalRevocations' = totalRevocations + 1
    OBVIOUS
  <2>1. certificates[uid].exists /\ certificates'[uid] # certificates[uid]
    BY DEF VerifyCertificate
  <2> QED
    BY <2>1, RecordSteps
<1> QED
  BY <1>1, TypeCorrect, PTL DEF Spec, AuthenticityLostOnlyByRevocation
=============================================================================
