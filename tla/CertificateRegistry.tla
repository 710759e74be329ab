------------------------- MODULE CertificateRegistry -------------------------
(***************************************************************************)
(* The smart contract blockchain/contracts/CertificateRegistry.sol: a      *)
(* whitelist of issuers kept by an owner, and one write-once record per    *)
(* certificate UID that only the issuer that wrote it may revoke.          *)
(*                                                                         *)
(* A call either performs all of its effects or reverts without any, so an *)
(* action is a call that succeeds: the function's modifiers and checks are *)
(* its guard, in the order the contract lists them.  A call that reverts   *)
(* changes nothing and is not a step of this module.  Events and block     *)
(* timestamps are left out.                                                *)
(***************************************************************************)
EXTENDS Naturals, FiniteSets

CONSTANTS
    Address,      \* the accounts that may appear as sender or argument
    ZeroAddress,  \* address(0)
    Deployer,     \* the account that deployed the contract
    Uid,          \* the strings that may be sent as certUid
    UidLength,    \* bytes(certUid).length of each of them
    Hash,         \* the 32-byte values that may be sent as certHash
    ZeroHash      \* bytes32(0)

ASSUME RegistryAssumption ==
    /\ ZeroAddress \in Address
    /\ Deployer \in Address \ {ZeroAddress}
    /\ ZeroHash \in Hash
    /\ UidLength \in [Uid -> Nat]

VARIABLES
    owner,
    authorizedIssuers,
    certificates,
    totalCertificates,
    totalRevocations

recordVars == <<certificates, totalCertificates, totalRevocations>>
vars == <<owner, authorizedIssuers, recordVars>>

\* msg.sender is never address(0).
Sender == Address \ {ZeroAddress}

CertificateStatus == {"ACTIVE", "REVOKED"}

CertificateRecord ==
    [certificateHash : Hash,
     issuingUniversity : Address,
     status : CertificateStatus,
     exists : BOOLEAN]

\* What reading an unwritten mapping entry returns.
EmptyRecord ==
    [certificateHash |-> ZeroHash,
     issuingUniversity |-> ZeroAddress,
     status |-> "ACTIVE",
     exists |-> FALSE]

Stored == {uid \in Uid : certificates[uid].exists}
Revoked == {uid \in Uid : certificates[uid].status = "REVOKED"}

-----------------------------------------------------------------------------
(* Modifiers.                                                              *)

OnlyOwner(sender) == sender = owner

OnlyAuthorizedIssuer(sender) == sender \in authorizedIssuers

CertificateMustExist(uid) == certificates[uid].exists

CertificateMustBeActive(uid) == certificates[uid].status = "ACTIVE"

\* Fault: the modifier forgotten.
AnyIssuer(sender, uid) == TRUE

OnlyOriginalIssuer(sender, uid) == certificates[uid].issuingUniversity = sender

ValidCertHash(hash) == hash # ZeroHash

ValidCertUid(uid) == UidLength[uid] \in 1 .. 50

-----------------------------------------------------------------------------
(* Administration.                                                         *)

\* Fault: the zero-address check forgotten.
AnyNewIssuer(issuer) == issuer # owner /\ issuer \notin authorizedIssuers

MayBecomeIssuer(issuer) ==
    /\ issuer # ZeroAddress
    /\ issuer # owner
    /\ issuer \notin authorizedIssuers

AuthorizeIssuer(sender, issuer) ==
    /\ OnlyOwner(sender)
    /\ MayBecomeIssuer(issuer)
    /\ authorizedIssuers' = authorizedIssuers \union {issuer}
    /\ UNCHANGED <<owner, recordVars>>

DeauthorizeIssuer(sender, issuer) ==
    /\ OnlyOwner(sender)
    /\ issuer \in authorizedIssuers
    /\ authorizedIssuers' = authorizedIssuers \ {issuer}
    /\ UNCHANGED <<owner, recordVars>>

TransferOwnership(sender, newOwner) ==
    /\ OnlyOwner(sender)
    /\ newOwner # ZeroAddress
    /\ newOwner # owner
    /\ owner' = newOwner
    /\ UNCHANGED <<authorizedIssuers, recordVars>>

-----------------------------------------------------------------------------
(* Records.  The guards are named because the off-chain model asks whether *)
(* a call would revert.                                                    *)

\* Fault: the duplicate check forgotten.
CanStoreAgain(sender, uid, hash) ==
    /\ OnlyAuthorizedIssuer(sender)
    /\ ValidCertUid(uid)
    /\ ValidCertHash(hash)

CanStore(sender, uid, hash) ==
    /\ OnlyAuthorizedIssuer(sender)
    /\ ValidCertUid(uid)
    /\ ValidCertHash(hash)
    /\ ~ certificates[uid].exists

StoreCertificate(sender, uid, hash) ==
    /\ CanStore(sender, uid, hash)
    /\ certificates' = [certificates EXCEPT ![uid] =
                            [certificateHash |-> hash,
                             issuingUniversity |-> sender,
                             status |-> "ACTIVE",
                             exists |-> TRUE]]
    /\ totalCertificates' = totalCertificates + 1
    /\ UNCHANGED <<owner, authorizedIssuers, totalRevocations>>

\* Fault: the counter bumped before the active check can revert.
CanRevokeAgain(sender, uid) ==
    /\ OnlyAuthorizedIssuer(sender)
    /\ CertificateMustExist(uid)
    /\ OnlyOriginalIssuer(sender, uid)

CanRevoke(sender, uid) ==
    /\ OnlyAuthorizedIssuer(sender)
    /\ CertificateMustExist(uid)
    /\ CertificateMustBeActive(uid)
    /\ OnlyOriginalIssuer(sender, uid)

RevokeCertificate(sender, uid) ==
    /\ CanRevoke(sender, uid)
    /\ certificates' = [certificates EXCEPT ![uid].status = "REVOKED"]
    /\ totalRevocations' = totalRevocations + 1
    /\ UNCHANGED <<owner, authorizedIssuers, totalCertificates>>

-----------------------------------------------------------------------------
(* View functions.                                                         *)

\* Fault: authenticity made to depend on the issuer's current authorisation.
VerifyWhileAuthorized(uid, hash) ==
    LET record == certificates[uid] IN
    [isAuthentic |-> /\ record.exists
                     /\ record.status = "ACTIVE"
                     /\ record.issuingUniversity \in authorizedIssuers
                     /\ record.certificateHash = hash,
     status |-> record.status]

VerifyCertificate(uid, hash) ==
    LET record == certificates[uid] IN
    [isAuthentic |-> /\ record.exists
                     /\ record.status = "ACTIVE"
                     /\ record.certificateHash = hash,
     status |-> record.status]

GetCertificateRecord(uid) == certificates[uid]

IsAuthorizedIssuer(wallet) == wallet \in authorizedIssuers

-----------------------------------------------------------------------------

Init ==
    /\ owner = Deployer
    /\ authorizedIssuers = {}
    /\ certificates = [uid \in Uid |-> EmptyRecord]
    /\ totalCertificates = 0
    /\ totalRevocations = 0

Next ==
    \E sender \in Sender :
        \/ \E a \in Address : AuthorizeIssuer(sender, a)
        \/ \E a \in Address : DeauthorizeIssuer(sender, a)
        \/ \E a \in Address : TransferOwnership(sender, a)
        \/ \E uid \in Uid, hash \in Hash : StoreCertificate(sender, uid, hash)
        \/ \E uid \in Uid : RevokeCertificate(sender, uid)

Spec == Init /\ [][Next]_vars

-----------------------------------------------------------------------------
(* Correctness.                                                            *)

\* Storage is well typed: the zero address never reaches the whitelist or the
\* owner slot (authorizeIssuer, transferOwnership), an unwritten record is the
\* zero struct, and what is written has a real hash and a UID of legal length.
TypeOK ==
    /\ owner \in Sender
    /\ authorizedIssuers \subseteq Sender
    /\ certificates \in [Uid -> CertificateRecord]
    /\ \A uid \in Uid :
          IF certificates[uid].exists
          THEN /\ ValidCertHash(certificates[uid].certificateHash)
               /\ ValidCertUid(uid)
               /\ certificates[uid].issuingUniversity \in Sender
          ELSE certificates[uid] = EmptyRecord
    /\ totalCertificates \in Nat
    /\ totalRevocations \in Nat

\* The two monotonic counters, which getCertificateCount and
\* getRevocationCount publish, count the records: no path increments one
\* without writing exactly one record, nor revokes the same record twice.
CountersMatchRecords ==
    /\ totalCertificates = Cardinality(Stored)
    /\ totalRevocations = Cardinality(Revoked)

\* A record is written once and revoked at most once: its hash and its issuer
\* never change, it never disappears, and REVOKED is terminal.
RecordsAreFinal ==
    [][\A uid \in Uid :
          certificates[uid].exists =>
             /\ certificates'[uid].exists
             /\ certificates'[uid].certificateHash = certificates[uid].certificateHash
             /\ certificates'[uid].issuingUniversity = certificates[uid].issuingUniversity
             /\ certificates[uid].status = "REVOKED" => certificates'[uid].status = "REVOKED"]_vars

\* A record can only be revoked while the wallet that wrote it is on the
\* whitelist: after deauthorizeIssuer its certificates can be revoked by
\* nobody (modifier chain of revokeCertificate).
RevocationNeedsTheIssuer ==
    [][\A uid \in Uid :
          /\ certificates[uid].status = "ACTIVE"
          /\ certificates'[uid].status = "REVOKED"
          => certificates[uid].issuingUniversity \in authorizedIssuers]_vars

\* Whatever happens to the whitelist or to ownership, a file that
\* verifyCertificate called authentic stays authentic until its certificate is
\* revoked ("Previously stored certificates remain valid", deauthorizeIssuer).
AuthenticityLostOnlyByRevocation ==
    [][\A uid \in Uid, hash \in Hash :
          /\ VerifyCertificate(uid, hash).isAuthentic
          /\ ~ VerifyCertificate(uid, hash)'.isAuthentic
          => totalRevocations' = totalRevocations + 1]_vars
=============================================================================
