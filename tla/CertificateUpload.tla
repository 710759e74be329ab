--------------------------- MODULE CertificateUpload ---------------------------
(***************************************************************************)
(* Phase 1 of an issuance (upload_and_hash_certificate) step by step: the  *)
(* allocation of the certificate's UID, the uniqueness of the file, and    *)
(* the copy on disk.  CredentialLifecycle takes it as one step.            *)
(*                                                                         *)
(* The statements of the transaction see what others have committed (READ  *)
(* COMMITTED).  The insertion waits for a conflicting row's transaction    *)
(* and the transaction commits right after it, so the constraints are      *)
(* checked in the step that commits.                                       *)
(***************************************************************************)
EXTENDS Integers, FiniteSets, FiniteSetsExt

CONSTANTS
    University,   \* each with its short code
    File,         \* files, told apart by their SHA-256
    CertId,       \* uuid4() of the certificates, which name their files on disk
    Request,      \* slots for uploads in progress
    Null,
    MaxSequence,  \* the last number the UID's format has room for
    MaxYear       \* bound: calendar years

ASSUME UploadAssumption ==
    /\ Null \notin University \union File \union CertId
    /\ MaxSequence \in Nat
    /\ MaxYear \in Nat

VARIABLES
    mayIssue,       \* universities that are verified and have a wallet
    certificates,   \* rows of certificates
    disk,           \* files under uploads/certificates
    year,           \* date.today().year
    req             \* uploads in progress

vars == <<mayIssue, certificates, disk, year, req>>

\* The UID is the short code, the year and the number.
CertificateRow ==
    [id : CertId, university : University, year : 0 .. MaxYear,
     sequence : 1 .. MaxSequence, hash : File]

\* refused: the upload ended in an error, which its client is about to have.
UploadState ==
    [pc : {"idle", "began", "numbered", "unique", "saved", "refused"},
     university : University \union {Null}, file : File \union {Null},
     id : CertId \union {Null}, year : 0 .. MaxYear, sequence : 0 .. MaxSequence + 1]

Idle ==
    [pc |-> "idle", university |-> Null, file |-> Null, id |-> Null,
     year |-> 0, sequence |-> 0]

Return(r) == req' = [req EXCEPT ![r] = Idle]

Refuse(r) == req' = [req EXCEPT ![r] = [Idle EXCEPT !.pc = "refused"]]

-----------------------------------------------------------------------------

Numbers(u, y) ==
    {c.sequence : c \in {d \in certificates : d.university = u /\ d.year = y}}

\* Fault: the number reserved when it is read, as by a database sequence.
ReservedSequence(u, y) ==
    Max(Numbers(u, y) \union {0} \union
        {req[r].sequence : r \in {s \in Request : req[s].university = u
                                                  /\ req[s].year = y}}) + 1

\* get_next_uid_sequence.  With five digits each, the greatest UID as a string
\* has the greatest number.
NextSequence(u, y) == Max(Numbers(u, y) \union {0}) + 1

\* Fault: UNIQUE forgotten on sha256_hash.
UniqueUidOnly(q) ==
    /\ q.sequence <= MaxSequence
    /\ q.sequence \notin Numbers(q.university, q.year)

\* Fault: the format of the UID not checked.
AnyNumber(q) ==
    /\ q.sequence \notin Numbers(q.university, q.year)
    /\ q.file \notin {c.hash : c \in certificates}

\* chk_certificates_uid_format and the UNIQUE columns.
InsertAllowed(q) ==
    /\ q.sequence <= MaxSequence
    /\ q.sequence \notin Numbers(q.university, q.year)
    /\ q.file \notin {c.hash : c \in certificates}

\* Guards on the university and its wallet; the recipient is a student.
Begin(r, u, f) ==
    /\ req[r] = Idle
    /\ u \in mayIssue
    /\ req' = [req EXCEPT ![r] =
                  [Idle EXCEPT !.pc = "began", !.university = u, !.file = f]]
    /\ UNCHANGED <<mayIssue, certificates, disk, year>>

ReadSequence(r) ==
    /\ req[r].pc = "began"
    /\ req' = [req EXCEPT ![r].pc = "numbered",
                          ![r].year = year,
                          ![r].sequence = NextSequence(req[r].university, year)]
    /\ UNCHANGED <<mayIssue, certificates, disk, year>>

\* get_by_hash; a file that has a certificate is refused.
CheckHash(r) ==
    /\ req[r].pc = "numbered"
    /\ \/ /\ req[r].file \notin {c.hash : c \in certificates}
          /\ req' = [req EXCEPT ![r].pc = "unique"]
       \/ /\ req[r].file \in {c.hash : c \in certificates}
          /\ Refuse(r)
    /\ UNCHANGED <<mayIssue, certificates, disk, year>>

NameTaken(id) ==
    \/ disk[id] # Null
    \/ \E c \in certificates : c.id = id
    \/ \E r \in Request : req[r].id = id

\* Fault: the file written once the row is committed.
WriteLater(id, f) == disk

Written(id, f) == [disk EXCEPT ![id] = f]

\* save_certificate, under a fresh name.
SaveFile(r, id) ==
    /\ req[r].pc = "unique"
    /\ ~ NameTaken(id)
    /\ disk' = Written(id, req[r].file)
    /\ req' = [req EXCEPT ![r].pc = "saved", ![r].id = id]
    /\ UNCHANGED <<mayIssue, certificates, year>>

\* CertificateRepository.create, the PENDING transaction row, and the commit.
Commit(r) ==
    LET q == req[r] IN
    /\ q.pc = "saved"
    /\ InsertAllowed(q)
    /\ certificates' = certificates \union
          {[id |-> q.id, university |-> q.university, year |-> q.year,
            sequence |-> q.sequence, hash |-> q.file]}
    /\ Return(r)
    /\ UNCHANGED <<mayIssue, disk, year>>

\* IntegrityError: the transaction is rolled back, the file stays.
Rollback(r) ==
    /\ req[r].pc = "saved"
    /\ ~ InsertAllowed(req[r])
    /\ Refuse(r)
    /\ UNCHANGED <<mayIssue, certificates, disk, year>>

\* The client has the error; it may start over.
Respond(r) ==
    /\ req[r].pc = "refused"
    /\ Return(r)
    /\ UNCHANGED <<mayIssue, certificates, disk, year>>

\* The worker dies or the disk is full: whatever was written stays.
Crash(r) ==
    /\ req[r].pc \notin {"idle", "refused"}
    /\ Return(r)
    /\ UNCHANGED <<mayIssue, certificates, disk, year>>

\* verify_university and update_wallet_address; neither is ever taken back.
Admit(u) ==
    /\ u \notin mayIssue
    /\ mayIssue' = mayIssue \union {u}
    /\ UNCHANGED <<certificates, disk, year, req>>

NewYear ==
    /\ year < MaxYear
    /\ year' = year + 1
    /\ UNCHANGED <<mayIssue, certificates, disk, req>>

Init ==
    /\ mayIssue = {}
    /\ certificates = {}
    /\ disk = [id \in CertId |-> Null]
    /\ year = 0
    /\ req = [r \in Request |-> Idle]

Upload(r) ==
    \/ ReadSequence(r)
    \/ CheckHash(r)
    \/ \E id \in CertId : SaveFile(r, id)
    \/ Commit(r)
    \/ Rollback(r)
    \/ Respond(r)
    \/ Crash(r)

Next ==
    \/ \E r \in Request, u \in University, f \in File : Begin(r, u, f)
    \/ \E r \in Request : Upload(r)
    \/ \E u \in University : Admit(u)
    \/ NewYear

Spec == Init /\ [][Next]_vars

-----------------------------------------------------------------------------
(* Correctness.                                                            *)

\* A number may be read that the UID has no room for, but no row has it.
UploadTypeOK ==
    /\ mayIssue \subseteq University
    /\ certificates \subseteq CertificateRow
    /\ disk \in [CertId -> File \union {Null}]
    /\ year \in 0 .. MaxYear
    /\ req \in [Request -> UploadState]

\* The numbers of a university's year run from 1 without gaps or repetitions,
\* though the number is read long before the row is inserted, uploads fail
\* after they read it, and the year may turn meanwhile (get_next_uid_sequence).
NumbersHaveNoGaps ==
    \A u \in University, y \in 0 .. MaxYear :
        Numbers(u, y) =
            1 .. Cardinality({c \in certificates : c.university = u /\ c.year = y})

\* A row's file is on disk, the one whose hash the row holds: no crash and no
\* concurrent upload separates them (save_certificate before the insertion).
RowsHaveFiles == \A c \in certificates : disk[c.id] = c.hash

\* A file has one certificate, whoever checks its hash at the same time: a
\* verification by hash finds at most one row (get_by_hash).
FileHasOneCertificate ==
    \A c, d \in certificates : c.hash = d.hash => c = d
=============================================================================
