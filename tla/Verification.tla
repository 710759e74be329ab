------------------------------ MODULE Verification ------------------------------
(***************************************************************************)
(* What an employer or the scanner of a QR code is told                    *)
(* (services/verification_service.py), over the abstract ledger that the   *)
(* issuance and revocation requests implement (CredentialLifecycle).       *)
(*                                                                         *)
(* A verification reads the certificate, and if the database says          *)
(* CONFIRMED it asks the contract, then asks it again for the record shown *)
(* as proof.  Either call may find the node unreachable; the verification  *)
(* then falls back on the row it loaded.  The answer, the log row and the  *)
(* scan counter are committed together.  The ledger moves between any two  *)
(* of these steps.  The client never sees an answer that is not committed. *)
(***************************************************************************)
EXTENDS Naturals, Sequences, FiniteSets

CONSTANTS
    Cert,        \* certificates; each also names the file it was issued for
    Foreign,     \* a file no certificate was issued for
    Request,     \* slots for verifications in progress
    Null,
    MaxLog,      \* bound: rows of verification_logs
    MaxQr        \* bound: QR codes generated per certificate

Verdict == {"AUTHENTIC", "TAMPERED", "REVOKED", "NOT_FOUND", "PENDING_CHAIN"}

ASSUME VerificationAssumption ==
    /\ Foreign \notin Cert
    /\ Null \notin Cert \union {Foreign} \union Verdict
    /\ MaxLog \in Nat
    /\ MaxQr \in Nat

VARIABLES
    chain, owned, db, codes,   \* the ledger
    scans,       \* total_scan_count of each code
    log,         \* verification_logs
    req          \* verifications in progress

ledgerVars == <<chain, owned, db, codes>>
vars == <<ledgerVars, scans, log, req>>

Ledger == INSTANCE CredentialLedger

File == Cert \union {Foreign}

\* file: the file submitted, Null for a scan; code: the code scanned, 0 for a
\* file; onChain: blockchain_verified.
LogRow ==
    [cert : Cert \union {Null}, file : File \union {Null}, code : 0 .. MaxQr,
     verdict : Verdict, onChain : BOOLEAN]

\* status: the certificate's state as loaded.
RequestState ==
    [pc : {"idle", "scanned", "loaded", "asked", "answered"},
     cert : Cert \union {Null}, file : File \union {Null}, code : 0 .. MaxQr,
     status : Ledger!DbState,
     verdict : Verdict \union {Null}, onChain : BOOLEAN]

Idle ==
    [pc |-> "idle", cert |-> Null, file |-> Null, code |-> 0,
     status |-> "absent", verdict |-> Null, onChain |-> FALSE]

Return(r) == req' = [req EXCEPT ![r] = Idle]

-----------------------------------------------------------------------------
(* Verdicts.                                                               *)

\* Fault: the status of the row returned as the result.
RowStatus(status) == status

\* What is said of a certificate the chain is not asked about.
StatusVerdict(status) ==
    IF status = "revoked" THEN "REVOKED" ELSE "PENDING_CHAIN"

\* Fault: the golden rule forgotten.
TrustDatabase(q) ==
    CASE q.status = "revoked" -> "REVOKED"
      [] q.status # "revoked" /\ q.file \in {q.cert, Null} -> "AUTHENTIC"
      [] OTHER -> "TAMPERED"

\* The fallback when the node cannot be reached.  sha256_hash is UNIQUE, so the
\* hashes agree when the file is the certificate's own.
FallbackVerdict(q) ==
    CASE q.status = "revoked" -> "REVOKED"
      [] q.status # "revoked" /\ q.file \in {q.cert, Null} -> "PENDING_CHAIN"
      [] OTHER -> "TAMPERED"

\* is_valid for the hash submitted, or for sha256_hash when a code is scanned.
\* A record with another hash than the certificate's may match another file.
ValidAnswers(q) ==
    LET own == q.file \in {q.cert, Null} IN
    CASE chain[q.cert].revoked -> {FALSE}
      [] ~ chain[q.cert].revoked /\ chain[q.cert].record = "other" ->
            IF own THEN {FALSE} ELSE BOOLEAN
      [] OTHER -> {chain[q.cert].record = "same" /\ own}

\* Fault: the status in the contract's answer ignored.
IgnoreChainStatus(c, valid) == IF valid THEN "AUTHENTIC" ELSE "TAMPERED"

\* Fault: what the contract does not call authentic taken for revoked.
InvalidIsRevoked(c, valid) == IF valid THEN "AUTHENTIC" ELSE "REVOKED"

\* The decision matrix.
ChainVerdict(c, valid) ==
    CASE chain[c].revoked -> "REVOKED"
      [] ~ chain[c].revoked /\ valid -> "AUTHENTIC"
      [] OTHER -> "TAMPERED"

-----------------------------------------------------------------------------
(* The steps of a verification.                                            *)

AsksChain(status) == status = "confirmed"

\* The request with the certificate loaded: the chain is asked, or the answer
\* is known.
Loaded(q, status) ==
    IF AsksChain(status)
    THEN [q EXCEPT !.pc = "loaded", !.status = status]
    ELSE [q EXCEPT !.pc = "answered", !.status = status,
                   !.verdict = StatusVerdict(status)]

\* The certificate with the UID given as a hint, else the one with the hash.
Lookup(hint, file) ==
    CASE hint # Null -> hint
      [] hint = Null /\ file \in Cert /\ db[file] # "absent" -> file
      [] OTHER -> Null

\* verify_by_file_upload, up to the lookup.  A hint that names no certificate
\* is as good as none.
VerifyFile(r, hint, file) ==
    LET c == Lookup(hint, file)
        q == [Idle EXCEPT !.cert = c, !.file = file]
    IN  /\ req[r] = Idle
        /\ hint # Null => db[hint] # "absent"
        /\ req' = [req EXCEPT ![r] =
              IF c = Null
              THEN [q EXCEPT !.pc = "answered", !.verdict = "NOT_FOUND"]
              ELSE Loaded(q, db[c])]
        /\ UNCHANGED <<ledgerVars, scans, log>>

\* verify_by_qr_token: a code that is not active is answered NOT_FOUND at once,
\* without a log row, and is no step.  Codes are generated without expiry.
ScanQr(r, c, i) ==
    /\ req[r] = Idle
    /\ i \in 1 .. Len(codes[c])
    /\ codes[c][i]
    /\ req' = [req EXCEPT ![r] =
                  [Idle EXCEPT !.pc = "scanned", !.cert = c, !.code = i]]
    /\ UNCHANGED <<ledgerVars, scans, log>>

LoadScanned(r) ==
    /\ req[r].pc = "scanned"
    /\ req' = [req EXCEPT ![r] = Loaded(req[r], db[req[r].cert])]
    /\ UNCHANGED <<ledgerVars, scans, log>>

\* The node cannot be reached: the verdict taken so far is replaced.
FallBack(r) ==
    /\ req[r].pc \in {"loaded", "asked"}
    /\ req' = [req EXCEPT ![r].pc = "answered",
                          ![r].verdict = FallbackVerdict(req[r]),
                          ![r].onChain = FALSE]
    /\ UNCHANGED <<ledgerVars, scans, log>>

\* verifyCertificate
AskChain(r) ==
    /\ req[r].pc = "loaded"
    /\ \E valid \in ValidAnswers(req[r]) :
          req' = [req EXCEPT ![r].pc = "asked",
                             ![r].verdict = ChainVerdict(req[r].cert, valid),
                             ![r].onChain = TRUE]
    /\ UNCHANGED <<ledgerVars, scans, log>>

\* getCertificateRecord, for the proof.
FetchRecord(r) ==
    /\ req[r].pc = "asked"
    /\ req' = [req EXCEPT ![r].pc = "answered"]
    /\ UNCHANGED <<ledgerVars, scans, log>>

\* chk_vlog_tampered_has_both_hashes and chk_vlog_authentic_hash_match: a scan
\* submits no hash, and NULL = TRUE does not fail a check.
LogAccepts(q) ==
    /\ q.verdict = "TAMPERED" => q.file # Null
    /\ q.verdict = "AUTHENTIC" => q.file \in {q.cert, Null}

\* Fault: only scans the chain answered are counted.
CountOnChain(q) == q.onChain

Counted(q) == q.code # 0

\* increment_scan_count, the log row and the end of the block.
Answer(r) ==
    LET q == req[r] IN
    /\ q.pc = "answered"
    /\ LogAccepts(q)
    /\ Len(log) < MaxLog
    /\ log' = Append(log, [cert |-> q.cert, file |-> q.file, code |-> q.code,
                           verdict |-> q.verdict, onChain |-> q.onChain])
    /\ scans' = IF q.code # 0 /\ Counted(q)
                THEN [scans EXCEPT ![q.cert][q.code] = @ + 1]
                ELSE scans
    /\ Return(r)
    /\ UNCHANGED ledgerVars

\* The log's constraints refuse the row, the contract call raises an error that
\* is not handled, or the worker dies: nothing is committed.
Fail(r) ==
    /\ req[r] # Idle
    /\ Return(r)
    /\ UNCHANGED <<ledgerVars, scans, log>>

-----------------------------------------------------------------------------
(* The rest of the system.                                                 *)

LedgerMoves ==
    /\ Ledger!LedgerNext
    /\ UNCHANGED <<scans, log, req>>

Init ==
    /\ Ledger!LedgerInit
    /\ scans = [c \in Cert |-> [i \in 1 .. MaxQr |-> 0]]
    /\ log = << >>
    /\ req = [r \in Request |-> Idle]

Verify(r) ==
    \/ LoadScanned(r)
    \/ AskChain(r)
    \/ FetchRecord(r)
    \/ FallBack(r)
    \/ Answer(r)
    \/ Fail(r)

Next ==
    \/ LedgerMoves
    \/ \E r \in Request :
          \/ \E hint \in Cert \union {Null}, file \in File : VerifyFile(r, hint, file)
          \/ \E c \in Cert, i \in 1 .. MaxQr : ScanQr(r, c, i)
          \/ Verify(r)

Spec == Init /\ [][Next]_vars

-----------------------------------------------------------------------------
(* Correctness.                                                            *)

\* Rows and verifications in progress hold values their columns allow.
VerificationTypeOK ==
    /\ Ledger!LedgerTypeOK
    /\ scans \in [Cert -> [1 .. MaxQr -> Nat]]
    /\ log \in Seq(LogRow)
    /\ req \in [Request -> RequestState]

\* The golden rule: AUTHENTIC is only ever logged after the contract was asked,
\* the record it was asked about still carries the hash of the file, and it is
\* one that the university itself wrote.
AuthenticIsBacked ==
    \A i \in 1 .. Len(log) :
        log[i].verdict = "AUTHENTIC" =>
            /\ log[i].onChain
            /\ chain[log[i].cert].record = "same"
            /\ log[i].cert \in owned
            /\ log[i].file \in {log[i].cert, Null}

\* REVOKED is never a false alarm, whether the chain, the fallback or the
\* status column said so.
RevokedIsTrue ==
    \A i \in 1 .. Len(log) :
        log[i].verdict = "REVOKED" => chain[log[i].cert].revoked

\* The file a certificate was issued for is never reported as tampered with,
\* nor a scanned code, whose log row the check constraint would refuse.
GenuineIsNotTampered ==
    \A r \in Request :
        req[r].verdict = "TAMPERED" => req[r].file \notin {req[r].cert, Null}

\* Once somebody was told REVOKED, nobody's verification takes AUTHENTIC from
\* the chain any more, whatever it loaded before.
NoAuthenticAfterRevoked ==
    [][\A r \in Request :
          /\ req[r].verdict # "AUTHENTIC"
          /\ req'[r].verdict = "AUTHENTIC"
          => ~ \E i \in 1 .. Len(log) :
                  log[i].cert = req[r].cert /\ log[i].verdict = "REVOKED"]_vars

\* total_scan_count counts the log rows of the code: concurrent scans are not
\* lost, nor scans counted whose verification failed (increment_scan_count).
ScansAreLogged ==
    \A c \in Cert, i \in 1 .. MaxQr :
        scans[c][i] =
            Cardinality({k \in 1 .. Len(log) : log[k].cert = c /\ log[k].code = i})

\* "if blockchain_call.status == REVOKED: result = REVOKED" (docs/backend.md,
\* the tamper detection algorithm): an answer the contract gave is kept.
ChainAnswerIsKept ==
    [][\A r \in Request :
          /\ req[r].pc = "asked" /\ req[r].verdict = "REVOKED"
          /\ req'[r].pc = "answered"
          => req'[r].verdict = "REVOKED"]_vars
=============================================================================
