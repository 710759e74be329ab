--------------------------- MODULE CredentialLedger ---------------------------
(***************************************************************************)
(* What the platform promises about a certificate, its two ledgers and its *)
(* QR codes, without requests, transactions or wallets: the chain only     *)
(* moves forward, and the database follows it.  The database may lag       *)
(* behind the chain, and may fall back from CONFIRMED, but it never        *)
(* announces what the chain does not back or what somebody else than the   *)
(* university wrote there, a revocation it recorded is final, and a        *)
(* certificate has one active code, once it is on the chain.               *)
(*                                                                         *)
(* CredentialLifecycle implements this specification, and Verification     *)
(* uses it.                                                                *)
(***************************************************************************)
EXTENDS Naturals, Sequences

CONSTANTS
    Cert,
    MaxQr    \* bound: QR codes generated per certificate

VARIABLES
    chain,   \* the record on the chain
    owned,   \* the certificates whose record an address of their university wrote
    db,      \* what the database says of the certificate
    codes    \* its QR codes, in order: is_active of each

ledger == <<chain, owned, db, codes>>

\* "other": a record under this UID whose hash is not the certificate's.
ChainState == [record : {"none", "same", "other"}, revoked : BOOLEAN]
DbState == {"absent", "open", "confirmed", "revoked"}

LedgerTypeOK ==
    /\ chain \in [Cert -> ChainState]
    /\ owned \subseteq Cert
    /\ db \in [Cert -> DbState]
    /\ codes \in [Cert -> Seq(BOOLEAN)]

LedgerInit ==
    /\ chain = [c \in Cert |-> [record |-> "none", revoked |-> FALSE]]
    /\ owned = {}
    /\ db = [c \in Cert |-> "absent"]
    /\ codes = [c \in Cert |-> << >>]

\* A wallet, the university's or another, writes the record, once.
Anchor(c, record) ==
    /\ chain[c].record = "none"
    /\ record # "none"
    /\ chain' = [chain EXCEPT ![c].record = record]
    /\ owned' \in {owned, owned \union {c}}
    /\ UNCHANGED <<db, codes>>

\* A university enters the address that wrote these records.
Adopt(S) ==
    /\ \A c \in S : chain[c].record # "none"
    /\ owned' = owned \union S
    /\ UNCHANGED <<chain, db, codes>>

\* The wallet revokes the record.
RevokeOnChain(c) ==
    /\ chain[c].record # "none"
    /\ ~ chain[c].revoked
    /\ chain' = [chain EXCEPT ![c].revoked = TRUE]
    /\ UNCHANGED <<owned, db, codes>>

Upload(c) ==
    /\ db[c] = "absent"
    /\ db' = [db EXCEPT ![c] = "open"]
    /\ UNCHANGED <<chain, owned, codes>>

Confirm(c) ==
    /\ db[c] = "open"
    /\ chain[c].record = "same"
    /\ c \in owned
    /\ db' = [db EXCEPT ![c] = "confirmed"]
    /\ UNCHANGED <<chain, owned, codes>>

\* A late answer to an older request.
FallBack(c) ==
    /\ db[c] = "confirmed"
    /\ db' = [db EXCEPT ![c] = "open"]
    /\ UNCHANGED <<chain, owned, codes>>

RecordRevocation(c) ==
    /\ db[c] \in {"open", "confirmed"}
    /\ chain[c].revoked
    /\ db' = [db EXCEPT ![c] = "revoked"]
    /\ UNCHANGED <<chain, owned, codes>>

\* The new code replaces all older ones.  The certificate is anchored, though
\* its status may have changed since it was confirmed.
GenerateQr(c) ==
    /\ db[c] # "absent"
    /\ chain[c].record = "same"
    /\ c \in owned
    /\ Len(codes[c]) < MaxQr
    /\ codes' = [codes EXCEPT ![c] = Append([i \in 1 .. Len(@) |-> FALSE], TRUE)]
    /\ UNCHANGED <<chain, owned, db>>

LedgerNext ==
    \/ \E S \in SUBSET Cert : Adopt(S)
    \/ \E c \in Cert :
          \/ \E record \in {"same", "other"} : Anchor(c, record)
          \/ RevokeOnChain(c)
          \/ Upload(c)
          \/ Confirm(c)
          \/ FallBack(c)
          \/ RecordRevocation(c)
          \/ GenerateQr(c)

\* Asked first whether the ledger moves at all, TLC tells a stutter sooner.
LedgerStep == ledger' # ledger /\ LedgerNext

LedgerSpec == LedgerInit /\ [][LedgerStep]_ledger
=============================================================================
