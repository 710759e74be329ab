--------------------------- MODULE VerificationProofs ---------------------------
(***************************************************************************)
(* Theorems about the verdicts, for any certificates, files, codes and any *)
(* number of concurrent verifications.                                     *)
(*                                                                         *)
(* The argument: the ledger backs what the database says (LedgerBacked),   *)
(* and nothing it backs is ever taken back.  So what a verification loaded *)
(* or was told may be out of date, but what it concludes from it is still  *)
(* true of the chain when the answer is committed, and afterwards.         *)
(***************************************************************************)
EXTENDS Verification, SequenceTheorems, FiniteSetTheorems, TLAPS

USE VerificationAssumption

-----------------------------------------------------------------------------
(* The ledger.                                                             *)

\* What the database announces the chain backs, under the university's own hand,
\* and so it does for every code generated.
LedgerBacked ==
    \A c \in Cert :
        /\ db[c] = "confirmed" \/ codes[c] # << >> =>
              chain[c].record = "same" /\ c \in owned
        /\ db[c] = "revoked" => chain[c].revoked

\* The chain only grows, and no record changes hands.
ChainGrows ==
    /\ owned \subseteq owned'
    /\ \A c \in Cert :
          /\ chain[c].record # "none" => chain'[c].record = chain[c].record
          /\ chain[c].revoked => chain'[c].revoked

\* A new code replaces the older ones.
LEMMA NewCodes ==
    ASSUME NEW old \in Seq(BOOLEAN)
    PROVE  Append([i \in 1 .. Len(old) |-> FALSE], TRUE) \in Seq(BOOLEAN)
  <1> DEFINE inactive == [i \in 1 .. Len(old) |-> FALSE]
             active == TRUE
  <1>1. Len(old) \in Nat
    OBVIOUS
  <1>2. inactive \in Seq(BOOLEAN)
    BY <1>1, IsASeq
  <1>3. active \in BOOLEAN
    OBVIOUS
  <1> HIDE DEF inactive, active
  <1>4. Append(inactive, active) \in Seq(BOOLEAN)
    BY <1>2, <1>3, AppendProperties
  <1> QED
    BY <1>4 DEF inactive, active

\* A step of the ledger keeps it well typed and backed, and the chain grows.
LEMMA LedgerSteps ==
    ASSUME Ledger!LedgerTypeOK, LedgerBacked,
           Ledger!LedgerNext \/ UNCHANGED ledgerVars
    PROVE  Ledger!LedgerTypeOK' /\ LedgerBacked' /\ ChainGrows
  <1> DEFINE Good == Ledger!LedgerTypeOK' /\ LedgerBacked' /\ ChainGrows
  <1> USE DEF Ledger!LedgerTypeOK, Ledger!ChainState, Ledger!DbState, LedgerBacked, ChainGrows
  <1>1. CASE UNCHANGED ledgerVars
    BY <1>1 DEF ledgerVars
  <1>2. ASSUME NEW c \in Cert, NEW record \in {"same", "other"}, Ledger!Anchor(c, record)
        PROVE  Good
    <2>1. /\ chain[c].record = "none"
          /\ chain' = [chain EXCEPT ![c].record = record]
          /\ db' = db /\ codes' = codes
          /\ owned \subseteq owned' /\ owned' \subseteq Cert
      BY <1>2 DEF Ledger!Anchor
    <2>2. ASSUME NEW d \in Cert
          PROVE  /\ chain'[d] \in Ledger!ChainState
                 /\ chain'[d].revoked = chain[d].revoked
                 /\ chain[d].record # "none" => chain'[d].record = chain[d].record
      <3>0. chain[d] \in Ledger!ChainState
        OBVIOUS
      <3>1. CASE d = c
        <4>1. chain'[d] = [chain[d] EXCEPT !.record = record]
          BY <2>1, <3>1
        <4> QED
          BY <2>1, <3>0, <3>1, <4>1
      <3>2. CASE d # c
        BY <2>1, <3>0, <3>2
      <3> QED
        BY <3>1, <3>2
    <2>3. chain' \in [Cert -> Ledger!ChainState]
      BY <2>1, <2>2
    <2> QED
      BY <2>1, <2>2, <2>3
  <1>3. ASSUME NEW c \in Cert, Ledger!RevokeOnChain(c)
        PROVE  Good
    <2>1. /\ chain' = [chain EXCEPT ![c].revoked = TRUE]
          /\ db' = db /\ codes' = codes /\ owned' = owned
      BY <1>3 DEF Ledger!RevokeOnChain
    <2>2. ASSUME NEW d \in Cert
          PROVE  /\ chain'[d] \in Ledger!ChainState
                 /\ chain'[d].record = chain[d].record
                 /\ chain[d].revoked => chain'[d].revoked
      <3>0. chain[d] \in Ledger!ChainState
        OBVIOUS
      <3>1. CASE d = c
        <4>1. chain'[d] = [chain[d] EXCEPT !.revoked = TRUE]
          BY <2>1, <3>1
        <4> QED
          BY <3>0, <4>1
      <3>2. CASE d # c
        BY <2>1, <3>0, <3>2
      <3> QED
        BY <3>1, <3>2
    <2>3. chain' \in [Cert -> Ledger!ChainState]
      BY <2>1, <2>2
    <2> QED
      BY <2>1, <2>2, <2>3
  <1>4. ASSUME NEW c \in Cert, Ledger!Upload(c)
        PROVE  Good
    BY <1>4 DEF Ledger!Upload
  <1>5. ASSUME NEW c \in Cert, Ledger!Confirm(c)
        PROVE  Good
    BY <1>5 DEF Ledger!Confirm
  <1>6. ASSUME NEW c \in Cert, Ledger!FallBack(c)
        PROVE  Good
    BY <1>6 DEF Ledger!FallBack
  <1>7. ASSUME NEW c \in Cert, Ledger!RecordRevocation(c)
        PROVE  Good
    BY <1>7 DEF Ledger!RecordRevocation
  <1>8. ASSUME NEW S \in SUBSET Cert, Ledger!Adopt(S)
        PROVE  Good
    BY <1>8 DEF Ledger!Adopt
  <1>9. ASSUME NEW c \in Cert, Ledger!GenerateQr(c)
        PROVE  Good
    <2>1. /\ chain[c].record = "same" /\ c \in owned
          /\ codes' = [codes EXCEPT ![c] =
                          Append([i \in 1 .. Len(codes[c]) |-> FALSE], TRUE)]
          /\ UNCHANGED <<chain, owned, db>>
      BY <1>9 DEF Ledger!GenerateQr
    <2>2. codes' \in [Cert -> Seq(BOOLEAN)] /\ \A d \in Cert : d # c => codes'[d] = codes[d]
      <3> DEFINE new == Append([i \in 1 .. Len(codes[c]) |-> FALSE], TRUE)
      <3>1. new \in Seq(BOOLEAN)
        BY NewCodes
      <3> HIDE DEF new
      <3> QED
        BY <2>1, <3>1 DEF new
    <2>3. \A d \in Cert : codes'[d] # << >> => chain[d].record = "same" /\ d \in owned
      BY <2>1, <2>2
    <2> QED
      BY <2>1, <2>2, <2>3
  <1> QED
    BY <1>1, <1>2, <1>3, <1>4, <1>5, <1>6, <1>7, <1>8, <1>9 DEF Ledger!LedgerNext

-----------------------------------------------------------------------------
(* The invariant.                                                          *)

\* What the chain says for a verdict, now and ever after.
Backed(v, c, file, onChain) ==
    /\ v = "AUTHENTIC" =>
          /\ onChain
          /\ c \in Cert /\ chain[c].record = "same" /\ c \in owned
          /\ file \in {c, Null}
    /\ v = "REVOKED" => c \in Cert /\ chain[c].revoked
    /\ v = "TAMPERED" => file \notin {c, Null}

\* What a verification loaded and concluded is backed by the chain.
RequestOK(q) ==
    /\ q.pc \notin {"idle", "answered"} => q.cert \in Cert
    /\ q.pc \in {"loaded", "asked"} =>
          /\ q.status = "confirmed"
          /\ chain[q.cert].record = "same" /\ q.cert \in owned
    /\ q.pc = "scanned" => q.verdict = Null
    /\ q.code # 0 => q.cert \in Cert
    /\ q.pc \in {"asked", "answered"} => q.verdict \in Verdict
    /\ Backed(q.verdict, q.cert, q.file, q.onChain)

LogOK == \A i \in 1 .. Len(log) :
            Backed(log[i].verdict, log[i].cert, log[i].file, log[i].onChain)

\* The inductive invariant.
IInv ==
    /\ VerificationTypeOK
    /\ LedgerBacked
    /\ \A r \in Request : RequestOK(req[r])
    /\ LogOK

\* A verdict the chain backs it backs for ever.
LEMMA BackedForEver ==
    ASSUME ChainGrows, NEW v, NEW c, NEW file, NEW onChain,
           Backed(v, c, file, onChain)
    PROVE  Backed(v, c, file, onChain)'
  BY DEF ChainGrows, Backed

\* A verification that does not move stays right.
LEMMA RequestsStay ==
    ASSUME ChainGrows, NEW q, RequestOK(q)
    PROVE  RequestOK(q)'
  BY BackedForEver DEF ChainGrows, RequestOK, Backed

\* The same of the log.
LEMMA LogStays ==
    ASSUME ChainGrows, LogOK, log' = log
    PROVE  LogOK'
  BY BackedForEver DEF LogOK, ChainGrows, Backed

\* A free slot concludes nothing.
LEMMA IdleOK == Idle \in RequestState /\ RequestOK(Idle) /\ RequestOK(Idle)'
  BY DEF Idle, RequestState, RequestOK, Backed, Ledger!DbState, Verdict, File

\* What is loaded is backed by the ledger.
LEMMA LoadedOK ==
    ASSUME Ledger!LedgerTypeOK, LedgerBacked, NEW q \in RequestState, NEW c \in Cert,
           q.cert = c, q.verdict = Null
    PROVE  Loaded(q, db[c]) \in RequestState /\ RequestOK(Loaded(q, db[c]))
  <1> DEFINE e == Loaded(q, db[c])
  <1>1. db[c] \in Ledger!DbState
    BY DEF Ledger!LedgerTypeOK
  <1>2. CASE db[c] = "confirmed"
    <2>1. e = [q EXCEPT !.pc = "loaded", !.status = db[c]]
      BY <1>2 DEF Loaded, AsksChain
    <2>2. /\ e.pc = "loaded" /\ e.status = "confirmed" /\ e.verdict = Null
          /\ e.cert = c /\ e \in RequestState
      BY <1>1, <1>2, <2>1 DEF RequestState
    <2>3. chain[c].record = "same" /\ c \in owned
      BY <1>2 DEF LedgerBacked
    <2> HIDE DEF e
    <2>4. RequestOK(e)
      BY <2>2, <2>3 DEF RequestOK, Backed, Verdict
    <2> QED
      BY <2>2, <2>4 DEF e
  <1>3. CASE db[c] # "confirmed"
    <2>1. e = [q EXCEPT !.pc = "answered", !.status = db[c],
                        !.verdict = StatusVerdict(db[c])]
      BY <1>3 DEF Loaded, AsksChain
    <2>2. StatusVerdict(db[c]) \in Verdict
      BY DEF StatusVerdict, Verdict
    <2>3. /\ e.pc = "answered" /\ e.verdict = StatusVerdict(db[c])
          /\ e.cert = c /\ e \in RequestState
      BY <1>1, <2>1, <2>2 DEF RequestState
    <2>4. StatusVerdict(db[c]) = "REVOKED" => chain[c].revoked
      BY DEF StatusVerdict, LedgerBacked
    <2>5. StatusVerdict(db[c]) \in {"REVOKED", "PENDING_CHAIN"}
      BY DEF StatusVerdict
    <2> HIDE DEF e
    <2>6. RequestOK(e)
      BY <2>2, <2>3, <2>4, <2>5 DEF RequestOK, Backed
    <2> QED
      BY <2>3, <2>6 DEF e
  <1> QED
    BY <1>2, <1>3

\* The empty log over the empty ledger.
LEMMA InvariantInit == Init => IInv
  <1> SUFFICES ASSUME Init PROVE IInv
    OBVIOUS
  <1>1. VerificationTypeOK
    BY IdleOK DEF Init, VerificationTypeOK, Ledger!LedgerInit, Ledger!LedgerTypeOK,
       Ledger!ChainState, Ledger!DbState
  <1>2. LedgerBacked
    BY DEF Init, LedgerBacked, Ledger!LedgerInit
  <1>3. LogOK
    BY DEF Init, LogOK
  <1> QED
    BY <1>1, <1>2, <1>3, IdleOK DEF Init, IInv

\* A step that moves one verification to a state that is backed.
LEMMA OneMoves ==
    ASSUME IInv, NEW r \in Request, NEW q \in RequestState, RequestOK(q),
           req' = [req EXCEPT ![r] = q], UNCHANGED <<ledgerVars, scans, log>>
    PROVE  IInv'
  <1> USE DEF IInv, ledgerVars
  <1>1. VerificationTypeOK'
    BY DEF VerificationTypeOK, Ledger!LedgerTypeOK
  <1>2. LedgerBacked'
    BY DEF LedgerBacked
  <1>3. ChainGrows
    BY DEF ChainGrows
  <1>4. LogOK'
    BY <1>3, LogStays
  <1>5. \A p \in Request : RequestOK(req'[p])
    BY DEF VerificationTypeOK
  <1>6. \A p \in Request : RequestOK(req[p])'
    BY <1>5 DEF RequestOK, Backed
  <1> QED
    BY <1>1, <1>2, <1>4, <1>6

\* The ledger moves, the verifications and the log stay.
LEMMA OthersMove ==
    ASSUME IInv, Ledger!LedgerNext \/ UNCHANGED ledgerVars, UNCHANGED <<scans, log, req>>
    PROVE  IInv'
  <1>1. Ledger!LedgerTypeOK' /\ LedgerBacked' /\ ChainGrows
    BY LedgerSteps DEF IInv, VerificationTypeOK
  <1>2. VerificationTypeOK'
    BY <1>1 DEF IInv, VerificationTypeOK
  <1>3. LogOK'
    BY <1>1, LogStays DEF IInv
  <1>4. \A p \in Request : RequestOK(req[p])'
    BY <1>1, RequestsStay DEF IInv
  <1> QED
    BY <1>1, <1>2, <1>3, <1>4 DEF IInv

\* Counting a scan.
LEMMA CountedScan ==
    ASSUME IInv, NEW r \in Request, Answer(r)
    PROVE  /\ scans' \in [Cert -> [1 .. MaxQr -> Nat]]
           /\ \A c \in Cert, i \in 1 .. MaxQr :
                 scans'[c][i] = IF c = req[r].cert /\ i = req[r].code
                                THEN scans[c][i] + 1 ELSE scans[c][i]
  <1>1. scans \in [Cert -> [1 .. MaxQr -> Nat]] /\ req[r] \in RequestState
    BY DEF IInv, VerificationTypeOK
  <1>2. CASE req[r].code = 0
    BY <1>1, <1>2 DEF Answer, Counted
  <1>3. CASE req[r].code # 0
    <2>1. req[r].cert \in Cert /\ req[r].code \in 1 .. MaxQr
      BY <1>1, <1>3 DEF IInv, RequestOK, RequestState
    <2> DEFINE d == req[r].cert
               n == req[r].code
               counts == [scans[d] EXCEPT ![n] = @ + 1]
    <2>2. scans' = [scans EXCEPT ![d] = counts]
      BY <1>3 DEF Answer, Counted
    <2>3. /\ counts \in [1 .. MaxQr -> Nat]
          /\ \A i \in 1 .. MaxQr :
                counts[i] = IF i = n THEN scans[d][i] + 1 ELSE scans[d][i]
      <3>1. scans[d] \in [1 .. MaxQr -> Nat] /\ n \in 1 .. MaxQr
        BY <1>1, <2>1
      <3> HIDE DEF d, n
      <3> QED
        BY <3>1
    <2> HIDE DEF counts
    <2>4. scans' \in [Cert -> [1 .. MaxQr -> Nat]]
      BY <1>1, <2>1, <2>2, <2>3
    <2> SUFFICES ASSUME NEW c \in Cert, NEW i \in 1 .. MaxQr
                 PROVE  scans'[c][i] = IF c = d /\ i = n
                                       THEN scans[c][i] + 1 ELSE scans[c][i]
      BY <2>4
    <2>5. scans'[c] = IF c = d THEN counts ELSE scans[c]
      BY <1>1, <2>1, <2>2
    <2>6. CASE c = d
      BY <2>3, <2>5, <2>6
    <2>7. CASE c # d
      BY <2>5, <2>7
    <2> QED
      BY <2>6, <2>7
  <1> QED
    BY <1>2, <1>3

\* A committed answer: what the verification concluded, the log says.
LEMMA Answered ==
    ASSUME IInv, NEW r \in Request, Answer(r)
    PROVE  IInv'
  <1> DEFINE q == req[r]
             row == [cert |-> q.cert, file |-> q.file, code |-> q.code,
                     verdict |-> q.verdict, onChain |-> q.onChain]
  <1>1. q \in RequestState /\ RequestOK(q) /\ q.pc = "answered"
    BY DEF IInv, VerificationTypeOK, Answer
  <1>2. /\ row \in LogRow
        /\ Backed(row.verdict, row.cert, row.file, row.onChain)
    BY <1>1 DEF RequestState, RequestOK, LogRow
  <1>3. /\ log' = Append(log, row)
        /\ req' = [req EXCEPT ![r] = Idle]
        /\ UNCHANGED ledgerVars
    BY DEF Answer, Return
  <1>4. log \in Seq(LogRow) /\ req \in [Request -> RequestState] /\ LogOK
    BY DEF IInv, VerificationTypeOK
  <1> HIDE DEF row, q
  <1>5. /\ log' \in Seq(LogRow)
        /\ Len(log') = Len(log) + 1
        /\ log'[Len(log) + 1] = row
        /\ \A i \in 1 .. Len(log) : log'[i] = log[i]
    BY <1>2, <1>3, <1>4, AppendProperties
  <1>6. scans' \in [Cert -> [1 .. MaxQr -> Nat]]
    BY CountedScan
  <1>7. \A i \in 1 .. Len(log') :
           Backed(log'[i].verdict, log'[i].cert, log'[i].file, log'[i].onChain)
    <2> TAKE i \in 1 .. Len(log')
    <2>1. Len(log) \in Nat
      BY <1>4
    <2>2. CASE i = Len(log) + 1
      BY <1>2, <1>5, <2>2
    <2>3. CASE i # Len(log) + 1
      <3>1. i \in 1 .. Len(log)
        BY <1>5, <2>1, <2>3
      <3> QED
        BY <1>4, <1>5, <3>1 DEF LogOK
    <2> QED
      BY <2>2, <2>3
  <1>8. LogOK'
    BY <1>3, <1>7 DEF LogOK, Backed, ledgerVars
  <1>9. LedgerBacked' /\ Ledger!LedgerTypeOK'
    BY <1>3 DEF IInv, VerificationTypeOK, LedgerBacked, Ledger!LedgerTypeOK, ledgerVars
  <1>10. req' \in [Request -> RequestState] /\ \A p \in Request : RequestOK(req'[p])
    BY <1>3, <1>4, IdleOK DEF IInv
  <1>11. \A p \in Request : RequestOK(req[p])'
    BY <1>3, <1>10 DEF RequestOK, Backed, ledgerVars
  <1> QED
    BY <1>5, <1>6, <1>8, <1>9, <1>10, <1>11 DEF IInv, VerificationTypeOK

-----------------------------------------------------------------------------
(* The steps.                                                              *)

\* Every step keeps the invariant.
LEMMA InvariantStep == IInv /\ [Next]_vars => IInv'
  <1> SUFFICES ASSUME IInv, [Next]_vars PROVE IInv'
    OBVIOUS
  <1>0. /\ Ledger!LedgerTypeOK /\ LedgerBacked
        /\ req \in [Request -> RequestState]
        /\ \A r \in Request : RequestOK(req[r])
    BY DEF IInv, VerificationTypeOK
  <1>1. CASE LedgerMoves
    BY <1>0, <1>1, OthersMove DEF LedgerMoves
  <1>2. ASSUME NEW r \in Request, NEW hint \in Cert \union {Null}, NEW file \in File,
               VerifyFile(r, hint, file)
        PROVE  IInv'
    <2> DEFINE c == Lookup(hint, file)
               q == [Idle EXCEPT !.cert = c, !.file = file]
               notFound == [q EXCEPT !.pc = "answered", !.verdict = "NOT_FOUND"]
    <2>1. c \in Cert \union {Null}
      BY DEF Lookup
    <2>2. q \in RequestState /\ q.cert = c /\ q.verdict = Null
      <3>1. Idle \in RequestState /\ Idle.verdict = Null
        BY IdleOK DEF Idle
      <3> QED
        BY <2>1, <3>1 DEF RequestState
    <2>3. notFound \in RequestState /\ RequestOK(notFound)
      BY <2>2 DEF Idle, RequestState, RequestOK, Backed, Verdict
    <2>4. CASE c = Null
      <3>1. req' = [req EXCEPT ![r] = notFound] /\ UNCHANGED <<ledgerVars, scans, log>>
        BY <1>2, <2>4 DEF VerifyFile
      <3> HIDE DEF notFound
      <3> QED
        BY <2>3, <3>1, OneMoves
    <2>5. CASE c # Null
      <3>1. req' = [req EXCEPT ![r] = Loaded(q, db[c])] /\ UNCHANGED <<ledgerVars, scans, log>>
        BY <1>2, <2>5 DEF VerifyFile
      <3>2. Loaded(q, db[c]) \in RequestState /\ RequestOK(Loaded(q, db[c]))
        <4> HIDE DEF q, c
        <4> QED
          BY <1>0, <2>1, <2>2, <2>5, LoadedOK
      <3> HIDE DEF q
      <3> QED
        BY <3>1, <3>2, OneMoves
    <2> QED
      BY <2>4, <2>5
  <1>3. ASSUME NEW r \in Request, NEW c \in Cert, NEW i \in 1 .. MaxQr, ScanQr(r, c, i)
        PROVE  IInv'
    <2> DEFINE q == [Idle EXCEPT !.pc = "scanned", !.cert = c, !.code = i]
    <2>1. i \in 0 .. MaxQr
      OBVIOUS
    <2>2. q \in RequestState
      BY <2>1, IdleOK DEF RequestState
    <2>3. RequestOK(q)
      BY DEF Idle, RequestOK, Backed, Verdict
    <2>4. req' = [req EXCEPT ![r] = q] /\ UNCHANGED <<ledgerVars, scans, log>>
      BY <1>3 DEF ScanQr
    <2> HIDE DEF q
    <2> QED
      BY <2>2, <2>3, <2>4, OneMoves
  <1>4. ASSUME NEW r \in Request, LoadScanned(r) PROVE IInv'
    <2> DEFINE q == Loaded(req[r], db[req[r].cert])
    <2>1. /\ req[r].cert \in Cert /\ req[r] \in RequestState
          /\ req[r].verdict = Null
      BY <1>0, <1>4 DEF LoadScanned, RequestOK
    <2>2. q \in RequestState /\ RequestOK(q)
      BY <1>0, <2>1, LoadedOK
    <2>3. req' = [req EXCEPT ![r] = q] /\ UNCHANGED <<ledgerVars, scans, log>>
      BY <1>4 DEF LoadScanned
    <2> HIDE DEF q
    <2> QED
      BY <2>2, <2>3, OneMoves
  <1>5. ASSUME NEW r \in Request, AskChain(r) PROVE IInv'
    <2>1. PICK valid \in ValidAnswers(req[r]) :
             req' = [req EXCEPT ![r].pc = "asked",
                                ![r].verdict = ChainVerdict(req[r].cert, valid),
                                ![r].onChain = TRUE]
      BY <1>5 DEF AskChain
    <2> DEFINE q == [req[r] EXCEPT !.pc = "asked",
                                   !.verdict = ChainVerdict(req[r].cert, valid),
                                   !.onChain = TRUE]
    <2>2. /\ req[r] \in RequestState /\ RequestOK(req[r]) /\ req[r].pc = "loaded"
          /\ UNCHANGED <<ledgerVars, scans, log>>
      BY <1>0, <1>5 DEF AskChain
    <2>3. /\ req[r].cert \in Cert /\ chain[req[r].cert].record = "same"
          /\ req[r].cert \in owned
      BY <2>2 DEF RequestOK
    <2>4. ~ chain[req[r].cert].revoked => (valid <=> req[r].file \in {req[r].cert, Null})
      BY <2>1, <2>3 DEF ValidAnswers
    <2>5. ChainVerdict(req[r].cert, valid) \in Verdict
      BY DEF ChainVerdict, Verdict
    <2>6. q \in RequestState
      BY <2>2, <2>5 DEF RequestState
    <2>7. Backed(ChainVerdict(req[r].cert, valid), req[r].cert, req[r].file, TRUE)
      BY <2>3, <2>4 DEF ChainVerdict, Backed
    <2>8. RequestOK(q)
      <3>1. /\ q.pc = "asked" /\ q.cert = req[r].cert /\ q.status = req[r].status
            /\ q.file = req[r].file /\ q.onChain = TRUE
            /\ q.verdict = ChainVerdict(req[r].cert, valid)
        BY <2>2 DEF RequestState
      <3> HIDE DEF q
      <3> QED
        BY <2>2, <2>5, <2>7, <3>1 DEF RequestOK
    <2>9. req' = [req EXCEPT ![r] = q]
      BY <1>0, <2>1 DEF RequestState
    <2> HIDE DEF q
    <2> QED
      BY <2>2, <2>6, <2>8, <2>9, OneMoves
  <1>6. ASSUME NEW r \in Request, FetchRecord(r) PROVE IInv'
    <2> DEFINE q == [req[r] EXCEPT !.pc = "answered"]
    <2>1. /\ req[r] \in RequestState /\ RequestOK(req[r]) /\ req[r].pc = "asked"
          /\ UNCHANGED <<ledgerVars, scans, log>>
          /\ req' = [req EXCEPT ![r] = q]
      BY <1>0, <1>6 DEF FetchRecord
    <2>2. q \in RequestState /\ RequestOK(q)
      BY <2>1 DEF RequestState, RequestOK
    <2> HIDE DEF q
    <2> QED
      BY <2>1, <2>2, OneMoves
  <1>7. ASSUME NEW r \in Request, FallBack(r) PROVE IInv'
    <2> DEFINE q == [req[r] EXCEPT !.pc = "answered",
                                   !.verdict = FallbackVerdict(req[r]),
                                   !.onChain = FALSE]
    <2>1. /\ req[r] \in RequestState /\ RequestOK(req[r])
          /\ req[r].pc \in {"loaded", "asked"}
          /\ UNCHANGED <<ledgerVars, scans, log>>
      BY <1>0, <1>7 DEF FallBack
    <2>2. FallbackVerdict(req[r]) = IF req[r].file \in {req[r].cert, Null}
                                    THEN "PENDING_CHAIN" ELSE "TAMPERED"
      BY <2>1 DEF FallbackVerdict, RequestOK
    <2>3. q \in RequestState
      BY <2>1, <2>2 DEF RequestState, Verdict
    <2>4. RequestOK(q)
      BY <2>1, <2>2 DEF RequestState, RequestOK, Backed, Verdict
    <2>5. req' = [req EXCEPT ![r] = q]
      BY <1>0, <1>7 DEF FallBack, RequestState
    <2> HIDE DEF q
    <2> QED
      BY <2>1, <2>3, <2>4, <2>5, OneMoves
  <1>8. ASSUME NEW r \in Request, Answer(r) PROVE IInv'
    BY <1>8, Answered
  <1>9. ASSUME NEW r \in Request, Fail(r) PROVE IInv'
    BY <1>9, IdleOK, OneMoves DEF Fail, Return
  <1>10. CASE UNCHANGED vars
    BY <1>0, <1>10, OthersMove DEF vars
  <1> QED
    BY <1>1, <1>2, <1>3, <1>4, <1>5, <1>6, <1>7, <1>8, <1>9, <1>10
    DEF Next, Verify

\* The invariant holds in every reachable state.
LEMMA Invariance == Spec => []IInv
  BY InvariantInit, InvariantStep, PTL DEF Spec
-----------------------------------------------------------------------------
(* The theorems.                                                           *)

\* Type correctness, for any number of certificates and requests.
THEOREM TypeCorrect == Spec => []VerificationTypeOK
  BY Invariance, PTL DEF IInv

\* The golden rule of docs/backend.md: AUTHENTIC in verification_logs stands for
\* a record the contract still holds under the file's own hash.
THEOREM GoldenRule == Spec => []AuthenticIsBacked
  <1>1. IInv => AuthenticIsBacked
    BY DEF IInv, LogOK, Backed, AuthenticIsBacked
  <1> QED
    BY <1>1, Invariance, PTL

\* REVOKED in verification_logs is never a false alarm, even where the row was
\* believed because the node could not be reached.
THEOREM NoFalseRevocation == Spec => []RevokedIsTrue
  <1>1. IInv => RevokedIsTrue
    BY DEF IInv, LogOK, Backed, RevokedIsTrue
  <1> QED
    BY <1>1, Invariance, PTL

\* TAMPERED is never said of the file a certificate was issued for, nor of a
\* scanned code, so chk_vlog_tampered_has_both_hashes never refuses an answer.
THEOREM NoFalseTampering == Spec => []GenuineIsNotTampered
  <1>1. IInv => GenuineIsNotTampered
    BY DEF IInv, RequestOK, Backed, GenuineIsNotTampered
  <1> QED
    BY <1>1, Invariance, PTL

\* Only the contract's answer makes a verification say AUTHENTIC, and only of a
\* record that is not revoked.
LEMMA TurnsAuthentic ==
    ASSUME IInv, [Next]_vars, NEW r \in Request,
           req[r].verdict # "AUTHENTIC", req'[r].verdict = "AUTHENTIC"
    PROVE  ~ chain[req[r].cert].revoked
  <1>0. req \in [Request -> RequestState] /\ RequestOK(req[r])
    BY DEF IInv, VerificationTypeOK
  <1>1. Idle \in RequestState /\ Idle.verdict = Null /\ Null # "AUTHENTIC"
    BY IdleOK DEF Idle, Verdict
  <1>2. \A q \in RequestState : \A status :
           Loaded(q, status).verdict \in {q.verdict, "REVOKED", "PENDING_CHAIN"}
    BY DEF Loaded, StatusVerdict, RequestState
  <1>3. ASSUME NEW p \in Request, Return(p) PROVE FALSE
    BY <1>0, <1>1, <1>3 DEF Return
  <1>4. ASSUME NEW p \in Request, NEW hint \in Cert \union {Null}, NEW file \in File,
               VerifyFile(p, hint, file)
        PROVE  FALSE
    <2> DEFINE c == Lookup(hint, file)
               q == [Idle EXCEPT !.cert = c, !.file = file]
    <2>1. c \in Cert \union {Null}
      BY DEF Lookup
    <2>2. q \in RequestState /\ q.verdict = Null
      BY <1>1, <2>1 DEF RequestState
    <2>3. req' = [req EXCEPT ![p] =
                     IF c = Null
                     THEN [q EXCEPT !.pc = "answered", !.verdict = "NOT_FOUND"]
                     ELSE Loaded(q, db[c])]
      BY <1>4 DEF VerifyFile
    <2>4. [q EXCEPT !.pc = "answered", !.verdict = "NOT_FOUND"].verdict = "NOT_FOUND"
      BY <2>2 DEF RequestState
    <2>5. Loaded(q, db[c]).verdict # "AUTHENTIC"
      <3> HIDE DEF q
      <3> QED
        BY <1>1, <1>2, <2>2
    <2> HIDE DEF q
    <2> QED
      BY <1>0, <2>3, <2>4, <2>5
  <1>5. ASSUME NEW p \in Request, NEW c \in Cert, NEW i \in 1 .. MaxQr, ScanQr(p, c, i)
        PROVE  FALSE
    BY <1>0, <1>1, <1>5 DEF ScanQr, RequestState
  <1>6. ASSUME NEW p \in Request, LoadScanned(p) PROVE FALSE
    <2>1. req' = [req EXCEPT ![p] = Loaded(req[p], db[req[p].cert])]
      BY <1>6 DEF LoadScanned
    <2>2. req'[r].verdict \in {req[r].verdict, "REVOKED", "PENDING_CHAIN"}
      BY <1>0, <1>2, <2>1
    <2> QED
      BY <2>2
  <1>7. ASSUME NEW p \in Request, AskChain(p) PROVE ~ chain[req[r].cert].revoked
    <2>1. PICK valid \in ValidAnswers(req[p]) :
             req' = [req EXCEPT ![p].pc = "asked",
                                ![p].verdict = ChainVerdict(req[p].cert, valid),
                                ![p].onChain = TRUE]
      BY <1>7 DEF AskChain
    <2>2. p = r /\ req'[r].verdict = ChainVerdict(req[r].cert, valid)
      BY <1>0, <2>1 DEF RequestState
    <2> QED
      BY <2>2 DEF ChainVerdict
  <1>8. ASSUME NEW p \in Request, FetchRecord(p) PROVE FALSE
    BY <1>0, <1>8 DEF FetchRecord, RequestState
  <1>9. ASSUME NEW p \in Request, FallBack(p) PROVE FALSE
    <2>1. RequestOK(req[p]) /\ req[p].pc \in {"loaded", "asked"} /\ req[p] \in RequestState
      BY <1>9 DEF FallBack, IInv, VerificationTypeOK
    <2>2. FallbackVerdict(req[p]) \in {"PENDING_CHAIN", "TAMPERED"}
      BY <2>1 DEF FallbackVerdict, RequestOK
    <2>3. req' = [req EXCEPT ![p].pc = "answered",
                             ![p].verdict = FallbackVerdict(req[p]),
                             ![p].onChain = FALSE]
      BY <1>9 DEF FallBack
    <2>4. req'[r].verdict \in {req[r].verdict, "PENDING_CHAIN", "TAMPERED"}
      BY <1>0, <2>2, <2>3 DEF RequestState
    <2> QED
      BY <2>4
  <1>10. CASE UNCHANGED req
    BY <1>10
  <1> QED
    BY <1>3, <1>4, <1>5, <1>6, <1>7, <1>8, <1>9, <1>10
    DEF Next, Verify, Answer, Fail, LedgerMoves, vars

\* Once REVOKED is in the log, no verification takes AUTHENTIC any more, however
\* old the row it loaded.
THEOREM RevocationIsFinal == Spec => NoAuthenticAfterRevoked
  <1>1. IInv /\ [Next]_vars
          => [\A r \in Request :
                 /\ req[r].verdict # "AUTHENTIC"
                 /\ req'[r].verdict = "AUTHENTIC"
                 => ~ \E i \in 1 .. Len(log) :
                         log[i].cert = req[r].cert /\ log[i].verdict = "REVOKED"]_vars
    BY TurnsAuthentic DEF IInv, LogOK, Backed
  <1> QED
    BY <1>1, Invariance, PTL DEF Spec, NoAuthenticAfterRevoked

-----------------------------------------------------------------------------
(* Scans.                                                                  *)

\* The log rows of a code.
Rows(c, n) == {k \in 1 .. Len(log) : log[k].cert = c /\ log[k].code = n}

\* What an answer does to the log.
LEMMA LoggedAnswer ==
    ASSUME IInv, NEW r \in Request, Answer(r)
    PROVE  /\ Len(log) \in Nat /\ Len(log') = Len(log) + 1
           /\ \A k \in 1 .. Len(log) : log'[k] = log[k]
           /\ log'[Len(log) + 1].cert = req[r].cert
           /\ log'[Len(log) + 1].code = req[r].code
  <1> DEFINE q == req[r]
             row == [cert |-> q.cert, file |-> q.file, code |-> q.code,
                     verdict |-> q.verdict, onChain |-> q.onChain]
  <1>1. q \in RequestState /\ RequestOK(q) /\ q.pc = "answered"
    BY DEF IInv, VerificationTypeOK, Answer
  <1>2. row \in LogRow /\ row.cert = q.cert /\ row.code = q.code
    BY <1>1 DEF RequestState, RequestOK, LogRow
  <1>3. log' = Append(log, row) /\ log \in Seq(LogRow)
    BY DEF Answer, IInv, VerificationTypeOK
  <1> HIDE DEF row
  <1> QED
    BY <1>2, <1>3, AppendProperties, LenProperties

\* The counters follow the log: an answer adds one row and counts it.
LEMMA ScansStayLogged ==
    ASSUME IInv, ScansAreLogged, [Next]_vars
    PROVE  ScansAreLogged'
  <1>1. ASSUME NEW r \in Request, Answer(r)
        PROVE  ScansAreLogged'
    <2> SUFFICES ASSUME NEW c \in Cert, NEW i \in 1 .. MaxQr
                 PROVE  scans'[c][i] =
                          Cardinality({k \in 1 .. Len(log') :
                                          log'[k].cert = c /\ log'[k].code = i})
      BY DEF ScansAreLogged
    <2> DEFINE before == Rows(c, i)
               after == {k \in 1 .. Len(log') : log'[k].cert = c /\ log'[k].code = i}
               last == Len(log) + 1
    <2>1. /\ Len(log) \in Nat /\ Len(log') = last
          /\ \A k \in 1 .. Len(log) : log'[k] = log[k]
          /\ log'[last].cert = req[r].cert /\ log'[last].code = req[r].code
      BY <1>1, LoggedAnswer
    <2>2. IsFiniteSet(before) /\ last \notin before
      <3>1. IsFiniteSet(1 .. Len(log))
        BY <2>1, FS_Interval
      <3>2. before \in SUBSET (1 .. Len(log)) /\ last \notin 1 .. Len(log)
        BY <2>1 DEF Rows
      <3> HIDE DEF before
      <3> QED
        BY <3>1, <3>2, FS_Subset
    <2>3. scans[c][i] = Cardinality(before)
      BY DEF ScansAreLogged, Rows
    <2>4. CASE c = req[r].cert /\ i = req[r].code
      <3>1. after = before \union {last}
        BY <2>1, <2>4 DEF Rows
      <3>2. Cardinality(after) = Cardinality(before) + 1
        BY <2>2, <3>1, FS_AddElement
      <3>3. scans'[c][i] = scans[c][i] + 1
        BY <1>1, <2>4, CountedScan
      <3> QED
        BY <2>3, <3>2, <3>3
    <2>5. CASE ~ (c = req[r].cert /\ i = req[r].code)
      <3>1. after = before
        BY <2>1, <2>5 DEF Rows
      <3>2. scans'[c][i] = scans[c][i]
        BY <1>1, <2>5, CountedScan
      <3> QED
        BY <2>3, <3>1, <3>2
    <2> QED
      BY <2>4, <2>5
  <1>2. CASE UNCHANGED <<scans, log>>
    BY <1>2, ZenonT(30) DEF ScansAreLogged
  <1> QED
    BY <1>1, <1>2 DEF Next, vars, LedgerMoves, Verify, VerifyFile, ScanQr,
       LoadScanned, AskChain, FetchRecord, FallBack, Fail

\* total_scan_count is the number of log rows of its code: no concurrent scan is
\* lost, and none is counted whose answer was not committed.
THEOREM ScansAreNeverLost == Spec => []ScansAreLogged
  <1>1. Init => ScansAreLogged
    <2> SUFFICES ASSUME Init, NEW c \in Cert, NEW i \in 1 .. MaxQr
                 PROVE  scans[c][i] =
                          Cardinality({k \in 1 .. Len(log) :
                                          log[k].cert = c /\ log[k].code = i})
      BY DEF ScansAreLogged
    <2>1. scans[c][i] = 0 /\ {k \in 1 .. Len(log) : log[k].cert = c /\ log[k].code = i} = {}
      BY DEF Init
    <2> QED
      BY <2>1, FS_EmptySet
  <1>2. IInv /\ ScansAreLogged /\ [Next]_vars => ScansAreLogged'
    BY ScansStayLogged
  <1> QED
    BY <1>1, <1>2, Invariance, PTL DEF Spec
=============================================================================
