------------------------ MODULE CertificateUploadProofs ------------------------
(***************************************************************************)
(* Theorems about phase 1 of an issuance, for any universities, files and  *)
(* names and any number of concurrent uploads.                             *)
(*                                                                         *)
(* The argument: numbers are only added to a university's year, so what an *)
(* upload saw when it read its number still holds when it commits: all     *)
(* smaller numbers are taken.  If its own is free it is the next one.  A   *)
(* file on disk is never overwritten, since its name was free.  Only the   *)
(* commit shows, and it takes effect at once: the whole upload is one step *)
(* of the abstract ledger.                                                 *)
(***************************************************************************)
EXTENDS CertificateUpload, FiniteSetTheorems, WellFoundedInduction, TLAPS

USE UploadAssumption

\* What an upload holds at each of its steps: the smaller numbers are taken
\* when it has one, and its file is on disk when it has a name.
RequestIsConsistent(r) ==
    LET q == req[r] IN
    /\ q.pc \in {"began", "numbered", "unique", "saved"} =>
          q.university \in University /\ q.file \in File
    /\ q.pc \in {"numbered", "unique", "saved"} =>
          q.sequence >= 1
          /\ \A n \in 1 .. (q.sequence - 1) : n \in Numbers(q.university, q.year)
    /\ q.pc = "saved" => q.id \in CertId /\ disk[q.id] = q.file

RequestsAreConsistent == \A r \in Request : RequestIsConsistent(r)

\* The numbers of a year are those up to one of them.
NumbersAreInitial ==
    \A u \in University, y \in 0 .. MaxYear :
        \E k \in Nat : Numbers(u, y) = 1 .. k

\* uid is UNIQUE.
UidsAreUnique ==
    \A c, d \in certificates :
        c.university = d.university /\ c.year = d.year /\ c.sequence = d.sequence
        => c = d

UploadInv ==
    /\ UploadTypeOK
    /\ RequestsAreConsistent
    /\ NumbersAreInitial
    /\ UidsAreUnique
    /\ RowsHaveFiles
    /\ FileHasOneCertificate

-----------------------------------------------------------------------------
(* Numbers.                                                                *)

\* A non-empty bounded set of naturals has a greatest element.
LEMMA BoundedNaturalsHaveMax ==
    ASSUME NEW n \in Nat, NEW S \in SUBSET (0 .. n), S # {}
    PROVE  \E i \in S : \A j \in S : j <= i
<1> DEFINE R == {p \in Nat \X Nat : p[1] < p[2]}
           T == {k \in 0 .. n : n - k \in S}
<1>1. IsWellFoundedOn(R, Nat)
  <2>1. R = OpToRel(<, Nat)
    BY DEF OpToRel
  <2> QED
    BY <2>1, NatLessThanWellFounded
<1>2. T # {}
  <2>1. PICK i \in S : TRUE
    OBVIOUS
  <2>2. n - i \in T
    OBVIOUS
  <2> QED
    BY <2>2
<1>3. T \subseteq Nat
  OBVIOUS
<1> HIDE DEF R, T
<1>4. PICK k \in T : \A l \in T : ~ (<<l, k>> \in R)
  BY <1>1, <1>2, <1>3, WFMin
<1>5. \A l \in T : k <= l
  <2> TAKE l \in T
  <2>1. l \in Nat /\ k \in Nat /\ (l < k => <<l, k>> \in R)
    BY <1>3 DEF R
  <2> QED
    BY <1>4, <2>1
<1>6. n - k \in S /\ k \in 0 .. n
  BY <1>4 DEF T
<1>7. \A j \in S : n - j \in T
  BY DEF T
<1>8. \A j \in S : j <= n - k
  <2> TAKE j \in S
  <2>1. k <= n - j
    BY <1>5, <1>7
  <2> QED
    BY <2>1, <1>6
<1> QED
  BY <1>6, <1>8

\* Rows have the numbers the format has room for.
LEMMA NumbersRange ==
    ASSUME UploadTypeOK, NEW u, NEW y
    PROVE  Numbers(u, y) \subseteq 1 .. MaxSequence
BY DEF UploadTypeOK, Numbers, CertificateRow

\* What get_next_uid_sequence returns is above every number of the year, and
\* has room in a request.
LEMMA NextSequenceIsAbove ==
    ASSUME UploadTypeOK, NEW u, NEW y
    PROVE  /\ NextSequence(u, y) \in 1 .. (MaxSequence + 1)
           /\ NextSequence(u, y) - 1 \in Numbers(u, y) \union {0}
<1> DEFINE S == Numbers(u, y) \union {0}
<1>1. S \in SUBSET (0 .. MaxSequence) /\ S # {}
  BY NumbersRange
<1>2. \E i \in S : \A j \in S : j <= i
  BY <1>1, BoundedNaturalsHaveMax
<1>3. Max(S) \in S
  <2>1. \E i \in S : \A j \in S : i >= j
    BY <1>1, <1>2
  <2> QED
    BY <2>1 DEF Max
<1> QED
  BY <1>1, <1>3 DEF NextSequence

\* In a year whose numbers have no gap, all numbers below the one an upload
\* reads are taken.
LEMMA SmallerNumbersAreTaken ==
    ASSUME UploadTypeOK, NEW u, NEW y, NEW k \in Nat, Numbers(u, y) = 1 .. k
    PROVE  \A n \in 1 .. (NextSequence(u, y) - 1) : n \in Numbers(u, y)
BY NextSequenceIsAbove

-----------------------------------------------------------------------------
(* The inductive invariant.                                                *)

\* Nothing is stored and no upload is under way.
LEMMA InitImpliesUploadInv == Init => UploadInv
<1> SUFFICES ASSUME Init PROVE UploadInv
  OBVIOUS
<1>1. UploadTypeOK
  BY DEF Init, UploadTypeOK, UploadState, Idle
<1>2. RequestsAreConsistent
  BY DEF Init, RequestsAreConsistent, RequestIsConsistent, Idle
<1>3. NumbersAreInitial
  <2>1. \A u \in University, y \in 0 .. MaxYear : Numbers(u, y) = 1 .. 0
    BY DEF Init, Numbers
  <2> QED
    BY <2>1 DEF NumbersAreInitial
<1> QED
  BY <1>1, <1>2, <1>3
  DEF Init, UploadInv, UidsAreUnique, RowsHaveFiles, FileHasOneCertificate

\* Rows, files and requests hold values of their domains.
LEMMA TypesArePreserved ==
    ASSUME UploadInv, [Next]_vars
    PROVE  UploadTypeOK'
<1> USE DEF UploadTypeOK
<1>0. UploadTypeOK
  BY DEF UploadInv
<1>1. CASE UNCHANGED vars
  BY <1>0, <1>1 DEF vars
<1>2. ASSUME NEW r \in Request, NEW u \in University, NEW f \in File, Begin(r, u, f)
      PROVE  UploadTypeOK'
  BY <1>0, <1>2 DEF Begin, Idle, UploadState
<1>3. ASSUME NEW r \in Request, ReadSequence(r)
      PROVE  UploadTypeOK'
  <2>1. NextSequence(req[r].university, year) \in 0 .. MaxSequence + 1
    BY <1>0, NextSequenceIsAbove
  <2>2. [req[r] EXCEPT !.pc = "numbered", !.year = year,
                       !.sequence = NextSequence(req[r].university, year)]
          \in UploadState
    BY <1>0, <2>1, ZenonT(30) DEF UploadState
  <2> QED
    BY <1>0, <1>3, <2>2 DEF ReadSequence
<1>4. ASSUME NEW r \in Request, CheckHash(r)
      PROVE  UploadTypeOK'
  BY <1>0, <1>4, SMTT(30) DEF CheckHash, Refuse, Idle, UploadState
<1>5. ASSUME NEW r \in Request, NEW id \in CertId, SaveFile(r, id)
      PROVE  UploadTypeOK'
  <2>1. req[r].file \in File
    BY <1>5 DEF SaveFile, UploadInv, RequestsAreConsistent, RequestIsConsistent
  <2>2. disk' \in [CertId -> File \union {Null}]
    BY <1>0, <1>5, <2>1 DEF SaveFile, Written
  <2>3. [req[r] EXCEPT !.pc = "saved", !.id = id] \in UploadState
    BY <1>0 DEF UploadState
  <2>4. req' = [req EXCEPT ![r] = [req[r] EXCEPT !.pc = "saved", !.id = id]]
    BY <1>0, <1>5 DEF SaveFile
  <2> QED
    BY <1>0, <1>5, <2>2, <2>3, <2>4 DEF SaveFile
<1>6. ASSUME NEW r \in Request, Commit(r)
      PROVE  UploadTypeOK'
  <2> DEFINE q == req[r]
             c == [id |-> q.id, university |-> q.university, year |-> q.year,
                   sequence |-> q.sequence, hash |-> q.file]
  <2>1. /\ q.university \in University /\ q.file \in File /\ q.id \in CertId
        /\ q.sequence >= 1 /\ q.sequence <= MaxSequence
    BY <1>6 DEF Commit, InsertAllowed, UploadInv, RequestsAreConsistent,
           RequestIsConsistent
  <2>2. q.sequence \in 0 .. MaxSequence + 1 /\ q.year \in 0 .. MaxYear
    BY <1>0 DEF UploadState
  <2>3. c \in CertificateRow
    BY <2>1, <2>2 DEF CertificateRow
  <2>4. certificates' = certificates \union {c}
    BY <1>6 DEF Commit
  <2> QED
    BY <1>0, <1>6, <2>3, <2>4 DEF Commit, Return, Idle, UploadState
<1>7. ASSUME NEW r \in Request, Rollback(r) \/ Respond(r) \/ Crash(r)
      PROVE  UploadTypeOK'
  BY <1>0, <1>7 DEF Rollback, Respond, Crash, Refuse, Return, Idle, UploadState
<1>8. ASSUME NEW u \in University, Admit(u)
      PROVE  UploadTypeOK'
  BY <1>0, <1>8 DEF Admit
<1>9. CASE NewYear
  BY <1>0, <1>9 DEF NewYear
<1> QED
  BY <1>1, <1>2, <1>3, <1>4, <1>5, <1>6, <1>7, <1>8, <1>9 DEF Next, Upload

\* Numbers are never given back.
LEMMA NumbersGrow ==
    ASSUME [Next]_vars, NEW u, NEW y
    PROVE  Numbers(u, y) \subseteq Numbers(u, y)'
<1>1. certificates \subseteq certificates'
  BY DEF Next, vars, Upload, Begin, ReadSequence, CheckHash, SaveFile, Commit,
     Rollback, Respond, Crash, Admit, NewYear
<1> QED
  BY <1>1 DEF Numbers

\* Files keep their contents: a new one gets a free name.
LEMMA FilesAreKept ==
    ASSUME UploadInv, [Next]_vars, NEW id \in CertId, NameTaken(id)
    PROVE  disk'[id] = disk[id]
<1>1. ASSUME NEW r \in Request, NEW i \in CertId, SaveFile(r, i)
      PROVE  disk'[id] = disk[id]
  <2>1. i # id
    BY <1>1 DEF SaveFile
  <2> QED
    BY <1>1, <2>1 DEF SaveFile, Written, UploadInv, UploadTypeOK
<1>2. CASE UNCHANGED disk
  BY <1>2
<1> QED
  BY <1>1, <1>2 DEF Next, vars, Upload, Begin, ReadSequence, CheckHash, Commit,
     Rollback, Respond, Crash, Admit, NewYear

\* A request that no step touches stays consistent.
LEMMA UntouchedRequests ==
    ASSUME UploadInv, [Next]_vars, NEW s \in Request, req'[s] = req[s]
    PROVE  RequestIsConsistent(s)'
<1> DEFINE u == req[s].university
           y == req[s].year
<1>1. req[s].pc = "saved" => disk'[req[s].id] = disk[req[s].id]
  BY FilesAreKept DEF NameTaken, UploadInv, RequestsAreConsistent, RequestIsConsistent
<1>2. \A n \in Numbers(u, y) :
          n \in {c.sequence : c \in {d \in certificates' : d.university = u /\ d.year = y}}
  BY NumbersGrow DEF Numbers
<1>3. RequestIsConsistent(s)
  BY DEF UploadInv, RequestsAreConsistent
<1>4. req[s].pc \in {"numbered", "unique", "saved"} =>
          \A n \in 1 .. (req[s].sequence - 1) : n \in Numbers(u, y)
  BY <1>3 DEF RequestIsConsistent
<1>5. req[s].pc \in {"numbered", "unique", "saved"} =>
          \A n \in 1 .. (req[s].sequence - 1) :
             n \in {c.sequence : c \in {d \in certificates' : d.university = u /\ d.year = y}}
  BY <1>2, <1>4
<1> QED
  BY <1>1, <1>3, <1>5 DEF RequestIsConsistent, Numbers

\* A request that is idle or refused has nothing to be consistent with.
LEMMA IdleRequests ==
    ASSUME NEW r \in Request, req'[r].pc \in {"idle", "refused"}
    PROVE  RequestIsConsistent(r)'
BY DEF RequestIsConsistent

\* Every step leaves the requests consistent.
LEMMA ConsistencyIsPreserved ==
    ASSUME UploadInv, [Next]_vars
    PROVE  RequestsAreConsistent'
<1>0. UploadTypeOK /\ RequestsAreConsistent
  BY DEF UploadInv
<1>1. SUFFICES ASSUME NEW s \in Request, req'[s] # req[s]
               PROVE  RequestIsConsistent(s)'
  BY UntouchedRequests DEF RequestsAreConsistent
<1>2. ASSUME NEW u \in University, NEW f \in File, Begin(s, u, f)
      PROVE  RequestIsConsistent(s)'
  BY <1>0, <1>2 DEF Begin, Idle, RequestIsConsistent, UploadTypeOK
<1>3. CASE ReadSequence(s)
  <2> DEFINE u == req[s].university
             q == req'[s]
  <2>1. /\ q.pc = "numbered" /\ q.university = u /\ q.file = req[s].file
        /\ q.year = year /\ q.sequence = NextSequence(u, year)
        /\ certificates' = certificates
    BY <1>0, <1>3 DEF ReadSequence, UploadTypeOK, UploadState
  <2>2. u \in University /\ req[s].file \in File /\ year \in 0 .. MaxYear
    BY <1>0, <1>3 DEF ReadSequence, RequestsAreConsistent, RequestIsConsistent, UploadTypeOK
  <2>3. PICK k \in Nat : Numbers(u, year) = 1 .. k
    BY <2>2 DEF UploadInv, NumbersAreInitial
  <2>4. /\ NextSequence(u, year) >= 1
        /\ \A n \in 1 .. (NextSequence(u, year) - 1) : n \in Numbers(u, year)
    BY <1>0, <2>3, NextSequenceIsAbove, SmallerNumbersAreTaken
  <2> QED
    BY <2>1, <2>2, <2>4 DEF RequestIsConsistent, Numbers
<1>4. CASE CheckHash(s)
  <2>1. CASE req'[s].pc = "refused"
    BY <2>1, IdleRequests
  <2>2. CASE req' = [req EXCEPT ![s].pc = "unique"]
    BY <1>0, <1>4, <2>2
    DEF CheckHash, RequestsAreConsistent, RequestIsConsistent, UploadTypeOK,
        UploadState, Numbers
  <2> QED
    BY <1>0, <1>4, <2>1, <2>2 DEF CheckHash, Refuse, Idle, UploadTypeOK
<1>5. ASSUME NEW id \in CertId, SaveFile(s, id)
      PROVE  RequestIsConsistent(s)'
  BY <1>0, <1>5
  DEF SaveFile, Written, RequestsAreConsistent, RequestIsConsistent, UploadTypeOK,
      UploadState, Numbers
<1>6. CASE Commit(s) \/ Rollback(s) \/ Respond(s) \/ Crash(s)
  <2>1. req'[s].pc \in {"idle", "refused"}
    BY <1>0, <1>6 DEF Commit, Rollback, Respond, Crash, Return, Refuse, Idle, UploadTypeOK
  <2> QED
    BY <2>1, IdleRequests
<1>7. ASSUME NEW r \in Request, r # s,
             \/ \E u \in University, f \in File : Begin(r, u, f)
             \/ Upload(r)
      PROVE  FALSE
  BY <1>0, <1>1, <1>7 DEF Upload, Begin, ReadSequence, CheckHash, SaveFile, Commit,
     Rollback, Respond, Crash, Return, Refuse, UploadTypeOK
<1>8. CASE UNCHANGED vars \/ NewYear \/ \E u \in University : Admit(u)
  BY <1>1, <1>8 DEF vars, NewYear, Admit
<1> QED
  BY <1>2, <1>3, <1>4, <1>5, <1>6, <1>7, <1>8 DEF Next, Upload

\* What a commit adds, and that it has the next number of its year.
LEMMA CommitAddsTheNext ==
    ASSUME UploadInv, NEW r \in Request, Commit(r)
    PROVE  \E c \in CertificateRow :
              /\ certificates' = certificates \union {c}
              /\ c.hash = disk[c.id]
              /\ c.hash \notin {d.hash : d \in certificates}
              /\ c.university \in University /\ c.year \in 0 .. MaxYear
              /\ \A k \in Nat : Numbers(c.university, c.year) = 1 .. k => c.sequence = k + 1
<1> DEFINE q == req[r]
           c == [id |-> q.id, university |-> q.university, year |-> q.year,
                 sequence |-> q.sequence, hash |-> q.file]
<1>1. /\ q.university \in University /\ q.file \in File /\ q.id \in CertId
      /\ disk[q.id] = q.file
      /\ q.sequence >= 1 /\ q.sequence <= MaxSequence
      /\ \A n \in 1 .. (q.sequence - 1) : n \in Numbers(q.university, q.year)
  BY DEF Commit, InsertAllowed, UploadInv, RequestsAreConsistent, RequestIsConsistent
<1>2. q.sequence \in 0 .. MaxSequence + 1 /\ q.year \in 0 .. MaxYear
  BY DEF UploadInv, UploadTypeOK, UploadState
<1>3. c \in CertificateRow
  BY <1>1, <1>2 DEF CertificateRow
<1>4. /\ certificates' = certificates \union {c}
      /\ c.sequence \notin Numbers(c.university, c.year)
      /\ c.hash \notin {d.hash : d \in certificates}
  BY DEF Commit, InsertAllowed
<1>5. ASSUME NEW k \in Nat, Numbers(c.university, c.year) = 1 .. k
      PROVE  c.sequence = k + 1
  <2>1. \A n \in 1 .. (q.sequence - 1) : n <= k
    BY <1>1, <1>5
  <2>2. q.sequence - 1 <= k
    BY <1>1, <1>2, <2>1
  <2>3. ~ (q.sequence <= k)
    BY <1>1, <1>2, <1>4, <1>5
  <2> QED
    BY <1>2, <2>2, <2>3
<1> QED
  BY <1>1, <1>2, <1>3, <1>4, <1>5

\* Only a commit changes the rows.
LEMMA OnlyCommitInserts ==
    ASSUME [Next]_vars, certificates' # certificates
    PROVE  \E r \in Request : Commit(r)
BY DEF Next, vars, Upload, Begin, ReadSequence, CheckHash, SaveFile, Rollback,
   Respond, Crash, Admit, NewYear

\* A row that is inserted has the number after the last of its year.
LEMMA NumbersStayInitial ==
    ASSUME UploadInv, [Next]_vars
    PROVE  NumbersAreInitial' /\ UidsAreUnique'
<1>0. NumbersAreInitial /\ UidsAreUnique
  BY DEF UploadInv
<1>1. CASE certificates' = certificates
  BY <1>0, <1>1 DEF NumbersAreInitial, UidsAreUnique, Numbers
<1>2. CASE certificates' # certificates
  <2>1. PICK r \in Request : Commit(r)
    BY <1>2, OnlyCommitInserts
  <2>2. PICK c \in CertificateRow :
           /\ certificates' = certificates \union {c}
           /\ c.university \in University /\ c.year \in 0 .. MaxYear
           /\ \A k \in Nat : Numbers(c.university, c.year) = 1 .. k => c.sequence = k + 1
    BY <2>1, CommitAddsTheNext
  <2>3. PICK k \in Nat : Numbers(c.university, c.year) = 1 .. k
    BY <1>0, <2>2 DEF NumbersAreInitial
  <2>4. c.sequence = k + 1
    BY <2>2, <2>3
  <2>5. ASSUME NEW u \in University, NEW y \in 0 .. MaxYear
        PROVE  \E n \in Nat : Numbers(u, y)' = 1 .. n
    <3>1. CASE u = c.university /\ y = c.year
      <4>1. Numbers(u, y)' = Numbers(u, y) \union {c.sequence}
        BY <2>2, <3>1 DEF Numbers
      <4>2. Numbers(u, y)' = 1 .. (k + 1)
        BY <2>3, <2>4, <3>1, <4>1
      <4> QED
        BY <4>2
    <3>2. CASE ~ (u = c.university /\ y = c.year)
      <4>1. Numbers(u, y)' = Numbers(u, y)
        BY <2>2, <3>2 DEF Numbers
      <4> QED
        BY <1>0, <4>1 DEF NumbersAreInitial
    <3> QED
      BY <3>1, <3>2
  <2>6. \A d \in certificates :
           d.university = c.university /\ d.year = c.year => d.sequence # c.sequence
    <3>1. \A d \in certificates :
             d.university = c.university /\ d.year = c.year => d.sequence \in 1 .. k
      BY <2>3 DEF Numbers
    <3> QED
      BY <2>4, <3>1
  <2>7. UidsAreUnique'
    BY <1>0, <2>2, <2>6 DEF UidsAreUnique
  <2> QED
    BY <2>5, <2>7 DEF NumbersAreInitial
<1> QED
  BY <1>1, <1>2

\* A row finds its file, and no other row has it.
LEMMA RowsKeepTheirFiles ==
    ASSUME UploadInv, [Next]_vars
    PROVE  RowsHaveFiles' /\ FileHasOneCertificate'
<1>0. RowsHaveFiles /\ FileHasOneCertificate
  BY DEF UploadInv
<1>1. \A d \in certificates : disk'[d.id] = d.hash
  <2> TAKE d \in certificates
  <2>1. d.id \in CertId /\ NameTaken(d.id)
    BY DEF NameTaken, UploadInv, UploadTypeOK, CertificateRow
  <2> QED
    BY <1>0, <2>1, FilesAreKept DEF RowsHaveFiles
<1>2. CASE certificates' = certificates
  BY <1>0, <1>1, <1>2 DEF RowsHaveFiles, FileHasOneCertificate
<1>3. CASE certificates' # certificates
  <2>1. PICK r \in Request : Commit(r)
    BY <1>3, OnlyCommitInserts
  <2>2. PICK c \in CertificateRow :
           /\ certificates' = certificates \union {c}
           /\ c.hash = disk[c.id]
           /\ c.hash \notin {d.hash : d \in certificates}
    BY <2>1, CommitAddsTheNext
  <2>3. disk' = disk
    BY <2>1 DEF Commit
  <2> QED
    BY <1>0, <1>1, <2>2, <2>3 DEF RowsHaveFiles, FileHasOneCertificate
<1> QED
  BY <1>2, <1>3

\* The inductive invariant holds in every behaviour of an upload.
THEOREM UploadInvariant == Spec => []UploadInv
<1>1. UploadInv /\ [Next]_vars => UploadInv'
  BY TypesArePreserved, ConsistencyIsPreserved, NumbersStayInitial, RowsKeepTheirFiles
  DEF UploadInv
<1> QED
  BY InitImpliesUploadInv, <1>1, PTL DEF Spec

-----------------------------------------------------------------------------
(* What it means for the certificates.                                     *)

\* In a year whose rows have different numbers, there are as many rows as
\* numbers.
LEMMA CountedByNumbers ==
    ASSUME UidsAreUnique, NEW u, NEW y, NEW k \in Nat, Numbers(u, y) = 1 .. k
    PROVE  Cardinality({c \in certificates : c.university = u /\ c.year = y}) = k
<1> DEFINE S == {c \in certificates : c.university = u /\ c.year = y}
           f == [n \in 1 .. k |-> CHOOSE c \in S : c.sequence = n]
<1>1. \A n \in 1 .. k : f[n] \in S /\ f[n].sequence = n
  <2> TAKE n \in 1 .. k
  <2>1. \E c \in S : c.sequence = n
    BY DEF Numbers
  <2> QED
    BY <2>1
<1>2. \A c \in S : c.sequence \in 1 .. k /\ f[c.sequence] = c
  <2> TAKE c \in S
  <2>1. c.sequence \in 1 .. k
    BY DEF Numbers
  <2>2. f[c.sequence] \in S /\ f[c.sequence].sequence = c.sequence
    BY <1>1, <2>1
  <2> QED
    BY <2>1, <2>2 DEF UidsAreUnique
<1>3. f \in [1 .. k -> S]
  BY <1>1
<1> HIDE DEF f
<1>4. f \in Bijection(1 .. k, S)
  <2>1. \A a, b \in 1 .. k : f[a] = f[b] => a = b
    BY <1>1
  <2>2. \A c \in S : \E a \in 1 .. k : f[a] = c
    BY <1>2
  <2> QED
    BY <1>3, <2>1, <2>2 DEF Bijection, Injection, Surjection, IsInjective
<1>5. ExistsBijection(1 .. k, S)
  BY <1>4 DEF ExistsBijection
<1> QED
  BY <1>5, FS_CountingElements

\* Rows, files and uploads in progress keep values of their domains; no row has
\* a number the UID's format has no room for.
THEOREM UploadTypes == Spec => []UploadTypeOK
BY UploadInvariant, PTL DEF UploadInv

\* The numbers of a university's year run from 1 without gaps or repetitions,
\* however uploads of the same university interleave, fail or cross a year.
THEOREM NumbersNeverHaveGaps == Spec => []NumbersHaveNoGaps
<1>1. UploadInv => NumbersHaveNoGaps
  <2> SUFFICES ASSUME UploadInv, NEW u \in University, NEW y \in 0 .. MaxYear
               PROVE  Numbers(u, y) =
                         1 .. Cardinality({c \in certificates :
                                              c.university = u /\ c.year = y})
    BY DEF NumbersHaveNoGaps
  <2>1. PICK k \in Nat : Numbers(u, y) = 1 .. k
    BY DEF UploadInv, NumbersAreInitial
  <2> QED
    BY <2>1, CountedByNumbers DEF UploadInv
<1> QED
  BY UploadInvariant, <1>1, PTL

\* Every row finds its file, whatever crashed before or ran beside its upload.
THEOREM RowsAlwaysHaveFiles == Spec => []RowsHaveFiles
BY UploadInvariant, PTL DEF UploadInv

\* No two rows have the same file, however many uploads checked it at once.
THEOREM FilesHaveOneCertificate == Spec => []FileHasOneCertificate
BY UploadInvariant, PTL DEF UploadInv

-----------------------------------------------------------------------------
(* Phase 1 is the step Upload of the abstract ledger, although it takes    *)
(* four steps and other uploads move between them.  A certificate of the   *)
(* ledger is here a file; nothing of it is on the chain yet.               *)

Uploaded == {c.hash : c \in certificates}

UploadedDb == [f \in File |-> IF f \in Uploaded THEN "open" ELSE "absent"]

Ledger == INSTANCE CredentialLedger
    WITH Cert <- File, MaxQr <- 0,
         chain <- [f \in File |-> [record |-> "none", revoked |-> FALSE]],
         owned <- {}, db <- UploadedDb, codes <- [f \in File |-> << >>]

\* Of the ledger's steps this module takes only the uploads.
UploadsOnly ==
    /\ Ledger!LedgerInit
    /\ [][\E f \in File : Ledger!Upload(f)]_(Ledger!ledger)

\* However many uploads of a file are under way, from whichever universities, one
\* of them takes effect, at once, when it commits; it turns the file from unknown
\* into one with an unconfirmed certificate, and no upload that fails shows.
THEOREM UploadTakesOneStep == Spec => UploadsOnly
<1>1. Init => Ledger!LedgerInit
  BY DEF Init, Ledger!LedgerInit, UploadedDb, Uploaded
<1>2. UploadInv /\ [Next]_vars => [\E f \in File : Ledger!Upload(f)]_(Ledger!ledger)
  <2> SUFFICES ASSUME UploadInv, [Next]_vars
               PROVE  UploadedDb' = UploadedDb \/ \E f \in File : Ledger!Upload(f)
    BY DEF Ledger!ledger
  <2>1. CASE certificates' = certificates
    BY <2>1 DEF UploadedDb, Uploaded
  <2>2. CASE certificates' # certificates
    <3>1. PICK r \in Request : Commit(r)
      BY <2>2, OnlyCommitInserts
    <3>2. PICK c \in CertificateRow :
             /\ certificates' = certificates \union {c}
             /\ c.hash \notin {d.hash : d \in certificates}
      BY <3>1, CommitAddsTheNext
    <3>3. c.hash \in File
      BY DEF CertificateRow
    <3>4. Uploaded' = Uploaded \union {c.hash} /\ c.hash \notin Uploaded
      BY <3>2 DEF Uploaded
    <3>5. UploadedDb[c.hash] = "absent"
      BY <3>3, <3>4 DEF UploadedDb
    <3>6. UploadedDb' = [UploadedDb EXCEPT ![c.hash] = "open"]
      BY <3>3, <3>4 DEF UploadedDb
    <3>7. Ledger!Upload(c.hash)
      BY <3>5, <3>6 DEF Ledger!Upload
    <3> QED
      BY <3>3, <3>7
  <2> QED
    BY <2>1, <2>2
<1> QED
  BY <1>1, <1>2, UploadInvariant, PTL DEF Spec, UploadsOnly

\* Rows are never changed or taken back, and neither a name on disk nor a UID is
\* used for two certificates: what a UID or a QR code leads to stays what it was.
RowsAreKept ==
    [][/\ certificates \subseteq certificates'
       /\ \A c \in certificates, d \in certificates' :
             \/ c.id = d.id
             \/ /\ c.university = d.university
                /\ c.year = d.year
                /\ c.sequence = d.sequence
             => c = d]_vars

\* An upload neither changes a row nor reuses its UID or the name of its file
\* (UNIQUE, and uuid4 for the names), also when it read its number before the row
\* was there.
THEOREM RowsKeepTheirNames == Spec => RowsAreKept
<1>1. UploadInv /\ UploadInv' /\ [Next]_vars =>
      [/\ certificates \subseteq certificates'
       /\ \A c \in certificates, d \in certificates' :
             \/ c.id = d.id
             \/ /\ c.university = d.university
                /\ c.year = d.year
                /\ c.sequence = d.sequence
             => c = d]_vars
  <2> SUFFICES ASSUME UploadInv', [Next]_vars
               PROVE  /\ certificates \subseteq certificates'
                      /\ \A c, d \in certificates' :
                            \/ c.id = d.id
                            \/ /\ c.university = d.university
                               /\ c.year = d.year
                               /\ c.sequence = d.sequence
                            => c = d
    OBVIOUS
  <2>1. certificates \subseteq certificates'
    BY OnlyCommitInserts DEF Commit
  <2>2. \A c, d \in certificates' : c.id = d.id => c = d
    BY DEF UploadInv, RowsHaveFiles, FileHasOneCertificate
  <2> QED
    BY <2>1, <2>2 DEF UploadInv, UidsAreUnique
<1> QED
  BY <1>1, UploadInvariant, PTL DEF Spec, RowsAreKept
=============================================================================
