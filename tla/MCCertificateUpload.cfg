\* Numbers, files and rows of concurrent uploads.
SPECIFICATION Spec
CONSTANTS
    University = {u1, u2}
    File = {f1, f2, f3}
    CertId = {d1, d2, d3, d4}
    Request = {r1, r2}
    Null = Null
    MaxSequence = 2
    MaxYear = 1
SYMMETRY Symmetry
CHECK_DEADLOCK FALSE
INVARIANTS
    UploadTypeOK
    NumbersHaveNoGaps
    RowsHaveFiles
    FileHasOneCertificate
