\* Verdicts while the ledger moves and the node comes and goes.
SPECIFICATION Spec
CONSTANTS
    Cert = {c1}
    Foreign = foreign
    Request = {r1, r2}
    Null = Null
    MaxLog = 2
    MaxQr = 2
SYMMETRY Symmetry
CHECK_DEADLOCK FALSE
INVARIANTS
    VerificationTypeOK
    AuthenticIsBacked
    RevokedIsTrue
    GenuineIsNotTampered
    ScansAreLogged
PROPERTIES
    NoAuthenticAfterRevoked
