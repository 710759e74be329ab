\* The contract said REVOKED and the node was lost before the second call.
SPECIFICATION Spec
CONSTANTS
    Cert = {c1}
    Foreign = foreign
    Request = {r1, r2}
    Null = Null
    MaxLog = 2
    MaxQr = 2
SYMMETRY Symmetry
CHECK_DEADLOCK FALSE
PROPERTIES
    ChainAnswerIsKept
