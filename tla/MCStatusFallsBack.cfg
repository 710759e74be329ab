\* A late answer takes a confirmed certificate back to SUBMITTED.
SPECIFICATION Spec
CONSTANTS
    zero = zero
    deployer = deployer
    w1 = w1
    h0 = h0
    good = good
    forged = forged
    uni = uni
    c1 = c1
    Address <- MCAddress
    Wallet = {deployer, w1}
    ZeroAddress = zero
    Deployer = deployer
    Hash <- MCHash
    ZeroHash = h0
    University = {uni}
    Cert = {c1}
    IssuerOf <- MCIssuerOf
    HashOf <- MCHashOf
    TxHash = {t1, t2}
    Request = {r1, r2}
    Null = Null
    MaxRevocations = 1
    MaxQr = 2
SYMMETRY Symmetry
CHECK_DEADLOCK FALSE
PROPERTIES
    StatusNeverFallsBack
