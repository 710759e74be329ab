\* Contract: two legal UIDs, three wallets and the deployer.
SPECIFICATION Spec
CONSTANTS
    zero = zero
    deployer = deployer
    w1 = w1
    w2 = w2
    w3 = w3
    h0 = h0
    h1 = h1
    h2 = h2
    Address <- MCAddress
    ZeroAddress = zero
    Deployer = deployer
    Uid <- MCUid
    UidLength <- MCUidLength
    Hash <- MCHash
    ZeroHash = h0
INVARIANTS
    TypeOK
    CountersMatchRecords
PROPERTIES
    RecordsAreFinal
    RevocationNeedsTheIssuer
    AuthenticityLostOnlyByRevocation
