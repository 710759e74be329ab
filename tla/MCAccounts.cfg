\* Accounts and sessions under concurrent requests.
SPECIFICATION Spec
CONSTANTS
    Email = {e1}
    Password = {p1, p2}
    University = {u1}
    Request = {r1, r2}
    Null = Null
    MaxFailed = 2
    LockFor = 1
    TokenLife = 1
    MaxTime = 2
    MaxTokens = 2
    MaxCount = 3
SYMMETRY Symmetry
CHECK_DEADLOCK FALSE
INVARIANTS
    AccountTypeOK
    RolesAreBacked
    LockFollowsFailures
PROPERTIES
    FailuresAreKept
    LockIsNotShortened
    ClosedAccountsWither
