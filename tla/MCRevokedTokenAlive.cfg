\* One refresh token used twice.
SPECIFICATION Spec
CONSTANTS
    Email = {e1}
    Password = {p1, p2}
    University = {u1}
    Request = {r1, r2}
    Null = Null
    MaxFailed = 2
    LockFor = 1
    TokenLife = 1
    MaxTime = 2
    MaxTokens = 3
    MaxCount = 3
CHECK_DEADLOCK FALSE
PROPERTIES
    RevokedTokenIsDead
