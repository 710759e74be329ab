\* Sessions, connections and authority of concurrent requests.
SPECIFICATION FairSpec
CONSTANTS
    admin = admin
    employer = employer
    User = {admin, employer}
    RoleOf <- MCRoleOf
    Request = {r1, r2}
    Null = Null
    Offered = {"login", "refresh", "scanQr", "logout", "wallet", "confirmHash", "verifyFile"}
    PoolSize = 1
INVARIANTS
    RequestTypeOK
    SessionsAreSound
    AuthorityHolds
PROPERTIES
    RequestsEnd
