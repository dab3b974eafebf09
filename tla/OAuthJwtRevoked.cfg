\* A JWT access token is honoured after its refresh token is revoked.
CONSTANTS
    None = None
    u1 = u1
    u2 = u2
    c1 = c1
    c2 = c2
    Users = {u1}
    Clients = {c1}
    Codes = {k1}
    Refreshes = {r1}
    Accesses = {a1}
    Requests = {p1}
    Kinds = {"password", "revoke"}
    TokenTypes <- JwtToo
    AskAuthorization = TRUE
    Deletable = {}
    Faults = FALSE
SPECIFICATION Spec
INVARIANTS AckedRevocationHolds
