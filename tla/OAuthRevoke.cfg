\* Tokens are revoked while they are refreshed; nothing dies in between.
CONSTANTS
    None = None
    u1 = u1
    u2 = u2
    c1 = c1
    c2 = c2
    Users = {u1}
    Clients = {c1, c2}
    Codes = {k1}
    Refreshes = {r1, r2}
    Accesses = {a1, a2}
    Requests = {p1, p2}
    Kinds = {"password", "client", "refresh", "revoke"}
    TokenTypes <- PermanentToo
    AskAuthorization = TRUE
    Deletable = {}
    Faults = FALSE
SPECIFICATION Spec
SYMMETRY Symmetry
INVARIANTS AckedRevocationHolds
