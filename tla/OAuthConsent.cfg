\* A withdrawn consent comes back with the next refresh.
CONSTANTS
    None = None
    u1 = u1
    u2 = u2
    c1 = c1
    c2 = c2
    Users = {u1}
    Clients = {c1}
    Codes = {k1}
    Refreshes = {r1, r2}
    Accesses = {a1, a2}
    Requests = {p1}
    Kinds = {"authorize", "code", "refresh"}
    TokenTypes <- BearerOnly
    AskAuthorization = TRUE
    Deletable = {}
    Faults = FALSE
SPECIFICATION Spec
INVARIANTS ConsentWasPrompted
