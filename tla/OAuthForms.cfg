\* Bearer, permanent and JWT tokens, with and without a consent, while the user,
\* the client and the process come and go.
\* A server whose accounts are gone has nothing left to do: no deadlock check.
CONSTANTS
    None = None
    u1 = u1
    u2 = u2
    c1 = c1
    c2 = c2
    Users = {u1}
    Clients = {c1}
    Codes = {k1}
    Refreshes = {r1}
    Accesses = {a1, a2}
    Requests = {p1, p2}
    Kinds = {"implicit", "refresh", "password", "client"}
    TokenTypes <- AllForms
    AskAuthorization = TRUE
    Deletable = {u1, c1}
    Faults = TRUE
SPECIFICATION Spec
SYMMETRY Symmetry
INVARIANTS DeliveredIsStored
CHECK_DEADLOCK FALSE
