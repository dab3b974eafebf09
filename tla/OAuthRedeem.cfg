\* Codes are redeemed through both token endpoints, refreshed and replayed, by two
\* clients, while the account is deleted, which refuses statements and ends the process.
\* A server whose accounts are gone has nothing left to do: no deadlock check.
CONSTANTS
    None = None
    u1 = u1
    u2 = u2
    c1 = c1
    c2 = c2
    Users = {u1}
    Clients = {c1, c2}
    Codes = {k1}
    Refreshes = {r1, r2, r3}
    Accesses = {a1, a2, a3}
    Requests = {p1, p2}
    Kinds = {"authorize", "code", "refresh", "ishare"}
    TokenTypes <- BearerOnly
    AskAuthorization = TRUE
    Deletable = {u1}
    Faults = FALSE
SPECIFICATION Spec
SYMMETRY Symmetry
INVARIANTS TypeOK TokenLineage OneAccessPerRefresh
PROPERTIES SpentBuysNothing
CHECK_DEADLOCK FALSE
