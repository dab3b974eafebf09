\* Every request ends and every redeemed code dies, with accounts deleted at any step.
\* A server whose accounts are gone has nothing left to do: no deadlock check.
CONSTANTS
    None = None
    u1 = u1
    u2 = u2
    c1 = c1
    c2 = c2
    Users = {u1}
    Clients = {c1}
    Codes = {k1}
    Refreshes = {r1}
    Accesses = {a1, a2}
    Requests = {p1, p2}
    Kinds = {"authorize", "code", "ishare", "password", "refresh"}
    TokenTypes <- JwtToo
    AskAuthorization = TRUE
    Deletable = {u1, c1}
    Faults = FALSE
SPECIFICATION FairSpec
PROPERTIES  RedeemedCodeDies  ImplementsLifecycle
CHECK_DEADLOCK FALSE
