CONSTANTS
    None = None
    a1 = a1
    a2 = a2
    e1 = e1
    e2 = e2
    w1 = w1
    w2 = w2
    b1 = b1
    b2 = b2
    s1 = s1
    r1 = r1
    x1 = x1
    Accounts = {a1, a2, x1}
    External = {x1}
    Emails = {e1, e2}
    Passwords = {w1, w2}
    Secrets = {s1}
    Keys = {k1, k2}
    Rows = {r1, r2}
    Browsers = {b1, b2}
    Requests = {p1, p2}
    Groups <- TwoDevices
    Starts <- AllStarts
SYMMETRY Symmetry
SPECIFICATION Spec
PROPERTIES TfaEndsOnRequest
CHECK_DEADLOCK FALSE
