CONSTANTS
    None = None
    u1 = u1
    u2 = u2
    a1 = a1
    a2 = a2
    x1 = x1
    i0 = i0
    i1 = i1
    i2 = i2
    s1 = s1
    s2 = s2
    m1 = m1
    m2 = m2
    t1 = t1
    t2 = t2
    o1 = o1
    r1 = r1
    r2 = r2
    r3 = r3
    q1 = q1
    q2 = q2
    q3 = q3
    k1 = k1
    k2 = k2
    k3 = k3
    c1 = c1
    c2 = c2
    c3 = c3
    n1 = n1
    n2 = n2
    e1 = e1
    Users = {u1, u2}
    Admins = {u1}
    Apps = {a1, a2, x1}
    Participants = {x1}
    Creatable = {a2}
    Images = {i0, i1, i2}
    Secrets = {s1, s2}
    Machines = {m1, m2}
    Tokens = {t1, t2}
    Requests = {p1, p2}
    Groups <- AllGroups
    Starts <- AllStarts
    JwtApps = {a2}
    Organizations = {o1}
    Roles = {r1, r2}
    Attributes = {"email", "username"}
    Permissions <- AllPermissions
    Questions <- AllQuestions
    Beginnings <- AllBeginnings
    MaxChanges = 2
    PayloadLevel = TRUE
    DialogKinds <- DialogNames
    Subjects = {u1, u2}
    Marks <- AllMarks
    Lists <- AllLists
    Copies = {1, 2}
    MaxActs = 6
    Custom = {r1, r2}
    InternalRole = r3
    Extra = {q1, q2}
    InternalPermission = q3
    GrantsBefore <- GrantedBefore
    MaxClicks = 5
    Certificates = {k1, k2, k3}
    Listable = {k2, k3}
    Signed <- AllSigned
    Clients = {c1}
    Chains <- AllChains
    Callers = {p1}
    Refreshes = {f1, f2}
    Memberships <- AllMemberships
    MaxShifts = 2
    Issuer = c1
    Delegates = {c2}
    Documents <- AllDocuments
    Masks <- AllMasks
    Askers <- AllAskers
    Posts = {p1, p2}
    EidasApps = {a1}
    Persons = {n1, n2}
    Mailboxes = {e1}
    Photos = {i1, i2}
    Identities <- AllIdentities
    Windows = {w1, w2}
    RequestIds = {d1, d2}
    Visits = {p1, p2}
    Mandatory = {"name"}
    Configured = {"name", "birth"}
SPECIFICATION Spec
INVARIANTS PlatformTypeOK ApplicationsHaveAProvider JwtHasSecret ImageIsOnDisk OneProxyPerApplication TokensComeFromTheirOwner AnswersHaveGrounds DialogSendsWhatItShows GrantsAreWhatThePageShowed  DelegationsHaveGrounds  
CHECK_DEADLOCK FALSE
