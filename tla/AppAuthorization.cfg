CONSTANTS
    None = None
    u1 = u1
    u2 = u2
    o1 = o1
    r1 = r1
    g1 = g1
    Users = {u1, u2}
    Orgs = {o1}
    Rows = {m1, m2, m3}
    Requests = {p1, p2}
    Deletable = {u2}
    Founders = {u2}
    CustomRoles = {r1}
    CustomPermissions = {g1}
    Handed = {"provider", r1}
    Granted = {"3", g1}
    FormSize = 1
    Groups <- AllGroups
    Starts <- AllStarts
    Named <- Members
SYMMETRY Symmetry
SPECIFICATION Spec
INVARIANTS AppTypeOK InternalRolesKeepTheirPermissions RuleIsExclusive FormKeepsOneRole
PROPERTIES AssignmentsNeedAuthority  MembersChangedByOwners
CHECK_DEADLOCK FALSE
