-------------------------- MODULE AppAuthorization --------------------------
(***************************************************************************)
(* Who may do what in one application: its roles, its permissions, which   *)
(* permissions a role carries, and to whom a role is assigned, directly or *)
(* through an organization.  Every request passes a check of three queries *)
(* in a row (memberships, then roles, then permissions), and nothing keeps *)
(* the tables still between the check and the statements it lets through.  *)
(*                                                                         *)
(* The module adds these tables to Organizations, on whose memberships the *)
(* check rests.  Authorization rules are of the "advanced" level.  Names   *)
(* and descriptions are left out; so are duplicate rows, which every       *)
(* handler reads, writes and deletes together.                             *)
(***************************************************************************)
EXTENDS Organizations, Sequences

CONSTANTS
    CustomRoles, CustomPermissions,  \* keys drawn for roles and permissions
    Handed, Granted,        \* roles and permissions that requests mention
    Named,                  \* whom requests mention: <<user>> or <<organization, role>>
    FormSize,               \* rows a submitted form may have
    Starts                  \* for each group, the tables it may start from

ASSUME FormSizeAssumption == FormSize \in Nat

VARIABLES
    roles, rules,   \* live custom roles; live custom permissions with their rules
    born,           \* custom keys that have been drawn
    rp,             \* role_permission: which role carries which permission
    assign,         \* role_assignment: to whom (a user, or an organization's owners
                    \* or members) which role is assigned
    worn, held, powers, \* history: what the user of a request has been since it came
                    \* (see Hats), the roles that came with any of it, and the
                    \* permissions that came with any of those
    stale           \* history: permissions saved from an outdated copy

appVars == <<roles, rules, born, rp, assign>>
vars == <<orgVars, appVars, worn, held, powers, stale>>

InternalRoles == {"provider", "purchaser"}
InternalPermissions == {"1", "2", "3", "4", "5", "6"}
Roles == InternalRoles \union CustomRoles
Permissions == InternalPermissions \union CustomPermissions
InternalGrants == ({"provider"} \X InternalPermissions) \union {<<"purchaser", "5">>}

Rules == SUBSET {"rest", "xml"}     \* which of its two forms a permission's rule has
Assignees == {<<u>> : u \in Users} \union (Orgs \X OrgRoles)
Assignment == [to: Assignees, role: Roles]

\* The internal roles and permissions have fixed keys; the others are drawn.
ASSUME CustomAssumption == /\ CustomRoles \intersect InternalRoles = {}
                           /\ CustomPermissions \intersect InternalPermissions = {}
ASSUME NamedAssumption == Named \subseteq Assignees
ASSUME GrantedAssumption == Handed \subseteq Roles /\ Granted \subseteq Permissions
ASSUME StartsAssumption ==
    \A g \in Groups : \A s \in Starts[g] :
        /\ s.roles \subseteq CustomRoles /\ DOMAIN s.rules \subseteq CustomPermissions
        /\ s.rules \in [DOMAIN s.rules -> {{"rest"}, {"xml"}}]
        /\ s.grants \subseteq s.roles \X (InternalPermissions \union DOMAIN s.rules)
        /\ s.assign \subseteq [to: Assignees, role: s.roles \union InternalRoles]

AssignKinds == {"authorize", "addRole", "removeRole"}
AccessKinds == {"createRole", "deleteRole", "createPermission", "editPermission",
                "deletePermission", "grants", "grant", "revoke"}

AppSteps == {"roles", "permissions", "changeable", "bulkAssign", "bulkGrant"}
                \union AssignKinds \union AccessKinds
Job == [pc: AppSteps, kind: AssignKinds \union AccessKinds, web: BOOLEAN,
        actor: Users, org: {None}, row: {None},
        hats: SUBSET Assignees, has: SUBSET Roles, perms: SUBSET Permissions,
        can: SUBSET Roles, to: Assignees \union {<<>>}, role: Roles,
        perm: Permissions, copy: Rules, rule: Rules,
        form: SUBSET Assignment, grid: SUBSET (Roles \X Permissions)]
NewJob == [pc |-> "roles", kind |-> "grant", web |-> FALSE, actor |-> None,
           org |-> None, row |-> None, hats |-> {}, has |-> {}, perms |-> {},
           can |-> {}, to |-> <<>>, role |-> "provider", perm |-> "1", copy |-> {},
           rule |-> {}, form |-> {}, grid |-> {}]

AppTypeOK ==
    /\ OrgTypeOK
    /\ roles \subseteq born /\ DOMAIN rules \subseteq born
    /\ born \subseteq CustomRoles \union CustomPermissions
    /\ rules \in [DOMAIN rules -> Rules]
    /\ \A g \in rp : g[1] \in roles \union InternalRoles
                     /\ g[2] \in DOMAIN rules \union InternalPermissions
    /\ \A a \in assign : /\ a \in Assignment
                         /\ a.role \in roles \union InternalRoles
                         /\ a.to[1] \in users \union orgs
    /\ \A p \in Requests : req[p].kind \notin OrgKinds => req[p] \in Job

(***************************************************************************)
(* Rows and what they refer to.                                            *)
(***************************************************************************)
IsUser(to) == Len(to) = 1
LiveRole(r, rs) == r \in rs \union InternalRoles
LivePermission(g, ps) == g \in ps \union InternalPermissions
AssignmentFk(a, us, os, rs) == LiveRole(a.role, rs) /\ a.to[1] \in us \union os
GrantFk(g, rs, ps) == LiveRole(g[1], rs) /\ LivePermission(g[2], ps)

\* What a user is, for the check: itself, and the owner or member of organizations.
Hats(u, ms) == {<<u>>} \union {<<m.org, m.role>> : m \in {n \in ms : n.user = u}}
RolesOf(hats, as) == {a.role : a \in {b \in as : b.to \in hats}}
PermissionsOf(rs, gs) == {g[2] : g \in {h \in gs : h[1] \in rs}}

(***************************************************************************)
(* Requests arrive, and the first query of the check finds the memberships *)
(* of their user.  A form that has been open for long may name what is     *)
(* gone; what an API path names has just been loaded.                      *)
(***************************************************************************)
ApiRequest(u, kind) == [NewJob EXCEPT !.kind = kind, !.actor = u, !.hats = Hats(u, members)]
WebRequest(u, kind) == [ApiRequest(u, kind) EXCEPT !.web = TRUE]

Forms(rows) == {f \in SUBSET rows : Cardinality(f) \in 1..FormSize}
OnceRoles == Handed \intersect (InternalRoles \union born)
OncePermissions == Granted \intersect (InternalPermissions \union born)
LoadedRoles == Handed \intersect (InternalRoles \union roles)
LoadedPermissions == Granted \intersect (InternalPermissions \union DOMAIN rules)
SubmittedRules == {{"rest"}, {"xml"}}  \* a body with both forms, or none, is refused
Seen(kinds) == kinds \intersect group

WebAppRequest(p) ==
    /\ \E u \in Users :
        \/ \E kind \in Seen({"authorize"}), toUsers \in BOOLEAN :
           \E f \in Forms([to: {t \in Named : IsUser(t) = toUsers}, role: OnceRoles]) :
              Start(p, [WebRequest(u, kind) EXCEPT !.form = f])
        \/ \E kind \in Seen({"grants"}), f \in Forms(OnceRoles \X OncePermissions) :
           \E more \in SUBSET OnceRoles :
              Start(p, [WebRequest(u, kind) EXCEPT
                            !.grid = f, !.can = more \union {g[1] : g \in f}])
        \/ \E kind \in Seen({"createRole"}) : Start(p, WebRequest(u, kind))
        \/ \E kind \in Seen({"deleteRole"}), r \in OnceRoles \ InternalRoles :
              Start(p, [WebRequest(u, kind) EXCEPT !.role = r])
        \/ \E kind \in Seen({"createPermission"}), rule \in SubmittedRules :
              Start(p, [WebRequest(u, kind) EXCEPT !.rule = rule])
        \/ \E kind \in Seen({"editPermission"}), rule \in SubmittedRules,
              g \in OncePermissions \ InternalPermissions :
              Start(p, [WebRequest(u, kind) EXCEPT !.perm = g, !.rule = rule])
        \/ \E kind \in Seen({"deletePermission"}), g \in OncePermissions \ InternalPermissions :
              Start(p, [WebRequest(u, kind) EXCEPT !.perm = g])
    /\ UNCHANGED <<users, orgs, members, appVars>>

ApiAppRequest(p) ==
    /\ \E u \in users :
        \/ \E kind \in Seen({"addRole", "removeRole"}), r \in LoadedRoles,
              to \in {t \in Named : t[1] \in users \union orgs} :
              Start(p, [ApiRequest(u, kind) EXCEPT !.role = r, !.to = to])
        \/ \E kind \in Seen({"grant", "revoke"}), r \in LoadedRoles,
              g \in LoadedPermissions :
              Start(p, [ApiRequest(u, kind) EXCEPT !.role = r, !.perm = g])
        \/ \E kind \in Seen({"createRole"}) : Start(p, ApiRequest(u, kind))
        \/ \E kind \in Seen({"deleteRole"}), r \in roles :
              Start(p, [ApiRequest(u, kind) EXCEPT !.role = r])
        \/ \E kind \in Seen({"createPermission"}), rule \in SubmittedRules :
              Start(p, [ApiRequest(u, kind) EXCEPT !.rule = rule])
        \/ \E kind \in Seen({"editPermission"}), g \in DOMAIN rules, rule \in SubmittedRules :
              Start(p, [ApiRequest(u, kind) EXCEPT
                            !.perm = g, !.rule = rule, !.copy = rules[g]])
        \/ \E kind \in Seen({"deletePermission"}), g \in DOMAIN rules :
              Start(p, [ApiRequest(u, kind) EXCEPT !.perm = g])
    /\ UNCHANGED <<users, orgs, members, appVars>>

(***************************************************************************)
(* owned_permissions and check_request: the other two queries, and the     *)
(* verdict.                                                                *)
(***************************************************************************)
Update(p, q) == Become(p, q) /\ UNCHANGED <<users, orgs, members, appVars>>

ReadRoles(p) ==
    /\ At(p, "roles")
    /\ Update(p, [req[p] EXCEPT !.pc = "permissions", !.hats = {},
                                !.has = RolesOf(req[p].hats, assign)])

\* (mutant) Whoever may assign roles may define them.
NeededToAssign(kind) == {"1", "3", "5", "6"}

\* The permissions the policy asks for, one of which is enough.
Needed(kind) == IF kind \in AssignKinds THEN {"1", "5", "6"} ELSE {"3"}

Verdict(p, refuse) ==
    /\ At(p, "permissions")
    /\ LET perms == PermissionsOf(req[p].has, rp) IN
       \/ /\ perms \intersect Needed(req[p].kind) # {}
          /\ IF req[p].kind \in AssignKinds
             THEN Become(p, [req[p] EXCEPT !.pc = "changeable", !.perms = perms])
             ELSE Become(p, [req[p] EXCEPT !.pc = req[p].kind, !.has = {}])
       \/ perms \intersect Needed(req[p].kind) = {} /\ refuse
    /\ UNCHANGED <<users, orgs, members, appVars>>

\* A browser's request that is refused is never answered: the rejection is not
\* returned to the chain that would catch it.
WebVerdict(p) == Verdict(p, Die) /\ req[p].web
ApiVerdict(p) == Verdict(p, Finish(p)) /\ ~req[p].web

(***************************************************************************)
(* Roles are assigned to users and organizations.                          *)
(***************************************************************************)
\* search_changeable_roles: "6" for one's own roles, "5" for the application's,
\* "1" for provider and purchaser.
ChangeableRoles(p) ==
    (IF "6" \in req[p].perms
     THEN {r \in req[p].has \ InternalRoles : r \in roles} ELSE {})
    \union (IF "5" \in req[p].perms THEN roles ELSE {})
    \union (IF "1" \in req[p].perms THEN InternalRoles ELSE {})

\* (mutant) Whatever roles are wanted may be changed.
ChangeAnyRole(p) ==
    /\ At(p, "changeable")
    /\ Become(p, [req[p] EXCEPT !.pc = req[p].kind, !.can = ChangeableRoles(p),
                                !.has = {}, !.perms = {}])
    /\ UNCHANGED <<users, orgs, members, appVars>>

\* The form is refused if it names a role its sender may not change.
SearchChangeableRoles(p) ==
    /\ At(p, "changeable")
    /\ LET wanted == IF req[p].kind = "authorize" THEN {a.role : a \in req[p].form}
                                                  ELSE {req[p].role} IN
       IF wanted \subseteq ChangeableRoles(p)
       THEN Become(p, [req[p] EXCEPT !.pc = req[p].kind, !.can = ChangeableRoles(p),
                                     !.has = {}, !.perms = {}])
       ELSE Finish(p)
    /\ UNCHANGED <<users, orgs, members, appVars>>

\* authorize_users, authorize_organizations: all rows of the roles that may be
\* changed are destroyed, those of users or those of organizations.
DestroyAssignments(p, ofUsers) ==
    /\ At(p, "authorize")
    /\ \E a \in req[p].form : IsUser(a.to) = ofUsers
    /\ assign' = {a \in assign : ~(a.role \in req[p].can /\ IsUser(a.to) = ofUsers)}
    /\ Goto(p, "bulkAssign")
    /\ UNCHANGED <<users, orgs, members, roles, rules, born, rp>>

AuthorizeUsers(p) == DestroyAssignments(p, TRUE)
AuthorizeOrganizations(p) == DestroyAssignments(p, FALSE)

BulkCreateAssignments(p) ==
    /\ At(p, "bulkAssign")
    /\ assign' = IF \A a \in req[p].form : AssignmentFk(a, users, orgs, roles)
                 THEN assign \union req[p].form ELSE assign
    /\ Finish(p)
    /\ UNCHANGED <<users, orgs, members, roles, rules, born, rp>>

AddRole(p) ==
    /\ At(p, "addRole")
    /\ LET a == [to |-> req[p].to, role |-> req[p].role] IN
       assign' = IF AssignmentFk(a, users, orgs, roles) THEN assign \union {a} ELSE assign
    /\ Finish(p)
    /\ UNCHANGED <<users, orgs, members, roles, rules, born, rp>>

AddUserRole(p) == AddRole(p) /\ IsUser(req[p].to)
AddOrganizationRole(p) == AddRole(p) /\ ~IsUser(req[p].to)

RemoveRole(p) ==
    /\ At(p, "removeRole")
    /\ assign' = assign \ {[to |-> req[p].to, role |-> req[p].role]}
    /\ Finish(p)
    /\ UNCHANGED <<users, orgs, members, roles, rules, born, rp>>

RemoveUserRole(p) == RemoveRole(p) /\ IsUser(req[p].to)
RemoveOrganizationRole(p) == RemoveRole(p) /\ ~IsUser(req[p].to)

(***************************************************************************)
(* Roles, permissions, and which role carries which.                       *)
(***************************************************************************)
CreateRole(p) ==
    /\ At(p, "createRole")
    /\ \E r \in CustomRoles \ born : roles' = roles \union {r} /\ born' = born \union {r}
    /\ Finish(p)
    /\ UNCHANGED <<users, orgs, members, rules, rp, assign>>
WebCreateRole(p) == CreateRole(p) /\ req[p].web
ApiCreateRole(p) == CreateRole(p) /\ ~req[p].web

\* (mutant) The role's assignments and permissions stay behind.
DeleteRoleOnly(p) ==
    /\ At(p, "deleteRole")
    /\ roles' = roles \ {req[p].role}
    /\ Finish(p)
    /\ UNCHANGED <<users, orgs, members, rules, born, rp, assign>>

\* Its assignments and permissions go with a role; provider and purchaser stay.
DeleteRole(p) ==
    /\ At(p, "deleteRole")
    /\ roles' = roles \ {req[p].role}
    /\ rp' = {g \in rp : GrantFk(g, roles', DOMAIN rules)}
    /\ assign' = {a \in assign : AssignmentFk(a, users, orgs, roles')}
    /\ Finish(p)
    /\ UNCHANGED <<users, orgs, members, rules, born>>
WebDeleteRole(p) == DeleteRole(p) /\ req[p].web
ApiDeleteRole(p) == DeleteRole(p) /\ ~req[p].web

CreatePermission(p) ==
    /\ At(p, "createPermission")
    /\ \E g \in CustomPermissions \ born :
        /\ rules' = [h \in DOMAIN rules \union {g} |->
                        IF h = g THEN req[p].rule ELSE rules[h]]
        /\ born' = born \union {g}
    /\ Finish(p)
    /\ UNCHANGED <<users, orgs, members, roles, rp, assign>>
WebCreatePermission(p) == CreatePermission(p) /\ req[p].web
ApiCreatePermission(p) == CreatePermission(p) /\ ~req[p].web

\* (mutant) Setting one form of the rule does not clear the other.
RuleSavedKeepsOther(q, row) ==
    IF q.web THEN {q.rule} ELSE {row \union q.rule}

\* The browser sends every field of the rule.  The API fills the loaded copy and
\* saves the fields in which it now differs from what was loaded; a rule of the
\* form it had may have the same text.
RuleSaved(q, row) ==
    IF q.web THEN {q.rule}
    ELSE LET other == {"rest", "xml"} \ q.rule
             cleared == row \ (other \intersect q.copy)
         IN  IF q.rule \subseteq q.copy THEN {cleared, cleared \union q.rule}
                                        ELSE {cleared \union q.rule}

EditPermission(p) ==
    /\ At(p, "editPermission")
    /\ LET g == req[p].perm IN
       IF g \in DOMAIN rules
       THEN \E rule \in RuleSaved(req[p], rules[g]) : rules' = [rules EXCEPT ![g] = rule]
       ELSE UNCHANGED rules
    /\ Finish(p)
    /\ UNCHANGED <<users, orgs, members, roles, born, rp, assign>>
WebEditPermission(p) == EditPermission(p) /\ req[p].web
ApiEditPermission(p) == EditPermission(p) /\ ~req[p].web

DeletePermission(p) ==
    /\ At(p, "deletePermission")
    /\ rules' = [g \in DOMAIN rules \ {req[p].perm} |-> rules[g]]
    /\ rp' = {g \in rp : GrantFk(g, roles, DOMAIN rules')}
    /\ Finish(p)
    /\ UNCHANGED <<users, orgs, members, roles, born, assign>>
WebDeletePermission(p) == DeletePermission(p) /\ req[p].web
ApiDeletePermission(p) == DeletePermission(p) /\ ~req[p].web

\* (mutant) The form may empty provider and purchaser too.
DestroyAllGrants(p) ==
    /\ At(p, "grants")
    /\ rp' = {g \in rp : g[1] \notin req[p].can}
    /\ Goto(p, "bulkGrant")
    /\ UNCHANGED <<users, orgs, members, roles, rules, born, assign>>

\* role_permissions_assign: the submitted roles, except provider and purchaser,
\* lose all their permissions, then get the submitted ones.
DestroyGrants(p) ==
    /\ At(p, "grants")
    /\ rp' = {g \in rp : g[1] \notin req[p].can \ InternalRoles}
    /\ IF req[p].can \subseteq InternalRoles THEN Finish(p) ELSE Goto(p, "bulkGrant")
    /\ UNCHANGED <<users, orgs, members, roles, rules, born, assign>>

BulkCreateGrants(p) ==
    /\ At(p, "bulkGrant")
    /\ LET new == {g \in req[p].grid : g[1] \notin InternalRoles} IN
       rp' = IF \A g \in new : GrantFk(g, roles, DOMAIN rules) THEN rp \union new ELSE rp
    /\ Finish(p)
    /\ UNCHANGED <<users, orgs, members, roles, rules, born, assign>>

Grant(p) ==
    /\ At(p, "grant")
    /\ LET g == <<req[p].role, req[p].perm>> IN
       rp' = IF req[p].role \notin InternalRoles /\ GrantFk(g, roles, DOMAIN rules)
             THEN rp \union {g} ELSE rp
    /\ Finish(p)
    /\ UNCHANGED <<users, orgs, members, roles, rules, born, assign>>

Revoke(p) ==
    /\ At(p, "revoke")
    /\ rp' = IF req[p].role \in InternalRoles THEN rp
             ELSE rp \ {<<req[p].role, req[p].perm>>}
    /\ Finish(p)
    /\ UNCHANGED <<users, orgs, members, roles, rules, born, assign>>

(***************************************************************************)
(* The specification.                                                      *)
(***************************************************************************)
AppStep ==
    \E p \in Requests :
        \/ WebAppRequest(p) \/ ApiAppRequest(p)
        \/ ReadRoles(p) \/ WebVerdict(p) \/ ApiVerdict(p)
        \/ SearchChangeableRoles(p) \/ AuthorizeUsers(p) \/ AuthorizeOrganizations(p)
        \/ BulkCreateAssignments(p) \/ AddUserRole(p) \/ AddOrganizationRole(p)
        \/ RemoveUserRole(p) \/ RemoveOrganizationRole(p)
        \/ WebCreateRole(p) \/ WebDeleteRole(p) \/ ApiCreateRole(p) \/ ApiDeleteRole(p)
        \/ WebCreatePermission(p) \/ WebEditPermission(p) \/ WebDeletePermission(p)
        \/ ApiCreatePermission(p) \/ ApiEditPermission(p) \/ ApiDeletePermission(p)
        \/ DestroyGrants(p) \/ BulkCreateGrants(p) \/ Grant(p) \/ Revoke(p)

\* With an account or an organization go the roles assigned to it.
OrgStepHere ==
    /\ OrgStep
    /\ assign' = {a \in assign : AssignmentFk(a, users', orgs', roles)}
    /\ UNCHANGED <<roles, rules, born, rp>>

\* What has been true of a request's user since the request came.
AppHistory ==
    LET busy(p) == req'[p].pc \notin {"idle", "lost"} /\ req'[p].kind \in AssignKinds \union AccessKinds
        before(p, h) == IF At(p, "idle") THEN {} ELSE h[p]
    IN  /\ worn' = [p \in Requests |->
              IF busy(p) THEN before(p, worn) \union Hats(req'[p].actor, members') ELSE {}]
        /\ held' = [p \in Requests |->
              IF busy(p) THEN before(p, held) \union RolesOf(worn'[p], assign') ELSE {}]
        /\ powers' = [p \in Requests |->
              IF busy(p) THEN before(p, powers) \union PermissionsOf(held'[p], rp') ELSE {}]
        /\ stale' = {g \in DOMAIN rules' :
              \/ g \in stale
              \/ \E p \in Requests : /\ At(p, "editPermission") /\ req'[p] # req[p]
                                     /\ ~req[p].web /\ req[p].perm = g
                                     /\ g \in DOMAIN rules /\ rules[g] # req[p].copy}

Init ==
    /\ OrgInit
    /\ \E s \in Starts[group] :
        /\ roles = s.roles
        /\ rules = s.rules
        /\ rp = InternalGrants \union s.grants
        /\ assign = {a \in s.assign : AssignmentFk(a, users, orgs, roles)}
    /\ born = roles \union DOMAIN rules
    /\ worn = [p \in Requests |-> {}]
    /\ held = [p \in Requests |-> {}]
    /\ powers = [p \in Requests |-> {}]
    /\ stale = {}

Next == (AppStep \/ OrgStepHere) /\ OrgHistory /\ AppHistory

Spec == Init /\ [][Next]_vars

(***************************************************************************)
(* Properties.                                                             *)
(***************************************************************************)
MayAssign(p, r) == IF r \in InternalRoles THEN "1" \in powers[p]
                   ELSE "5" \in powers[p] \/ ("6" \in powers[p] /\ r \in held[p])

\* A role is assigned or taken away only by a request whose user has had, since the
\* request came, the permission that covers it: "1" for provider and purchaser, "5"
\* for the application's roles, "6" for the user's own.  Not at one moment: the three
\* queries of the check see three, so that a member who leaves an organization just
\* before it gets a role still passes with that role; and others may act between
\* the check and the statements it lets through.  But each piece has been true
\* since the request came, and nothing older is used.
AssignmentsNeedAuthority ==
    [][\A a \in (assign \ assign') \union (assign' \ assign) :
          AssignmentFk(a, users', orgs', roles') =>
            \E p \in Requests : /\ Works(p) /\ req[p].kind \in AssignKinds
                                /\ MayAssign(p, a.role)]_vars

\* Roles, permissions and the permissions of roles change only at the hands of
\* a request whose user has had permission "3", in that sense, since it came.
AccessControlNeedsManager ==
    [][<<roles, rules, rp>>' # <<roles, rules, rp>> =>
          \E p \in Requests : /\ Works(p) /\ req[p].kind \in AccessKinds
                              /\ "3" \in powers[p]]_vars

\* Provider and purchaser keep the permissions they were installed with, whatever
\* forms name them and whatever is deleted.
InternalRolesKeepTheirPermissions == {g \in rp : g[1] \in InternalRoles} = InternalGrants

\* A permission has one rule in one form: action and resource, or XACML.  Only an
\* API update saved from a copy that another update had outdated can break it.
RuleIsExclusive ==
    \A g \in DOMAIN rules : g \notin stale => rules[g] \in {{"rest"}, {"xml"}}

\* Every refused request is answered (check_permissions promises a message or a
\* redirection).
DeniedIsAnswered == \A p \in Requests : ~At(p, "lost")
=============================================================================
