--------------------------- MODULE Organizations ---------------------------
(***************************************************************************)
(* Organizations and who belongs to them.  A membership is a row of        *)
(* user_organization with a key of its own: nothing in the tables keeps a  *)
(* user from having two.  A step of a handler is what runs between two     *)
(* awaits; members are replaced by a destroy and a bulkCreate, and set by  *)
(* a find and a save, with other handlers in between.                      *)
(*                                                                         *)
(* An organization's name, description, website and image are left out.    *)
(***************************************************************************)
EXTENDS Integers, FiniteSets

CONSTANTS
    Users, Orgs,    \* accounts and organizations
    Rows,           \* keys of user_organization rows that may exist at a time
    Requests,       \* requests in flight at a time
    None,
    Groups,         \* the sets of request kinds that are explored together, and
                    \* "deleteAccount" where accounts may be deleted meanwhile
    Deletable,      \* accounts that may be deleted
    Founders        \* who may own the organization there is at the start

OrgRoles == {"owner", "member"}
WebOrgKinds == {"webCreate", "webDestroy", "leave", "setMembers"}
ApiOrgKinds == {"apiCreate", "apiDestroy", "addMember", "removeMember"}
OrgKinds == WebOrgKinds \union ApiOrgKinds

ASSUME OrgNoneAssumption == None \notin Users \union Orgs \union Rows
ASSUME OrgUsersAssumption == Deletable \subseteq Users /\ Founders \subseteq Users

VARIABLES
    users,      \* live rows of user
    orgs,       \* live rows of organization
    members,    \* user_organization
    req,        \* the handler each request slot is running
    owned,      \* history: a request's user has owned its organization since it came
    group       \* the kinds of requests this behaviour sees

orgVars == <<users, orgs, members, req, owned, group>>

Member == [id: Rows, org: Orgs, user: Users, role: OrgRoles]
Listing == UNION {[S -> OrgRoles] : S \in SUBSET Users}   \* a submitted form
OrgSteps == {"idle", "lost", "owner", "ownerRow", "bulkMembers", "saveMember", "createMember"}
                \union OrgKinds
OrgRequest == [pc: OrgSteps, kind: OrgKinds, actor: Users \union {None},
               org: Orgs \union {None}, user: Users \union {None}, as: OrgRoles,
               row: Rows \union {None}, list: Listing]
Quiet == [pc |-> "idle", kind |-> "leave", actor |-> None, org |-> None,
          user |-> None, as |-> "member", row |-> None, list |-> <<>>]

OrgTypeOK ==
    /\ users \subseteq Users
    /\ orgs \subseteq Orgs
    /\ members \subseteq Member
    /\ \A m, n \in members : m.id = n.id => m = n
    /\ \A p \in Requests : req[p].kind \in OrgKinds => req[p] \in OrgRequest
    /\ owned \in [Requests -> BOOLEAN]
    /\ group \in Groups

(***************************************************************************)
(* Rows.                                                                   *)
(***************************************************************************)
MemberFk(m, us, os) == m.user \in us /\ m.org \in os
MembersOf(o) == {m \in members : m.org = o}
Owners == {<<m.user, m.org>> : m \in {n \in members : n.role = "owner"}}

\* Keys are never drawn twice: one that a handler still holds is not reused.
FreeRows == Rows \ ({m.id : m \in members} \union {req[p].row : p \in Requests})
NewMember(u, o, r) ==
    \E i \in FreeRows :
        members' = members \union {[id |-> i, org |-> o, user |-> u, role |-> r]}

At(p, pc) == req[p].pc = pc
Become(p, q) == req' = [req EXCEPT ![p] = q]
Goto(p, pc) == Become(p, [req[p] EXCEPT !.pc = pc])
Finish(p) == Become(p, Quiet)
Start(p, q) == /\ At(p, "idle")
               /\ q.kind \in group
               /\ Become(p, q)

\* A rejection that nobody handles ends the process, and every request with it:
\* they are lost, and those who sent them try again with the next process.
Die == req' = [p \in Requests |-> IF At(p, "idle") THEN Quiet
                                  ELSE [Quiet EXCEPT !.pc = "lost"]]
Restart(p) == At(p, "lost") /\ Finish(p) /\ UNCHANGED <<users, orgs, members>>

(***************************************************************************)
(* Requests arrive, with the organization (and the user) loaded.  The      *)
(* browser's user comes from a cookie and need not exist any more; the     *)
(* owner of an API token was found a moment ago.                           *)
(***************************************************************************)
WebOrganizationRequest(p) ==
    /\ \E u \in Users, o \in orgs :
        \/ Start(p, [Quiet EXCEPT !.pc = "leave", !.kind = "leave", !.actor = u,
                                  !.org = o])
        \/ Start(p, [Quiet EXCEPT !.pc = "owner", !.kind = "webDestroy", !.actor = u,
                                  !.org = o])
        \/ \E kind \in {"setMembers"} \intersect group, list \in Listing :
              Start(p, [Quiet EXCEPT !.pc = "owner", !.kind = kind,
                                     !.actor = u, !.org = o, !.list = list])
    /\ UNCHANGED <<users, orgs, members>>

ApiOrganizationRequest(p) ==
    /\ \E u \in users, o \in orgs, v \in users, r \in OrgRoles,
          kind \in {"apiDestroy", "addMember", "removeMember"} :
        Start(p, [Quiet EXCEPT !.pc = "owner", !.kind = kind, !.actor = u,
                               !.org = o, !.user = v, !.as = r])
    /\ UNCHANGED <<users, orgs, members>>

\* The organization is saved first, its owner's row comes in a second
\* statement.  The key is new: nothing in flight has heard of it.
CreateOrganization(p, u, kind) ==
    /\ \A q \in Requests : At(q, "idle")
    /\ \E o \in Orgs \ orgs :
        /\ Start(p, [Quiet EXCEPT !.pc = "ownerRow", !.kind = kind, !.actor = u,
                                  !.org = o])
        /\ orgs' = orgs \union {o}
    /\ UNCHANGED <<users, members>>
WebCreateOrganization(p) == \E u \in Users : CreateOrganization(p, u, "webCreate")
ApiCreateOrganization(p) == \E u \in users : CreateOrganization(p, u, "apiCreate")

\* The form's catch expects a validation error: it fails on a refused row.
CreateOwnerRow(p) ==
    /\ At(p, "ownerRow")
    /\ \/ /\ req[p].actor \in users /\ req[p].org \in orgs
          /\ NewMember(req[p].actor, req[p].org, "owner")
          /\ Finish(p)
       \/ /\ ~(req[p].actor \in users /\ req[p].org \in orgs)
          /\ IF req[p].kind = "webCreate" THEN Die ELSE Finish(p)
          /\ UNCHANGED members
    /\ UNCHANGED <<users, orgs>>

(***************************************************************************)
(* The handlers behind the owner check.                                    *)
(***************************************************************************)
OwnerCheck(p, kinds) ==
    /\ At(p, "owner") /\ req[p].kind \in kinds
    /\ IF <<req[p].actor, req[p].org>> \in Owners
       THEN Goto(p, req[p].kind)
       ELSE Finish(p)
    /\ UNCHANGED <<users, orgs, members>>

\* (mutant) Any membership will do.
AnyMemberPasses(p) ==
    /\ At(p, "owner") /\ req[p].kind \in WebOrgKinds
    /\ IF \E m \in MembersOf(req[p].org) : m.user = req[p].actor
       THEN Goto(p, req[p].kind)
       ELSE Finish(p)
    /\ UNCHANGED <<users, orgs, members>>

WebOwnedPermissions(p) == OwnerCheck(p, WebOrgKinds)
ApiOwnedPermissions(p) == OwnerCheck(p, ApiOrgKinds)

\* The memberships go with the organization.
Destroy(p) ==
    /\ orgs' = orgs \ {req[p].org}
    /\ members' = {m \in members : MemberFk(m, users, orgs')}
    /\ Finish(p)
    /\ UNCHANGED users
WebDestroyOrganization(p) == At(p, "webDestroy") /\ Destroy(p)
ApiDestroyOrganization(p) == At(p, "apiDestroy") /\ Destroy(p)

\* remove: a member leaves; an owner's row stays.
LeaveOrganization(p) ==
    /\ At(p, "leave")
    /\ members' = members \ {m \in MembersOf(req[p].org) :
                                m.user = req[p].actor /\ m.role = "member"}
    /\ Finish(p)
    /\ UNCHANGED <<users, orgs>>

\* (mutant) What was destroyed is not looked at.
DestroyMembersBlindly(p) ==
    /\ At(p, "setMembers")
    /\ members' = members \ MembersOf(req[p].org)
    /\ Goto(p, "bulkMembers")
    /\ UNCHANGED <<users, orgs>>

\* add_members: a list that finds no rows to destroy is refused.
DestroyMembers(p) ==
    /\ At(p, "setMembers")
    /\ members' = members \ MembersOf(req[p].org)
    /\ IF MembersOf(req[p].org) # {} THEN Goto(p, "bulkMembers") ELSE Finish(p)
    /\ UNCHANGED <<users, orgs>>

\* One INSERT: it is refused as a whole.
BulkCreateMembers(p) ==
    /\ At(p, "bulkMembers")
    /\ LET list == req[p].list IN
       IF DOMAIN list \subseteq users /\ req[p].org \in orgs
       THEN \E key \in [DOMAIN list -> FreeRows] :
              /\ \A u, v \in DOMAIN list : key[u] = key[v] => u = v
              /\ members' = members \union
                    {[id |-> key[u], org |-> req[p].org, user |-> u,
                      role |-> list[u]] : u \in DOMAIN list}
       ELSE UNCHANGED members
    /\ Finish(p)
    /\ UNCHANGED <<users, orgs>>

\* addRole: find the membership, then save it with its new role or create one.
\* What has the role already is not written.
FindMember(p) ==
    /\ At(p, "addMember")
    /\ LET found == {m \in MembersOf(req[p].org) : m.user = req[p].user} IN
       \/ /\ \E m \in found : /\ m.role # req[p].as
                             /\ Become(p, [req[p] EXCEPT !.pc = "saveMember", !.row = m.id])
       \/ (\E m \in found : m.role = req[p].as) /\ Finish(p)
       \/ found = {} /\ Goto(p, "createMember")
    /\ UNCHANGED <<users, orgs, members>>

SaveMember(p) ==
    /\ At(p, "saveMember")
    /\ members' = {IF m.id = req[p].row THEN [m EXCEPT !.role = req[p].as] ELSE m :
                     m \in members}
    /\ Finish(p)
    /\ UNCHANGED <<users, orgs>>

CreateMember(p) ==
    /\ At(p, "createMember")
    /\ IF req[p].user \in users /\ req[p].org \in orgs
       THEN NewMember(req[p].user, req[p].org, req[p].as)
       ELSE UNCHANGED members
    /\ Finish(p)
    /\ UNCHANGED <<users, orgs>>

RemoveMember(p) ==
    /\ At(p, "removeMember")
    /\ members' = members \ {m \in MembersOf(req[p].org) :
                                m.user = req[p].user /\ m.role = req[p].as}
    /\ Finish(p)
    /\ UNCHANGED <<users, orgs>>

\* The account goes, with its memberships.
DeleteAccount(u) ==
    /\ "deleteAccount" \in group
    /\ users' = users \ {u}
    /\ members' = {m \in members : MemberFk(m, users', orgs)}
    /\ UNCHANGED <<orgs, req>>

OrgStep ==
    \/ \E p \in Requests :
        \/ Restart(p) \/ WebOrganizationRequest(p) \/ ApiOrganizationRequest(p)
        \/ WebCreateOrganization(p) \/ ApiCreateOrganization(p) \/ CreateOwnerRow(p)
        \/ WebOwnedPermissions(p) \/ ApiOwnedPermissions(p)
        \/ WebDestroyOrganization(p) \/ ApiDestroyOrganization(p) \/ LeaveOrganization(p)
        \/ DestroyMembers(p) \/ BulkCreateMembers(p)
        \/ FindMember(p) \/ SaveMember(p) \/ CreateMember(p) \/ RemoveMember(p)
    \/ \E u \in users \intersect Deletable : DeleteAccount(u)

OrgInit ==
    /\ users = Users
    /\ \E o \in Orgs, u \in Founders, i \in Rows :
        /\ orgs = {o}
        /\ members = {[id |-> i, org |-> o, user |-> u, role |-> "owner"]}
    /\ req = [p \in Requests |-> Quiet]
    /\ owned = [p \in Requests |-> FALSE]
    /\ group \in Groups

\* The history of ownership and the choice of requests go with every step.
OrgHistory ==
    /\ owned' = [p \in Requests |->
                    /\ req'[p].pc \notin {"idle", "lost"}
                    /\ \/ ~At(p, "idle") /\ owned[p]
                       \/ <<req'[p].actor, req'[p].org>> \in Owners']
    /\ UNCHANGED group

(***************************************************************************)
(* Properties.                                                             *)
(***************************************************************************)
\* The form that replaces the members (add_members) never leaves a user with two
\* roles in an organization, although it destroys and creates in two statements
\* and two owners may submit it at once: whoever finds nothing to destroy is
\* refused.  The API's addRole, a find followed by a create, knows no such check.
FormKeepsOneRole ==
    "addMember" \notin group =>
        \A m, n \in members : m.org = n.org /\ m.user = n.user => m = n

Works(p) == req[p].pc \notin {"idle", "lost"} /\ req'[p] # req[p]

\* The members of an organization change only at the hands of a request whose
\* user has owned it since the request came (or creates it), of a member who
\* leaves, or with the accounts themselves: the owner check of one request is
\* never used by another, and never outlives it.
MembersChangedByOwners ==
    [][\A o \in orgs' :
          \/ {m \in MembersOf(o) : m.user \in users'} = {m \in members' : m.org = o}
          \/ \E p \in Requests :
                /\ Works(p) /\ req[p].org = o
                /\ owned[p] \/ req[p].kind \in {"webCreate", "apiCreate", "leave"}]_orgVars

=============================================================================
