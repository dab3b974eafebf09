---------------------- MODULE AppAuthorizationProofs ----------------------
(***************************************************************************)
(* What AppAuthorization guarantees for any number of users,               *)
(* organizations, roles, permissions and requests in flight.               *)
(***************************************************************************)
EXTENDS AppAuthorization, TLAPS

(* Organizations, with requests in flight of which some are not its own. *)

OrgTables == <<users, orgs, members>>

\* Where the owner check has been passed.
CheckedKinds == {"webDestroy", "apiDestroy", "setMembers", "addMember", "removeMember"}
Checked == CheckedKinds \union {"bulkMembers", "saveMember", "createMember"}
OrgPcs == Checked \union {"owner", "ownerRow", "leave"}

\* What the program counter of a request says of its other fields.
OrgPlace(q) ==
    /\ q.pc \in OrgPcs => q \in OrgRequest /\ q.kind \in group /\ q.org \in Orgs
    /\ q.pc = "owner" => q.kind \in CheckedKinds
    /\ q.pc \in CheckedKinds \union {"leave"} => q.kind = q.pc
    /\ q.pc \in {"saveMember", "createMember"} => q.kind = "addMember"
    /\ q.pc = "bulkMembers" => q.kind = "setMembers"
    /\ q.pc = "ownerRow" => q.kind \in {"webCreate", "apiCreate"}
    /\ q.pc \in OrgPcs /\ q.kind = "addMember" => q.user \in Users
    /\ q.pc \notin OrgPcs => q.pc \notin OrgSteps \ {"idle", "lost"}
    /\ q.kind \in OrgKinds => q \in OrgRequest
OrgPlaces == \A p \in Requests : OrgPlace(req[p])

Slots == req = [p \in Requests |-> req[p]]
MembersFk == \A m \in members : MemberFk(m, users, orgs)
\* A row that a handler holds is not reused for another organization or user.
HeldRow(q, ms) == q.pc = "saveMember" => \A m \in ms : m.id = q.row => m.org = q.org
HeldRows == \A p \in Requests : HeldRow(req[p], members)
OwnerSince == \A p \in Requests : req[p].pc \in Checked => owned[p]
OrgRows ==
    /\ users \subseteq Users
    /\ orgs \subseteq Orgs
    /\ members \subseteq Member
    /\ \A m, n \in members : m.id = n.id => m = n

\* The part of the inductive invariant that is about organizations.
OrgInv ==
    /\ OrgRows /\ MembersFk /\ Slots /\ OrgPlaces
    /\ owned \in [Requests -> BOOLEAN] /\ group \in Groups
    /\ OwnerSince /\ HeldRows

LEMMA QuietPlace == Quiet \in OrgRequest /\ OrgPlace(Quiet)
<1>1. <<>> \in Listing
  <2>1. <<>> \in [{} -> OrgRoles]
    OBVIOUS
  <2> QED BY <2>1 DEF Listing
<1> QED BY <1>1 DEF Quiet, OrgRequest, OrgPlace, OrgSteps, OrgKinds, WebOrgKinds, ApiOrgKinds,
           OrgRoles, OrgPcs, Checked, CheckedKinds

LEMMA OrgInvTypes == OrgInv => OrgTypeOK
BY DEF OrgInv, OrgTypeOK, OrgRows, OrgPlaces, OrgPlace

\* Records a request becomes; the others stay, or all are lost.
LEMMA BecomeOrg ==
  ASSUME Slots, OrgPlaces, UNCHANGED group,
         NEW p \in Requests, NEW q, OrgPlace(q), Become(p, q)
  PROVE  Slots' /\ OrgPlaces'
<1>1. \A r \in Requests : req'[r] = IF r = p THEN q ELSE req[r]
  BY DEF Become, Slots
<1>2. Slots'
  BY DEF Become, Slots
<1>3. ASSUME NEW r \in Requests PROVE OrgPlace(req[r])'
  <2>1. OrgPlace(req'[r])
    BY <1>1 DEF OrgPlaces
  <2> QED BY <2>1 DEF OrgPlace
<1> QED BY <1>2, <1>3 DEF OrgPlaces

LEMMA LostPlace == OrgPlace([Quiet EXCEPT !.pc = "lost"])
BY QuietPlace DEF Quiet, OrgRequest, OrgPlace, OrgSteps, OrgKinds, WebOrgKinds, ApiOrgKinds,
   OrgRoles, OrgPcs, Checked, CheckedKinds

LEMMA DieOrg ==
  ASSUME UNCHANGED group, Die
  PROVE  Slots' /\ OrgPlaces'
<1>1. \A r \in Requests : req'[r] \in {Quiet, [Quiet EXCEPT !.pc = "lost"]}
  BY DEF Die
<1>2. ASSUME NEW r \in Requests PROVE OrgPlace(req[r])'
  <2>1. OrgPlace(req'[r])
    BY <1>1, QuietPlace, LostPlace
  <2> QED BY <2>1 DEF OrgPlace
<1> QED BY <1>2 DEF OrgPlaces, Slots, Die

\* What every step of a request's handler does to the requests; it passes the
\* owner check only for an owner.
Moves(p) == Die \/ \E q : OrgPlace(q) /\ Become(p, q)
OrgMoves(p) == Die \/ \E q \in OrgRequest : OrgPlace(q) /\ Become(p, q)
Advances(p) == req'[p].pc \in Checked =>
                   \/ req[p].pc \in Checked
                   \/ <<req'[p].actor, req'[p].org>> \in Owners'
Holds(p) == HeldRow(req'[p], members')

LEMMA FinishMoves == ASSUME NEW p \in Requests, Finish(p) PROVE OrgMoves(p)
BY QuietPlace DEF Finish, OrgMoves

LEMMA MovesOrg ==
  ASSUME Slots, OrgPlaces, UNCHANGED group, NEW p \in Requests, Moves(p)
  PROVE  Slots' /\ OrgPlaces'
BY BecomeOrg, DieOrg DEF Moves

LEMMA OrgMovesMove == ASSUME NEW p, OrgMoves(p) PROVE Moves(p)
BY DEF OrgMoves, Moves

(***************************************************************************)
(* Arrivals.                                                               *)
(***************************************************************************)
\* A request that has just come, for the owner check or to leave.
LEMMA Arrived ==
  ASSUME NEW q \in OrgRequest, q.org \in Orgs, q.kind \in group,
         \/ q.pc = "leave" /\ q.kind = "leave"
         \/ q.pc = "owner" /\ q.kind \in CheckedKinds /\ (q.kind = "addMember" => q.user \in Users)
         \/ q.pc = "ownerRow" /\ q.kind \in {"webCreate", "apiCreate"}
  PROVE  OrgPlace(q) /\ q.pc \notin Checked
BY DEF OrgPlace, OrgPcs, Checked, CheckedKinds, OrgSteps

LEMMA NewcomerMoves ==
  ASSUME Slots, NEW p \in Requests, NEW q \in OrgRequest, OrgPlace(q), q.pc \notin Checked, Become(p, q)
  PROVE  OrgMoves(p) /\ Advances(p) /\ Holds(p) /\ req'[p].pc = q.pc
<1>1. req'[p] = q
  BY DEF Become, Slots
<1> QED BY <1>1 DEF OrgMoves, Advances, Holds, HeldRow, Checked

LEMMA ArrivalMoves ==
  ASSUME OrgInv, NEW p \in Requests,
         WebOrganizationRequest(p) \/ ApiOrganizationRequest(p)
  PROVE  OrgMoves(p) /\ Advances(p) /\ Holds(p) /\ UNCHANGED OrgTables /\ req'[p].pc \in {"leave", "owner"}
<1>0. users \subseteq Users /\ orgs \subseteq Orgs /\ Slots
  BY DEF OrgInv, OrgRows
<1>1. CASE WebOrganizationRequest(p)
  <2>1. PICK u \in Users, o \in orgs :
        \/ Start(p, [Quiet EXCEPT !.pc = "leave", !.kind = "leave", !.actor = u,
                                  !.org = o])
        \/ Start(p, [Quiet EXCEPT !.pc = "owner", !.kind = "webDestroy", !.actor = u,
                                  !.org = o])
        \/ \E kind \in {"setMembers"} \intersect group, list \in Listing :
              Start(p, [Quiet EXCEPT !.pc = "owner", !.kind = kind,
                                     !.actor = u, !.org = o, !.list = list])
    BY <1>1 DEF WebOrganizationRequest
  <2>2. CASE Start(p, [Quiet EXCEPT !.pc = "leave", !.kind = "leave", !.actor = u, !.org = o])
    <3> DEFINE q == [Quiet EXCEPT !.pc = "leave", !.kind = "leave", !.actor = u, !.org = o]
    <3>1. /\ q \in OrgRequest /\ q.org \in Orgs /\ q.pc = "leave" /\ q.kind = "leave"
      BY <1>0, QuietPlace DEF Quiet, OrgRequest, OrgSteps, OrgKinds, WebOrgKinds
    <3>2. q.kind \in group /\ Become(p, q)
      BY <2>2 DEF Start
    <3> HIDE DEF q
    <3> QED BY <1>0, <1>1, <3>1, <3>2, Arrived, NewcomerMoves DEF WebOrganizationRequest, OrgTables
  <2>3. CASE Start(p, [Quiet EXCEPT !.pc = "owner", !.kind = "webDestroy", !.actor = u,
                                    !.org = o])
    <3> DEFINE q == [Quiet EXCEPT !.pc = "owner", !.kind = "webDestroy", !.actor = u, !.org = o]
    <3>1. /\ q \in OrgRequest /\ q.org \in Orgs /\ q.pc = "owner" /\ q.kind = "webDestroy"
      BY <1>0, QuietPlace DEF Quiet, OrgRequest, OrgSteps, OrgKinds, WebOrgKinds
    <3>2. q.kind \in group /\ Become(p, q)
      BY <2>3 DEF Start
    <3> HIDE DEF q
    <3> QED BY <1>0, <1>1, <3>1, <3>2, Arrived, NewcomerMoves DEF CheckedKinds, WebOrganizationRequest, OrgTables
  <2>4. ASSUME NEW kind \in {"setMembers"} \intersect group, NEW list \in Listing,
               Start(p, [Quiet EXCEPT !.pc = "owner", !.kind = kind,
                                      !.actor = u, !.org = o, !.list = list])
        PROVE  OrgMoves(p) /\ Advances(p) /\ Holds(p) /\ req'[p].pc = "owner"
    <3> DEFINE q == [Quiet EXCEPT !.pc = "owner", !.kind = kind,
                                  !.actor = u, !.org = o, !.list = list]
    <3>1. /\ q \in OrgRequest /\ q.org \in Orgs /\ q.pc = "owner" /\ q.kind = "setMembers"
      BY <1>0, QuietPlace DEF Quiet, OrgRequest, OrgSteps, OrgKinds, WebOrgKinds
    <3>2. q.kind \in group /\ Become(p, q)
      BY <2>4 DEF Start
    <3> HIDE DEF q
    <3> QED BY <1>0, <3>1, <3>2, Arrived, NewcomerMoves DEF CheckedKinds
  <2> QED BY <1>1, <2>1, <2>2, <2>3, <2>4 DEF WebOrganizationRequest, OrgTables
<1>2. CASE ApiOrganizationRequest(p)
  <2>1. PICK u \in users, o \in orgs, v \in users, r \in OrgRoles,
             kind \in {"apiDestroy", "addMember", "removeMember"} :
          Start(p, [Quiet EXCEPT !.pc = "owner", !.kind = kind, !.actor = u,
                                 !.org = o, !.user = v, !.as = r])
    BY <1>2 DEF ApiOrganizationRequest
  <2> DEFINE q == [Quiet EXCEPT !.pc = "owner", !.kind = kind, !.actor = u,
                                !.org = o, !.user = v, !.as = r]
  <2>2. /\ q \in OrgRequest /\ q.org \in Orgs /\ q.pc = "owner" /\ q.user \in Users
        /\ q.kind \in {"apiDestroy", "addMember", "removeMember"}
    BY <1>0, QuietPlace DEF Quiet, OrgRequest, OrgSteps, OrgKinds, ApiOrgKinds
  <2>3. q.kind \in group /\ Become(p, q)
    BY <2>1 DEF Start
  <2> HIDE DEF q
  <2> QED BY <1>0, <1>2, <2>2, <2>3, Arrived, NewcomerMoves DEF CheckedKinds, ApiOrganizationRequest, OrgTables
<1> QED BY <1>1, <1>2

LEMMA CreateMoves ==
  ASSUME OrgInv, NEW p \in Requests,
         WebCreateOrganization(p) \/ ApiCreateOrganization(p)
  PROVE  /\ OrgMoves(p) /\ Advances(p) /\ Holds(p) /\ At(p, "idle") /\ req'[p].pc = "ownerRow"
         /\ orgs \subseteq orgs' /\ orgs' \subseteq Orgs
         /\ UNCHANGED <<users, members>>
<1>1. PICK u \in Users, kind \in {"webCreate", "apiCreate"} : CreateOrganization(p, u, kind)
  BY DEF WebCreateOrganization, ApiCreateOrganization, OrgInv, OrgRows
<1>2. PICK o \in Orgs \ orgs :
        /\ Start(p, [Quiet EXCEPT !.pc = "ownerRow", !.kind = kind, !.actor = u, !.org = o])
        /\ orgs' = orgs \union {o}
  BY <1>1 DEF CreateOrganization
<1> DEFINE q == [Quiet EXCEPT !.pc = "ownerRow", !.kind = kind, !.actor = u, !.org = o]
<1>3. /\ q \in OrgRequest /\ q.org \in Orgs /\ q.pc = "ownerRow"
      /\ q.kind \in {"webCreate", "apiCreate"}
  BY QuietPlace DEF Quiet, OrgRequest, OrgSteps, OrgKinds, WebOrgKinds, ApiOrgKinds
<1>4. q.kind \in group /\ Become(p, q) /\ At(p, "idle")
  BY <1>2 DEF Start
<1> HIDE DEF q
<1>5. OrgMoves(p) /\ Advances(p) /\ Holds(p) /\ req'[p] = q
  BY <1>3, <1>4, Arrived, NewcomerMoves DEF Become, OrgInv, Slots
<1> QED BY <1>1, <1>2, <1>3, <1>4, <1>5 DEF CreateOrganization, OrgInv, OrgRows

(***************************************************************************)
(* Rows.                                                                   *)
(***************************************************************************)
\* A row keeps its organization, or is new.
RowsStay ==
    \A n \in members' : n.id \in FreeRows \/ \E m \in members : m.id = n.id /\ m.org = n.org

LEMMA FewerMembers ==
  ASSUME OrgRows, MembersFk, orgs' \subseteq Orgs, users' \subseteq Users,
         members' \subseteq members, \A m \in members' : MemberFk(m, users', orgs')
  PROVE  OrgRows' /\ MembersFk' /\ RowsStay
BY DEF OrgRows, MembersFk, MemberFk, RowsStay

LEMMA OneMoreMember ==
  ASSUME OrgRows, MembersFk, UNCHANGED <<users, orgs>>,
         NEW u \in users, NEW o \in orgs, NEW r \in OrgRoles, NewMember(u, o, r)
  PROVE  OrgRows' /\ MembersFk' /\ RowsStay
<1>1. PICK i \in FreeRows : members' = members \union {[id |-> i, org |-> o, user |-> u, role |-> r]}
  BY DEF NewMember
<1>2. i \in Rows /\ \A m \in members : m.id # i
  BY DEF FreeRows
<1>3. [id |-> i, org |-> o, user |-> u, role |-> r] \in Member
  BY <1>2 DEF Member, OrgRows
<1> QED BY <1>1, <1>2, <1>3 DEF OrgRows, MembersFk, MemberFk, RowsStay

LEMMA MoreMembers ==
  ASSUME OrgInv, UNCHANGED <<users, orgs>>, NEW p \in Requests, BulkCreateMembers(p)
  PROVE  OrgRows' /\ MembersFk' /\ RowsStay
<1> DEFINE list == req[p].list   o == req[p].org
<1>1. CASE UNCHANGED members
  BY <1>1 DEF OrgInv, OrgRows, MembersFk, MemberFk, RowsStay
<1>2. CASE ~UNCHANGED members
  <2>1. DOMAIN list \subseteq users /\ o \in orgs
    BY <1>2 DEF BulkCreateMembers
  <2>2. PICK key \in [DOMAIN list -> FreeRows] :
              /\ \A u, v \in DOMAIN list : key[u] = key[v] => u = v
              /\ members' = members \union
                    {[id |-> key[u], org |-> o, user |-> u, role |-> list[u]] : u \in DOMAIN list}
    BY <1>2, <2>1 DEF BulkCreateMembers
  <2>3. \A u \in DOMAIN list : /\ key[u] \in Rows /\ key[u] \in FreeRows /\ (\A m \in members : m.id # key[u])
                               /\ list[u] \in OrgRoles
    <3>1. req[p].list \in Listing
      BY DEF OrgInv, OrgPlaces, OrgPlace, BulkCreateMembers, At, OrgPcs, Checked, OrgRequest
    <3>2. \A u \in DOMAIN list : list[u] \in OrgRoles
      BY <3>1 DEF Listing
    <3> QED BY <2>2, <3>2 DEF FreeRows
  <2> HIDE DEF list, o
  <2> DEFINE row(u) == [id |-> key[u], org |-> o, user |-> u, role |-> list[u]]
  <2>4. \A u \in DOMAIN list : /\ row(u) \in Member /\ MemberFk(row(u), users, orgs)
                               /\ row(u).id \in FreeRows /\ \A m \in members : m.id # row(u).id
    BY <2>1, <2>3 DEF Member, MemberFk, OrgInv, OrgRows
  <2>5. members' = members \union {row(u) : u \in DOMAIN list}
    BY <2>2
  <2>6. \A u, v \in DOMAIN list : row(u).id = row(v).id => row(u) = row(v)
    BY <2>2
  <2> HIDE DEF row
  <2> QED BY <2>4, <2>5, <2>6 DEF OrgInv, OrgRows, MembersFk, RowsStay
<1> QED BY <1>1, <1>2

(***************************************************************************)
(* The handlers, one step after the other.                                 *)
(***************************************************************************)
OrderlyStep(p) == OrgMoves(p) /\ Advances(p) /\ Holds(p) /\ OrgRows' /\ MembersFk' /\ RowsStay

LEMMA GoesOn ==
  ASSUME OrgInv, NEW p \in Requests, NEW q \in OrgRequest, OrgPlace(q), Become(p, q)
  PROVE  OrgMoves(p) /\ req'[p] = q
BY DEF OrgMoves, Become, OrgInv, Slots

LEMMA Finishes ==
  ASSUME OrgInv, NEW p \in Requests, Finish(p)
  PROVE  OrgMoves(p) /\ Advances(p) /\ Holds(p) /\ req'[p] = Quiet
<1>1. OrgMoves(p) /\ req'[p] = Quiet
  BY GoesOn, QuietPlace DEF Finish
<1>2. Quiet.pc = "idle"
  BY DEF Quiet
<1> QED BY <1>1, <1>2 DEF Advances, Holds, HeldRow, Checked, CheckedKinds

LEMMA Dies ==
  ASSUME OrgInv, NEW p \in Requests, Die
  PROVE  OrgMoves(p) /\ Advances(p) /\ Holds(p) /\ req'[p].pc \in {"idle", "lost"}
<1>1. req'[p] \in {Quiet, [Quiet EXCEPT !.pc = "lost"]}
  BY DEF Die
<1>2. req'[p].pc \in {"idle", "lost"}
  BY <1>1 DEF Quiet
<1> QED BY <1>2 DEF OrgMoves, Advances, Holds, HeldRow, Checked, CheckedKinds

\* A request in a handler: its record, by its place.
LEMMA InPlace ==
  ASSUME OrgInv, NEW p \in Requests, req[p].pc \in OrgPcs
  PROVE  /\ req[p] \in OrgRequest /\ req[p].org \in Orgs /\ req[p].kind \in group
         /\ OrgPlace(req[p])
BY DEF OrgInv, OrgPlaces, OrgPlace

LEMMA SameTables ==
  ASSUME OrgRows, MembersFk, UNCHANGED <<users, orgs, members>>
  PROVE  OrgRows' /\ MembersFk' /\ RowsStay
BY DEF OrgRows, MembersFk, MemberFk, RowsStay

LEMMA CheckStep ==
  ASSUME OrgInv, NEW p \in Requests, WebOwnedPermissions(p) \/ ApiOwnedPermissions(p)
  PROVE  OrderlyStep(p)
<1>1. PICK kinds : OwnerCheck(p, kinds)
  BY DEF WebOwnedPermissions, ApiOwnedPermissions
<1>2. req[p].pc = "owner" /\ "owner" \in OrgPcs /\ UNCHANGED <<users, orgs, members>>
  BY <1>1 DEF OwnerCheck, At, OrgPcs
<1>3. OrgRows' /\ MembersFk' /\ RowsStay
  BY <1>2, SameTables DEF OrgInv
<1>4. CASE Finish(p)
  BY <1>3, <1>4, Finishes DEF OrderlyStep
<1>5. CASE ~Finish(p)
  <2>1. <<req[p].actor, req[p].org>> \in Owners /\ Goto(p, req[p].kind)
    BY <1>1, <1>5 DEF OwnerCheck
  <2> DEFINE q == [req[p] EXCEPT !.pc = req[p].kind]
  <2>2. req[p] \in OrgRequest /\ req[p].kind \in CheckedKinds /\ req[p].kind \in group
        /\ req[p].org \in Orgs /\ (req[p].kind = "addMember" => req[p].user \in Users)
    BY <1>2, InPlace DEF OrgPlace
  <2>3. /\ q \in OrgRequest /\ q.pc = req[p].kind /\ q.kind = req[p].kind /\ q.actor = req[p].actor
        /\ q.org = req[p].org /\ q.user = req[p].user
    BY <2>2 DEF OrgRequest, OrgSteps
  <2>4. Become(p, q)
    BY <2>1 DEF Goto
  <2> HIDE DEF q
  <2>5. OrgPlace(q)
    BY <2>2, <2>3 DEF OrgPlace, OrgPcs, Checked, CheckedKinds
  <2>6. OrgMoves(p) /\ req'[p] = q
    BY <2>3, <2>4, <2>5, GoesOn
  <2>7. Advances(p) /\ Holds(p)
    BY <1>2, <2>1, <2>2, <2>3, <2>6 DEF Advances, Owners, Holds, HeldRow, CheckedKinds
  <2> QED BY <1>3, <2>6, <2>7 DEF OrderlyStep
<1> QED BY <1>4, <1>5

\* Steps that end a request and take rows away.
LEMMA RemovingStep ==
  ASSUME OrgInv, NEW p \in Requests,
         \/ WebDestroyOrganization(p) \/ ApiDestroyOrganization(p)
         \/ LeaveOrganization(p) \/ RemoveMember(p)
  PROVE  OrderlyStep(p)
<1>1. Finish(p)
  BY DEF WebDestroyOrganization, ApiDestroyOrganization, Destroy, LeaveOrganization, RemoveMember
<1>2. /\ users' = users /\ orgs' \subseteq orgs /\ members' \subseteq members
      /\ \A m \in members' : MemberFk(m, users', orgs')
  <2>1. CASE WebDestroyOrganization(p) \/ ApiDestroyOrganization(p)
    BY <2>1 DEF WebDestroyOrganization, ApiDestroyOrganization, Destroy
  <2>2. CASE LeaveOrganization(p) \/ RemoveMember(p)
    BY <2>2 DEF LeaveOrganization, RemoveMember, OrgInv, MembersFk
  <2> QED BY <2>1, <2>2
<1>3. OrgRows' /\ MembersFk' /\ RowsStay
  BY <1>2, FewerMembers DEF OrgInv, OrgRows
<1> QED BY <1>1, <1>3, Finishes DEF OrderlyStep

LEMMA AddingStep ==
  ASSUME OrgInv, NEW p \in Requests, CreateOwnerRow(p) \/ BulkCreateMembers(p) \/ CreateMember(p)
  PROVE  OrderlyStep(p)
<1>1. UNCHANGED <<users, orgs>> /\ (Finish(p) \/ Die)
  BY DEF CreateOwnerRow, BulkCreateMembers, CreateMember
<1>2. OrgRows' /\ MembersFk' /\ RowsStay
  <2>1. CASE UNCHANGED members
    BY <1>1, <2>1, SameTables DEF OrgInv
  <2>2. CASE CreateOwnerRow(p) /\ ~UNCHANGED members
    BY <1>1, <2>2, OneMoreMember DEF CreateOwnerRow, OrgInv, OrgRoles
  <2>3. CASE BulkCreateMembers(p)
    BY <1>1, <2>3, MoreMembers
  <2>4. CASE CreateMember(p) /\ ~UNCHANGED members
    <3>1. req[p].as \in OrgRoles
      BY <2>4, InPlace DEF CreateMember, At, OrgPcs, Checked, OrgRequest
    <3> QED BY <1>1, <2>4, <3>1, OneMoreMember DEF CreateMember, OrgInv
  <2> QED BY <2>1, <2>2, <2>3, <2>4
<1> QED BY <1>1, <1>2, Finishes, Dies DEF OrderlyStep

\* A step inside a handler that stays behind the owner check.
LEMMA StaysChecked ==
  ASSUME OrgInv, NEW p \in Requests, req[p].pc \in Checked,
         NEW pc \in {"bulkMembers", "saveMember", "createMember"}, NEW row \in Rows \union {None},
         req[p].kind = (IF pc = "bulkMembers" THEN "setMembers" ELSE "addMember"),
         pc = "saveMember" => \A m \in members' : m.id = row => m.org = req[p].org,
         Become(p, [req[p] EXCEPT !.pc = pc, !.row = row])
  PROVE  OrgMoves(p) /\ Advances(p) /\ Holds(p) /\ req'[p].pc = pc /\ req'[p].org = req[p].org
<1> DEFINE q == [req[p] EXCEPT !.pc = pc, !.row = row]
<1>1. req[p] \in OrgRequest /\ req[p].kind \in group
      /\ req[p].org \in Orgs /\ (req[p].kind = "addMember" => req[p].user \in Users)
  BY InPlace DEF OrgPlace, OrgPcs
<1>2. /\ q \in OrgRequest /\ q.pc = pc /\ q.kind = req[p].kind /\ q.org = req[p].org
      /\ q.user = req[p].user /\ q.row = row
  BY <1>1 DEF OrgRequest, OrgSteps
<1>3. Become(p, q)
  OBVIOUS
<1> HIDE DEF q
<1>4. OrgPlace(q)
  BY <1>1, <1>2 DEF OrgPlace, OrgPcs, Checked, CheckedKinds
<1>5. OrgMoves(p) /\ req'[p] = q
  BY <1>2, <1>3, <1>4, GoesOn
<1> QED BY <1>2, <1>5 DEF Advances, Holds, HeldRow

LEMMA DestroyMembersStep ==
  ASSUME OrgInv, NEW p \in Requests, DestroyMembers(p)
  PROVE  OrderlyStep(p)
<1>1. OrgRows' /\ MembersFk' /\ RowsStay
  BY FewerMembers DEF DestroyMembers, OrgInv, OrgRows, MembersFk
<1>2. CASE Finish(p)
  BY <1>1, <1>2, Finishes DEF OrderlyStep
<1>3. CASE ~Finish(p)
  <2>1. Become(p, [req[p] EXCEPT !.pc = "bulkMembers"])
    BY <1>3 DEF DestroyMembers, Goto
  <2>2. req[p].pc = "setMembers" /\ req[p].kind = "setMembers" /\ req[p] \in OrgRequest
    BY InPlace DEF DestroyMembers, At, OrgPcs, Checked, CheckedKinds, OrgPlace
  <2>3. [req[p] EXCEPT !.pc = "bulkMembers"] = [req[p] EXCEPT !.pc = "bulkMembers", !.row = req[p].row]
        /\ req[p].row \in Rows \union {None}
    BY <2>2 DEF OrgRequest
  <2> QED BY <1>1, <2>1, <2>2, <2>3, StaysChecked DEF OrderlyStep, Checked, CheckedKinds
<1> QED BY <1>2, <1>3

LEMMA FindMemberStep ==
  ASSUME OrgInv, NEW p \in Requests, FindMember(p)
  PROVE  OrderlyStep(p)
<1>1. OrgRows' /\ MembersFk' /\ RowsStay
  BY SameTables DEF FindMember, OrgInv
<1>2. req[p].pc = "addMember" /\ req[p].kind = "addMember" /\ req[p] \in OrgRequest
  BY InPlace DEF FindMember, At, OrgPcs, Checked, CheckedKinds, OrgPlace
<1>3. ASSUME NEW m \in members, m.org = req[p].org, Become(p, [req[p] EXCEPT !.pc = "saveMember", !.row = m.id])
      PROVE  OrderlyStep(p)
  <2>1. /\ m.id \in Rows \union {None}
        /\ \A n \in members' : n.id = m.id => n.org = req[p].org
    BY <1>3 DEF OrgInv, OrgRows, Member, FindMember
  <2> QED BY <1>1, <1>2, <1>3, <2>1, StaysChecked DEF OrderlyStep, Checked, CheckedKinds
<1>4. CASE Finish(p)
  BY <1>1, <1>4, Finishes DEF OrderlyStep
<1>5. CASE Goto(p, "createMember")
  <2>1. Become(p, [req[p] EXCEPT !.pc = "createMember", !.row = req[p].row])
        /\ req[p].row \in Rows \union {None}
    BY <1>2, <1>5 DEF OrgRequest, Goto
  <2> QED BY <1>1, <1>2, <2>1, StaysChecked DEF OrderlyStep, Checked, CheckedKinds
<1> QED BY <1>3, <1>4, <1>5 DEF FindMember, MembersOf

LEMMA SaveMemberStep ==
  ASSUME OrgInv, NEW p \in Requests, SaveMember(p)
  PROVE  OrderlyStep(p)
<1> DEFINE saved(m) == IF m.id = req[p].row THEN [m EXCEPT !.role = req[p].as] ELSE m
<1>1. req[p].as \in OrgRoles
  BY InPlace DEF SaveMember, At, OrgPcs, Checked, OrgRequest
<1>2. members' = {saved(m) : m \in members} /\ UNCHANGED <<users, orgs>> /\ Finish(p)
  BY DEF SaveMember
<1>3. \A m \in members : /\ saved(m) \in Member /\ saved(m).id = m.id
                         /\ saved(m).user = m.user /\ saved(m).org = m.org
  BY <1>1 DEF OrgInv, OrgRows, Member
<1> HIDE DEF saved
<1>4. OrgRows' /\ MembersFk' /\ RowsStay
  BY <1>2, <1>3 DEF OrgInv, OrgRows, MembersFk, MemberFk, RowsStay
<1> QED BY <1>2, <1>4, Finishes DEF OrderlyStep

LEMMA OtherStep ==
  ASSUME OrgInv, NEW p \in Requests,
         \/ Restart(p) \/ WebOrganizationRequest(p) \/ ApiOrganizationRequest(p)
         \/ WebCreateOrganization(p) \/ ApiCreateOrganization(p)
  PROVE  OrderlyStep(p)
<1>1. CASE Restart(p)
  BY <1>1, Finishes, SameTables DEF Restart, OrgInv, OrderlyStep
<1>2. CASE WebOrganizationRequest(p) \/ ApiOrganizationRequest(p)
  BY <1>2, ArrivalMoves, SameTables DEF OrgTables, OrgInv, OrderlyStep
<1>3. CASE WebCreateOrganization(p) \/ ApiCreateOrganization(p)
  BY <1>3, CreateMoves DEF OrgInv, OrgRows, MembersFk, MemberFk, RowsStay, OrderlyStep
<1> QED BY <1>1, <1>2, <1>3

LEMMA DeleteAccountStep ==
  ASSUME OrgInv, NEW u, DeleteAccount(u)
  PROVE  OrgRows' /\ MembersFk' /\ UNCHANGED <<orgs, req>> /\ users' \subseteq users
BY FewerMembers DEF DeleteAccount, OrgInv, OrgRows

\* What a step of a request and one of an account's deletion do to the invariant.
LEMMA OrderlyKeepsOrgInv ==
  ASSUME OrgInv, OrgHistory, NEW p \in Requests, Moves(p), Advances(p), Holds(p),
         OrgRows', MembersFk', RowsStay
  PROVE  OrgInv'
<1>1. Slots' /\ OrgPlaces'
  BY MovesOrg DEF OrgInv, OrgHistory
<1>2. \A r \in Requests : req'[r].pc \in Checked =>
          \/ req[r].pc \in Checked
          \/ <<req'[r].actor, req'[r].org>> \in Owners'
  <2>1. CASE Die
    <3>1. \A r \in Requests : req'[r] \in {Quiet, [Quiet EXCEPT !.pc = "lost"]}
      BY <2>1 DEF Die
    <3>2. Quiet.pc \notin Checked /\ [Quiet EXCEPT !.pc = "lost"].pc \notin Checked
      BY DEF Quiet, Checked, CheckedKinds
    <3> QED BY <3>1, <3>2
  <2>2. CASE \A r \in Requests \ {p} : req'[r] = req[r]
    BY <2>2 DEF Advances
  <2> QED BY <2>1, <2>2 DEF Moves, Become, OrgInv, Slots
<1>3. OwnerSince'
  <2>1. ASSUME NEW r \in Requests, req'[r].pc \in Checked PROVE owned'[r]
    <3>1. req'[r].pc \notin {"idle", "lost"}
      BY <2>1 DEF Checked, CheckedKinds
    <3>2. req[r].pc \in Checked => owned[r] /\ ~At(r, "idle")
      BY DEF OrgInv, OwnerSince, At, Checked, CheckedKinds
    <3> QED BY <1>2, <2>1, <3>1, <3>2 DEF OrgHistory
  <2> QED BY <2>1 DEF OwnerSince
<1>4. owned' \in [Requests -> BOOLEAN] /\ group' \in Groups
  BY DEF OrgHistory, OrgInv
<1>5. HeldRows'
  <2>1. ASSUME NEW r \in Requests PROVE HeldRow(req'[r], members')
    <3>1. CASE req'[r] = req[r]
      <4>1. ASSUME req[r].pc = "saveMember", NEW n \in members', n.id = req[r].row
            PROVE  n.org = req[r].org
        BY <4>1 DEF RowsStay, FreeRows, OrgInv, HeldRows, HeldRow
      <4> QED BY <3>1, <4>1 DEF HeldRow
    <3>2. CASE r = p
      BY <3>2 DEF Holds
    <3>3. CASE Die
      BY <3>3 DEF Die, HeldRow, Quiet
    <3> QED BY <3>1, <3>2, <3>3 DEF Moves, Become, OrgInv, Slots
  <2> QED BY <2>1 DEF HeldRows, HeldRow
<1> QED BY <1>1, <1>3, <1>4, <1>5 DEF OrgInv

LEMMA DeletionKeepsOrgInv ==
  ASSUME OrgInv, OrgHistory, NEW u, DeleteAccount(u)
  PROVE  OrgInv'
<1>1. OrgRows' /\ MembersFk' /\ UNCHANGED <<req, group>>
  BY DeleteAccountStep DEF OrgHistory
<1>2. Slots' /\ OrgPlaces'
  BY <1>1 DEF OrgInv, Slots, OrgPlaces, OrgPlace
<1>3. OwnerSince'
  BY <1>1 DEF OrgInv, OwnerSince, OrgHistory, At, Checked, CheckedKinds
<1>4. owned' \in [Requests -> BOOLEAN] /\ group' \in Groups
  BY DEF OrgHistory, OrgInv
<1>5. HeldRows'
  BY <1>1 DEF OrgInv, HeldRows, HeldRow, DeleteAccount
<1> QED BY <1>1, <1>2, <1>3, <1>4, <1>5 DEF OrgInv

LEMMA OrgStepMoves ==
  ASSUME OrgInv, OrgStep
  PROVE  (\E p \in Requests : OrderlyStep(p)) \/ \E u \in users : DeleteAccount(u)
BY OtherStep, CheckStep, RemovingStep, AddingStep, DestroyMembersStep, FindMemberStep,
   SaveMemberStep DEF OrgStep

LEMMA OrgStepKeepsOrgInv == OrgInv /\ OrgStep /\ OrgHistory => OrgInv'
BY OrgStepMoves, OrgMovesMove, OrderlyKeepsOrgInv, DeletionKeepsOrgInv DEF OrderlyStep

LEMMA OrgInitInv == OrgInit => OrgInv
<1> SUFFICES ASSUME OrgInit PROVE OrgInv
  OBVIOUS
<1>1. PICK o \in Orgs, u \in Founders, i \in Rows :
        /\ orgs = {o}
        /\ members = {[id |-> i, org |-> o, user |-> u, role |-> "owner"]}
  BY DEF OrgInit
<1>2. u \in Users
  BY OrgUsersAssumption
<1>3. OrgRows /\ MembersFk
  <2>1. [id |-> i, org |-> o, user |-> u, role |-> "owner"] \in Member
    BY <1>2 DEF Member, OrgRoles
  <2> QED BY <1>1, <1>2, <2>1 DEF OrgRows, MembersFk, MemberFk, OrgInit
<1>4. Slots /\ OrgPlaces
  BY QuietPlace DEF OrgInit, Slots, OrgPlaces
<1>5. OwnerSince /\ HeldRows
  BY DEF OrgInit, OwnerSince, HeldRows, HeldRow, Quiet, Checked, CheckedKinds
<1> QED BY <1>3, <1>4, <1>5 DEF OrgInv, OrgInit

(***************************************************************************)
(* Who changes the members of an organization.                             *)
(***************************************************************************)
KeepsMembers(o) ==
    {m \in MembersOf(o) : m.user \in users'} = {m \in members' : m.org = o}
OwnersChange ==
    \A o \in orgs' :
        \/ KeepsMembers(o)
        \/ \E p \in Requests :
              /\ Works(p) /\ req[p].org = o
              /\ owned[p] \/ req[p].kind \in {"webCreate", "apiCreate", "leave"}

LEMMA NoMemberChanges ==
  ASSUME OrgInv, UNCHANGED <<users, members>>
  PROVE  OwnersChange
BY DEF OrgInv, MembersFk, MemberFk, MembersOf, KeepsMembers, OwnersChange

\* Enough: only the request's own organization changes, and the request is entitled.
LEMMA OwnMembersChange ==
  ASSUME OrgInv, NEW p \in Requests, UNCHANGED users,
         req[p].pc \in OrgPcs \ {"owner"}, req'[p].pc # req[p].pc,
         \A m \in (members \ members') \union (members' \ members) :
             m.org \in orgs' => m.org = req[p].org
  PROVE  OwnersChange
<1>1. Works(p) /\ (owned[p] \/ req[p].kind \in {"webCreate", "apiCreate", "leave"})
  BY InPlace DEF Works, OrgPlace, OrgPcs, Checked, CheckedKinds, OrgInv, OwnerSince
<1>2. ASSUME NEW o \in orgs', o # req[p].org PROVE KeepsMembers(o)
  BY <1>2 DEF OrgInv, MembersFk, MemberFk, MembersOf, KeepsMembers
<1> QED BY <1>1, <1>2 DEF OwnersChange

LEMMA AddingChanges ==
  ASSUME OrgInv, NEW p \in Requests, CreateOwnerRow(p) \/ BulkCreateMembers(p) \/ CreateMember(p)
  PROVE  OwnersChange
<1>1. req[p].pc \in {"ownerRow", "bulkMembers", "createMember"} /\ UNCHANGED users
  BY DEF CreateOwnerRow, BulkCreateMembers, CreateMember, At
<1>2. req'[p].pc \in {"idle", "lost"}
  <2>1. Finish(p) \/ Die
    BY DEF CreateOwnerRow, BulkCreateMembers, CreateMember
  <2> QED BY <2>1, Finishes, Dies DEF Quiet
<1>3. members \subseteq members' /\ \A m \in members' \ members : m.org = req[p].org
  BY DEF CreateOwnerRow, BulkCreateMembers, CreateMember, NewMember
<1> QED BY <1>1, <1>2, <1>3, OwnMembersChange DEF OrgPcs, Checked

LEMMA RemovingChanges ==
  ASSUME OrgInv, NEW p \in Requests,
         \/ WebDestroyOrganization(p) \/ ApiDestroyOrganization(p) \/ LeaveOrganization(p)
         \/ RemoveMember(p) \/ DestroyMembers(p)
  PROVE  OwnersChange
<1>1. /\ req[p].pc \in {"webDestroy", "apiDestroy", "leave", "removeMember", "setMembers"}
      /\ UNCHANGED users
  BY DEF WebDestroyOrganization, ApiDestroyOrganization, Destroy, LeaveOrganization,
     RemoveMember, DestroyMembers, At
<1>2. req'[p].pc \in {"idle", "bulkMembers"}
  <2>1. CASE Finish(p)
    BY <2>1, Finishes DEF Quiet
  <2>2. CASE DestroyMembers(p) /\ Goto(p, "bulkMembers")
    <3>1. req[p] \in OrgRequest
      BY <1>1, InPlace DEF OrgPcs, Checked, CheckedKinds
    <3> QED BY <2>2, <3>1 DEF Goto, Become, OrgInv, Slots, OrgRequest
  <2> QED BY <2>1, <2>2 DEF WebDestroyOrganization, ApiDestroyOrganization, Destroy,
             LeaveOrganization, RemoveMember, DestroyMembers
<1>3. \A m \in (members \ members') \union (members' \ members) :
          m.org \in orgs' => m.org = req[p].org
  <2>1. CASE Destroy(p)
    BY <2>1 DEF Destroy, OrgInv, MembersFk, MemberFk
  <2>2. CASE LeaveOrganization(p) \/ RemoveMember(p) \/ DestroyMembers(p)
    BY <2>2 DEF LeaveOrganization, RemoveMember, DestroyMembers, MembersOf
  <2> QED BY <2>1, <2>2 DEF WebDestroyOrganization, ApiDestroyOrganization
<1> QED BY <1>1, <1>2, <1>3, OwnMembersChange DEF OrgPcs, Checked, CheckedKinds

LEMMA SavingChanges ==
  ASSUME OrgInv, NEW p \in Requests, SaveMember(p)
  PROVE  OwnersChange
<1>1. req[p].pc = "saveMember" /\ UNCHANGED users
  BY DEF SaveMember, At
<1>2. req'[p].pc = "idle"
  BY Finishes DEF SaveMember, Quiet
<1> DEFINE saved(m) == IF m.id = req[p].row THEN [m EXCEPT !.role = req[p].as] ELSE m
<1>3. members' = {saved(m) : m \in members}
  BY DEF SaveMember
<1>4. \A m \in members : saved(m) = m \/ (saved(m).org = req[p].org /\ m.org = req[p].org)
  BY <1>1 DEF OrgInv, HeldRows, HeldRow, OrgRows, Member
<1> HIDE DEF saved
<1>5. \A m \in (members \ members') \union (members' \ members) : m.org = req[p].org
  BY <1>3, <1>4
<1> QED BY <1>1, <1>2, <1>5, OwnMembersChange DEF OrgPcs, Checked

LEMMA DeletionChanges ==
  ASSUME OrgInv, NEW u, DeleteAccount(u)
  PROVE  OwnersChange
BY DEF DeleteAccount, OrgInv, MembersFk, MemberFk, MembersOf, KeepsMembers, OwnersChange

LEMMA MembersChange == OrgInv /\ OrgStep => OwnersChange
<1> SUFFICES ASSUME OrgInv, OrgStep PROVE OwnersChange
  OBVIOUS
<1>1. ASSUME NEW p \in Requests,
             \/ Restart(p) \/ WebOrganizationRequest(p) \/ ApiOrganizationRequest(p)
             \/ WebCreateOrganization(p) \/ ApiCreateOrganization(p)
             \/ WebOwnedPermissions(p) \/ ApiOwnedPermissions(p) \/ FindMember(p)
      PROVE  UNCHANGED <<users, members>>
  BY <1>1 DEF Restart, WebOrganizationRequest, ApiOrganizationRequest, WebCreateOrganization,
     ApiCreateOrganization, CreateOrganization, WebOwnedPermissions, ApiOwnedPermissions,
     OwnerCheck, FindMember
<1> QED BY <1>1, NoMemberChanges, AddingChanges, RemovingChanges, SavingChanges,
           DeletionChanges DEF OrgStep

(***************************************************************************)
(* One role.  A request that is about to insert members has an             *)
(* organization without members to itself.                                 *)
(***************************************************************************)
Inserting == {"ownerRow", "bulkMembers"}
OneRole == \A m, n \in members : m.org = n.org /\ m.user = n.user => m = n
HasEmptyOrg(p) ==
    req[p].pc \in Inserting =>
        /\ MembersOf(req[p].org) = {}
        /\ \A q \in Requests \ {p} : req[q].pc \in Inserting => req[q].org # req[p].org
RoleInv == "addMember" \notin group => OneRole /\ \A p \in Requests : HasEmptyOrg(p)

\* Steps that insert nothing and do not get ready to.
LEMMA NothingInserted ==
  ASSUME RoleInv, UNCHANGED group, members' \subseteq members,
         \A r \in Requests : req'[r].pc \in Inserting => req'[r] = req[r]
  PROVE  RoleInv'
<1> SUFFICES ASSUME "addMember" \notin group
             PROVE  OneRole' /\ \A p \in Requests : HasEmptyOrg(p)'
  BY DEF RoleInv
<1>1. OneRole'
  BY DEF RoleInv, OneRole
<1>2. ASSUME NEW p \in Requests PROVE HasEmptyOrg(p)'
  <2>1. HasEmptyOrg(p)
    BY DEF RoleInv
  <2> QED BY <2>1 DEF HasEmptyOrg, MembersOf
<1> QED BY <1>1, <1>2

\* The records of the requests after a step, as far as insertion is concerned.
LEMMA OthersStay ==
  ASSUME Slots, NEW p \in Requests, Moves(p)
  PROVE  \A r \in Requests \ {p} : req'[r].pc \in Inserting => req'[r] = req[r]
BY DEF Moves, Become, Slots, Die, Quiet, Inserting

LEMMA CreateKeepsRoles ==
  ASSUME OrgInv, RoleInv, UNCHANGED group, NEW p \in Requests,
         WebCreateOrganization(p) \/ ApiCreateOrganization(p)
  PROVE  RoleInv'
<1> SUFFICES ASSUME "addMember" \notin group
             PROVE  OneRole' /\ \A q \in Requests : HasEmptyOrg(q)'
  BY DEF RoleInv
<1>1. PICK u, kind : CreateOrganization(p, u, kind)
  BY DEF WebCreateOrganization, ApiCreateOrganization
<1>2. PICK o \in Orgs \ orgs :
        Become(p, [Quiet EXCEPT !.pc = "ownerRow", !.kind = kind, !.actor = u, !.org = o])
  BY <1>1 DEF CreateOrganization, Start
<1>3. UNCHANGED members /\ \A q \in Requests : req[q].pc = "idle"
  BY <1>1 DEF CreateOrganization, At
<1>4. \A q \in Requests \ {p} : req'[q].pc = "idle"
  BY <1>2, <1>3 DEF Become, OrgInv, Slots
<1>5. req'[p].org = o
  BY <1>2 DEF Become, OrgInv, Slots, Quiet
<1>6. {m \in members' : m.org = o} = {}
  BY <1>3 DEF OrgInv, MembersFk, MemberFk
<1>7. OneRole'
  BY <1>3 DEF RoleInv, OneRole
<1> QED BY <1>4, <1>5, <1>6, <1>7 DEF HasEmptyOrg, Inserting, MembersOf

\* What comes into an organization without members has one role for each user.
LEMMA InsertionKeepsRoles ==
  ASSUME OrgInv, RoleInv, UNCHANGED group, NEW p \in Requests,
         CreateOwnerRow(p) \/ BulkCreateMembers(p)
  PROVE  RoleInv'
<1> SUFFICES ASSUME "addMember" \notin group
             PROVE  OneRole' /\ \A q \in Requests : HasEmptyOrg(q)'
  BY DEF RoleInv
<1>1. req[p].pc \in Inserting
  BY DEF CreateOwnerRow, BulkCreateMembers, At, Inserting
<1>2. HasEmptyOrg(p)
  BY DEF RoleInv
<1>3. OrgMoves(p) /\ req'[p].pc \notin Inserting
  <2>1. Finish(p) \/ Die
    BY DEF CreateOwnerRow, BulkCreateMembers
  <2> QED BY <2>1, Finishes, Dies DEF Quiet, Inserting
<1>4. \A m \in members' \ members : m.org = req[p].org
  BY DEF CreateOwnerRow, BulkCreateMembers, NewMember
<1>5. \A m, n \in members' \ members : m.user = n.user => m = n
  BY DEF CreateOwnerRow, BulkCreateMembers, NewMember
<1>6. OneRole'
  BY <1>1, <1>2, <1>4, <1>5 DEF HasEmptyOrg, MembersOf, OneRole, RoleInv
<1>7. ASSUME NEW q \in Requests PROVE HasEmptyOrg(q)'
  <2>1. CASE req'[q].pc \in Inserting
    <3>1. q # p /\ req'[q] = req[q]
      BY <1>3, <2>1, OrgMovesMove, OthersStay DEF OrgInv
    <3>2. req[q].org # req[p].org
      BY <1>1, <1>2, <2>1, <3>1 DEF HasEmptyOrg
    <3>3. MembersOf(req[q].org) = {} /\ \A r \in Requests \ {q} :
              req[r].pc \in Inserting => req[r].org # req[q].org
      BY <2>1, <3>1 DEF RoleInv, HasEmptyOrg
    <3>4. MembersOf(req[q].org)' = {}
      BY <1>4, <3>1, <3>2, <3>3 DEF MembersOf
    <3>5. \A r \in Requests \ {q} : req'[r].pc \in Inserting => req'[r].org # req'[q].org
      BY <1>3, <3>1, <3>3, OrgMovesMove, OthersStay DEF OrgInv
    <3> QED BY <3>4, <3>5 DEF HasEmptyOrg
  <2>2. CASE req'[q].pc \notin Inserting
    BY <2>2 DEF HasEmptyOrg
  <2> QED BY <2>1, <2>2
<1> QED BY <1>6, <1>7

\* Whoever found rows to destroy is alone with the organization.
LEMMA DestroyKeepsRoles ==
  ASSUME OrgInv, RoleInv, UNCHANGED group, NEW p \in Requests, DestroyMembers(p)
  PROVE  RoleInv'
<1>0. /\ OrgMoves(p) /\ members' \subseteq members /\ req[p].pc = "setMembers"
      /\ {m \in members' : m.org = req[p].org} = {}
  BY DestroyMembersStep DEF OrderlyStep, DestroyMembers, MembersOf, At
<1>1. CASE Finish(p)
  <2>1. req'[p].pc \notin Inserting
    BY <1>1, Finishes DEF Quiet, Inserting
  <2> QED BY <1>0, <2>1, OrgMovesMove, OthersStay, NothingInserted DEF OrgInv
<1>2. CASE ~Finish(p)
  <2> SUFFICES ASSUME "addMember" \notin group
               PROVE  OneRole' /\ \A q \in Requests : HasEmptyOrg(q)'
    BY DEF RoleInv
  <2>1. MembersOf(req[p].org) # {} /\ Goto(p, "bulkMembers")
    BY <1>2 DEF DestroyMembers
  <2>2. \A q \in Requests : req[q].pc \in Inserting => req[q].org # req[p].org
    BY <2>1 DEF RoleInv, HasEmptyOrg
  <2>3. req[p] \in OrgRequest
    BY <1>0, InPlace DEF OrgPcs, Checked, CheckedKinds
  <2>4. req'[p].org = req[p].org
    BY <2>1, <2>3 DEF Goto, Become, OrgInv, Slots, OrgRequest
  <2>5. OneRole'
    BY <1>0 DEF RoleInv, OneRole
  <2>6. ASSUME NEW q \in Requests \ {p} PROVE HasEmptyOrg(q)'
    <3>1. HasEmptyOrg(q) /\ (req'[q].pc \in Inserting => req'[q] = req[q])
      BY <1>0, OrgMovesMove, OthersStay DEF RoleInv, OrgInv
    <3> QED BY <1>0, <2>2, <2>4, <3>1, OrgMovesMove, OthersStay DEF HasEmptyOrg, MembersOf, OrgInv
  <2>7. HasEmptyOrg(p)'
    BY <1>0, <2>2, <2>4, OrgMovesMove, OthersStay DEF HasEmptyOrg, MembersOf, OrgInv
  <2> QED BY <2>5, <2>6, <2>7
<1> QED BY <1>1, <1>2

\* Without addMember nothing else inserts a row, and no row is saved anew.
LEMMA OtherKeepsRoles ==
  ASSUME OrgInv, RoleInv, UNCHANGED group, NEW p \in Requests,
         \/ Restart(p) \/ WebOrganizationRequest(p) \/ ApiOrganizationRequest(p)
         \/ WebOwnedPermissions(p) \/ ApiOwnedPermissions(p)
         \/ WebDestroyOrganization(p) \/ ApiDestroyOrganization(p) \/ LeaveOrganization(p)
         \/ RemoveMember(p) \/ FindMember(p) \/ SaveMember(p) \/ CreateMember(p)
  PROVE  RoleInv'
<1> SUFFICES ASSUME "addMember" \notin group PROVE RoleInv'
  BY DEF RoleInv
<1>1. ~FindMember(p) /\ ~SaveMember(p) /\ ~CreateMember(p)
  <2>1. req[p].pc \notin {"addMember", "saveMember", "createMember"}
    BY InPlace DEF OrgPlace, OrgPcs, Checked, CheckedKinds
  <2> QED BY <2>1 DEF FindMember, SaveMember, CreateMember, At
<1>2. members' \subseteq members
  BY <1>1 DEF Restart, WebOrganizationRequest, ApiOrganizationRequest, WebOwnedPermissions,
     ApiOwnedPermissions, OwnerCheck, WebDestroyOrganization, ApiDestroyOrganization, Destroy,
     LeaveOrganization, RemoveMember
<1>3. OrgMoves(p)
  BY <1>1, OtherStep, CheckStep, RemovingStep DEF OrderlyStep
<1>4. req'[p].pc \notin Inserting
  <2>1. CASE Finish(p)
    BY <2>1, Finishes DEF Quiet, Inserting
  <2>2. CASE WebOrganizationRequest(p) \/ ApiOrganizationRequest(p)
    BY <2>2, ArrivalMoves DEF Inserting
  <2>3. CASE (WebOwnedPermissions(p) \/ ApiOwnedPermissions(p)) /\ ~Finish(p)
    <3>1. req[p].pc = "owner" /\ Goto(p, req[p].kind)
      BY <2>3 DEF WebOwnedPermissions, ApiOwnedPermissions, OwnerCheck, At
    <3>2. req[p] \in OrgRequest /\ req[p].kind \in CheckedKinds
      BY <3>1, InPlace DEF OrgPcs, OrgPlace
    <3>3. req'[p].pc = req[p].kind
      BY <3>1, <3>2 DEF Goto, Become, OrgInv, Slots, OrgRequest
    <3> QED BY <3>2, <3>3 DEF CheckedKinds, Inserting
  <2> QED BY <1>1, <2>1, <2>2, <2>3 DEF Restart, WebDestroyOrganization, ApiDestroyOrganization,
             Destroy, LeaveOrganization, RemoveMember
<1> QED BY <1>2, <1>3, <1>4, OrgMovesMove, OthersStay, NothingInserted DEF OrgInv

LEMMA OrgStepKeepsRoleInv == OrgInv /\ RoleInv /\ OrgStep /\ UNCHANGED group => RoleInv'
<1> SUFFICES ASSUME OrgInv, RoleInv, OrgStep, UNCHANGED group PROVE RoleInv'
  OBVIOUS
<1>1. ASSUME NEW u, DeleteAccount(u) PROVE RoleInv'
  BY <1>1, NothingInserted DEF DeleteAccount
<1> QED BY <1>1, CreateKeepsRoles, InsertionKeepsRoles, DestroyKeepsRoles, OtherKeepsRoles
           DEF OrgStep

LEMMA OrgInitRoleInv == OrgInit => RoleInv
BY DEF OrgInit, RoleInv, OneRole, HasEmptyOrg, Inserting, Quiet

LEMMA RoleInvOneRole == RoleInv => FormKeepsOneRole
BY DEF RoleInv, OneRole, FormKeepsOneRole

----------------------------------------------------------------------------
(* Roles, permissions and assignments, whose requests share the tables. *)

JobKinds == AssignKinds \union AccessKinds

\* The roles a request to assign roles is about.
Wanted(q) == IF q.kind = "authorize" THEN {a.role : a \in q.form} ELSE {q.role}

\* What requests of a kind always bring.
Complete(q) == /\ q.kind \in {"createPermission", "editPermission"} => q.rule \in SubmittedRules
               /\ q.kind \in {"addRole", "removeRole"} => q.to \in Assignees

\* What the program counter of a request says of its kind.
JobPlace(q) ==
    /\ q \in Job
    /\ q.pc \in JobKinds => q.kind = q.pc
    /\ q.pc = "bulkAssign" => q.kind = "authorize"
    /\ q.pc = "bulkGrant" => q.kind = "grants"
    /\ q.pc = "changeable" => q.kind \in AssignKinds
    /\ Complete(q)
AppPlace(q) == q.pc \in AppSteps \/ q.kind \notin OrgKinds => JobPlace(q)

\* A role may be assigned by whoever has held these roles and had these powers.
May(r, h, pow) == IF r \in InternalRoles THEN "1" \in pow
                  ELSE "5" \in pow \/ ("6" \in pow /\ r \in h)

\* What a request has read is covered by what its user has been since it came.
Covered(q, w, h, pow) ==
    /\ q.pc = "roles" => q.hats \subseteq w
    /\ q.pc \in {"permissions", "changeable"} => q.has \subseteq h
    /\ q.pc = "changeable" => q.perms \subseteq pow
    /\ q.pc \in AccessKinds \union {"bulkGrant"} => "3" \in pow
    /\ q.pc \in AssignKinds \union {"bulkAssign"} =>
          Wanted(q) \subseteq q.can /\ \A r \in q.can : May(r, h, pow)
Authorized(p) == Covered(req[p], worn[p], held[p], powers[p])

AppRows ==
    /\ roles \subseteq CustomRoles /\ DOMAIN rules \subseteq CustomPermissions
    /\ roles \subseteq born /\ DOMAIN rules \subseteq born
    /\ born \subseteq CustomRoles \union CustomPermissions
    /\ rules \in [DOMAIN rules -> Rules]
    /\ \A g \in rp : GrantFk(g, roles, DOMAIN rules)
    /\ assign \subseteq Assignment /\ \A a \in assign : AssignmentFk(a, users, orgs, roles)

AppPlaces == \A p \in Requests : AppPlace(req[p])
AppAuthorized == \A p \in Requests : Authorized(p)

\* The inductive invariant.
AppInv == /\ OrgInv /\ RoleInv /\ AppRows /\ AppPlaces /\ AppAuthorized
          /\ InternalRolesKeepTheirPermissions /\ RuleIsExclusive

(***************************************************************************)
(* Requests of one module are none of the other's.                         *)
(***************************************************************************)
LEMMA JobIsNotOrg ==
  ASSUME NEW q, JobPlace(q)
  PROVE  /\ OrgPlace(q) /\ q.pc \in AppSteps
         /\ q.pc \notin Checked \union Inserting \union {"idle", "lost", "saveMember"}
BY DEF JobPlace, Job, OrgPlace, OrgPcs, Checked, CheckedKinds, Inserting, OrgSteps, OrgKinds,
   WebOrgKinds, ApiOrgKinds, AppSteps, AssignKinds, AccessKinds

LEMMA OrgIsNotJob ==
  ASSUME NEW q \in OrgRequest
  PROVE  /\ AppPlace(q) /\ q.pc \notin AppSteps
         /\ \A w, h, pow : Covered(q, w, h, pow)
BY DEF OrgRequest, AppPlace, Covered, OrgSteps, OrgKinds,
   WebOrgKinds, ApiOrgKinds, AppSteps, AssignKinds, AccessKinds

LEMMA LostIsOrg == Quiet \in OrgRequest /\ [Quiet EXCEPT !.pc = "lost"] \in OrgRequest
BY QuietPlace DEF Quiet, OrgRequest, OrgSteps

\* What a step of a request to an application does to the requests.
AppMoves(p) == \/ Die \/ Finish(p)
               \/ \E q : JobPlace(q) /\ Become(p, q)

LEMMA AppMovesMove ==
  ASSUME Slots, NEW p \in Requests, AppMoves(p)
  PROVE  Moves(p) /\ Advances(p) /\ Holds(p) /\ req'[p].pc \notin Inserting
<1>1. CASE Die
  <2>1. req'[p].pc \in {"idle", "lost"}
    BY <1>1 DEF Die, Quiet
  <2> QED BY <1>1, <2>1 DEF Moves, Advances, Holds, HeldRow, Checked, CheckedKinds, Inserting
<1>2. CASE Finish(p)
  <2>1. req'[p].pc = "idle"
    BY <1>2 DEF Finish, Become, Slots, Quiet
  <2> QED BY <1>2, <2>1, FinishMoves, OrgMovesMove
          DEF Advances, Holds, HeldRow, Checked, CheckedKinds, Inserting
<1>3. ASSUME NEW q, JobPlace(q), Become(p, q)
      PROVE  Moves(p) /\ Advances(p) /\ Holds(p) /\ req'[p].pc \notin Inserting
  <2>1. req'[p] = q
    BY <1>3 DEF Become, Slots
  <2> QED BY <1>3, <2>1, JobIsNotOrg DEF Moves, Advances, Holds, HeldRow
<1> QED BY <1>1, <1>2, <1>3 DEF AppMoves

LEMMA MovesKeepPlaces ==
  ASSUME Slots, AppPlaces, NEW p \in Requests, AppMoves(p) \/ OrgMoves(p)
  PROVE  AppPlaces'
<1>1. ASSUME NEW r \in Requests PROVE AppPlace(req'[r])
  <2>1. CASE Die
    BY <2>1, LostIsOrg, OrgIsNotJob DEF Die
  <2>2. CASE Finish(p)
    BY <2>2, LostIsOrg, OrgIsNotJob DEF Finish, Become, Slots, AppPlaces
  <2>3. ASSUME NEW q, JobPlace(q) \/ q \in OrgRequest, Become(p, q) PROVE AppPlace(req'[r])
    <3>1. AppPlace(q)
      BY <2>3, OrgIsNotJob DEF AppPlace
    <3> QED BY <2>3, <3>1 DEF Become, Slots, AppPlaces
  <2> QED BY <2>1, <2>2, <2>3 DEF AppMoves, OrgMoves
<1> QED BY <1>1 DEF AppPlaces, AppPlace

(***************************************************************************)
(* The histories only grow while a request runs.                           *)
(***************************************************************************)
LEMMA HistoryGrows ==
  ASSUME AppHistory, NEW p \in Requests, JobPlace(req'[p])
  PROVE  /\ Hats(req'[p].actor, members') \subseteq worn'[p]
         /\ RolesOf(worn'[p], assign') \subseteq held'[p]
         /\ PermissionsOf(held'[p], rp') \subseteq powers'[p]
         /\ ~At(p, "idle") => /\ worn[p] \subseteq worn'[p] /\ held[p] \subseteq held'[p]
                              /\ powers[p] \subseteq powers'[p]
<1>1. req'[p].pc \notin {"idle", "lost"} /\ req'[p].kind \in AssignKinds \union AccessKinds
  BY JobIsNotOrg DEF JobPlace, Job
<1> QED BY <1>1 DEF AppHistory

LEMMA CoveredGrows ==
  ASSUME NEW q, NEW w, NEW h, NEW pow, Covered(q, w, h, pow),
         NEW w2, NEW h2, NEW pow2, w \subseteq w2, h \subseteq h2, pow \subseteq pow2
  PROVE  Covered(q, w2, h2, pow2)
BY DEF Covered, May

LEMMA OthersStayAuthorized ==
  ASSUME AppHistory, AppPlaces, NEW r \in Requests, Authorized(r), req'[r] = req[r]
  PROVE  Authorized(r)'
<1>1. CASE req[r].pc \in AppSteps
  <2>1. JobPlace(req'[r]) /\ ~At(r, "idle")
    BY <1>1 DEF AppPlaces, AppPlace, At, AppSteps, AssignKinds, AccessKinds
  <2> QED BY <2>1, HistoryGrows, CoveredGrows DEF Authorized
<1>2. CASE req[r].pc \notin AppSteps
  BY <1>2 DEF Authorized, Covered, AppSteps
<1> QED BY <1>1, <1>2

LEMMA MovesKeepAuthorized ==
  ASSUME OrgInv, AppPlaces, AppAuthorized, AppHistory, NEW p \in Requests,
         OrgMoves(p) \/ (AppMoves(p) /\ (JobPlace(req'[p]) => Authorized(p)'))
  PROVE  AppAuthorized'
<1>1. ASSUME NEW r \in Requests PROVE Authorized(r)'
  <2>1. CASE req'[r] \in OrgRequest
    BY <2>1, OrgIsNotJob DEF Authorized
  <2>2. CASE req'[r] = req[r]
    BY <2>2, OthersStayAuthorized DEF AppAuthorized
  <2>3. CASE r = p /\ JobPlace(req'[p]) /\ Authorized(p)'
    BY <2>3
  <2>4. Die => req'[r] \in OrgRequest
    BY LostIsOrg DEF Die
  <2>5. ASSUME NEW q, Become(p, q) PROVE req'[r] = IF r = p THEN q ELSE req[r]
    BY <2>5 DEF Become, OrgInv, Slots
  <2>6. Finish(p) => req'[r] \in OrgRequest \/ req'[r] = req[r]
    BY <2>5, LostIsOrg DEF Finish
  <2> QED BY <2>1, <2>2, <2>3, <2>4, <2>5, <2>6 DEF AppMoves, OrgMoves
<1> QED BY <1>1 DEF AppAuthorized

(***************************************************************************)
(* Requests arrive.                                                        *)
(***************************************************************************)
Arrival(q) == /\ q \in Job /\ q.pc = "roles" /\ q.hats = Hats(q.actor, members)
              /\ Complete(q)

LEMMA Ends ==
  ASSUME Slots, NEW p \in Requests, Finish(p) \/ Die
  PROVE  AppMoves(p) /\ ~JobPlace(req'[p])
<1>1. req'[p].pc \in {"idle", "lost"}
  BY DEF Finish, Become, Die, Slots, Quiet
<1> QED BY <1>1, JobIsNotOrg DEF AppMoves

LEMMA ArrivalIsAuthorized ==
  ASSUME Slots, AppHistory, UNCHANGED <<users, orgs, members, appVars>>,
         NEW p \in Requests, NEW q, Arrival(q), Start(p, q)
  PROVE  AppMoves(p) /\ Authorized(p)'
<1>1. JobPlace(q)
  BY DEF JobPlace, Arrival, AssignKinds, AccessKinds, JobKinds
<1>2. req'[p] = q /\ Become(p, q)
  BY DEF Start, Become, Slots
<1>3. Hats(q.actor, members) \subseteq worn'[p]
  BY <1>1, <1>2, HistoryGrows
<1> QED BY <1>1, <1>2, <1>3 DEF AppMoves, Authorized, Covered, Arrival, AssignKinds, AccessKinds

LEMMA PlainArrival ==
  ASSUME OrgInv, NEW u \in Users, NEW kind \in AssignKinds \union AccessKinds
  PROVE  \A q \in {ApiRequest(u, kind), WebRequest(u, kind)} :
             /\ q \in Job /\ q.pc = "roles" /\ q.hats = Hats(q.actor, members)
             /\ q.kind = kind
<1>1. Hats(u, members) \subseteq Assignees
  BY DEF OrgInv, OrgRows, Hats, Assignees, Member
<1>2. NewJob.pc = "roles" /\ [NewJob EXCEPT !.actor = u, !.kind = kind] \in Job
  BY DEF NewJob, Job, AppSteps, Roles, Permissions, InternalRoles, InternalPermissions, Rules
<1>3. /\ ApiRequest(u, kind) = [[NewJob EXCEPT !.actor = u, !.kind = kind] EXCEPT
                                    !.hats = Hats(u, members)]
      /\ WebRequest(u, kind) = [ApiRequest(u, kind) EXCEPT !.web = TRUE]
  BY DEF ApiRequest, WebRequest, NewJob
<1>4. ApiRequest(u, kind) \in Job
  <2> DEFINE j == [NewJob EXCEPT !.actor = u, !.kind = kind]
  <2>1. j \in Job /\ ApiRequest(u, kind) = [j EXCEPT !.hats = Hats(u, members)]
    BY <1>2, <1>3
  <2> HIDE DEF j
  <2> QED BY <1>1, <2>1 DEF Job
<1>5. WebRequest(u, kind) \in Job
  BY <1>3, <1>4 DEF Job
<1>6. /\ ApiRequest(u, kind).pc = "roles" /\ ApiRequest(u, kind).actor = u
      /\ ApiRequest(u, kind).kind = kind /\ ApiRequest(u, kind).hats = Hats(u, members)
  BY DEF ApiRequest, NewJob
<1>7. /\ WebRequest(u, kind).pc = "roles" /\ WebRequest(u, kind).actor = u
      /\ WebRequest(u, kind).kind = kind /\ WebRequest(u, kind).hats = Hats(u, members)
  BY <1>3, <1>4, <1>6 DEF Job
<1> QED BY <1>4, <1>5, <1>6, <1>7

\* The fields a request may bring.
LEMMA FilledArrival ==
  ASSUME OrgInv, NEW u \in Users, NEW kind \in AssignKinds \union AccessKinds,
         NEW b \in {ApiRequest(u, kind), WebRequest(u, kind)}
  PROVE  /\ kind \notin {"createPermission", "editPermission", "addRole", "removeRole"} =>
              /\ Arrival(b)
              /\ \A form \in SUBSET Assignment : Arrival([b EXCEPT !.form = form])
              /\ \A grid \in SUBSET (Roles \X Permissions), can \in SUBSET Roles :
                    Arrival([b EXCEPT !.grid = grid, !.can = can])
              /\ \A r \in Roles : Arrival([b EXCEPT !.role = r])
              /\ \A r \in Roles, g \in Permissions : Arrival([b EXCEPT !.role = r, !.perm = g])
              /\ \A g \in Permissions : Arrival([b EXCEPT !.perm = g])
         /\ kind \in {"addRole", "removeRole"} =>
               \A r \in Roles, to \in Assignees : Arrival([b EXCEPT !.role = r, !.to = to])
         /\ kind \in {"createPermission", "editPermission"} =>
              /\ \A rule \in SubmittedRules : Arrival([b EXCEPT !.rule = rule])
              /\ \A rule \in SubmittedRules, g \in Permissions :
                    Arrival([b EXCEPT !.perm = g, !.rule = rule])
              /\ \A rule \in SubmittedRules, g \in Permissions, copy \in Rules :
                    Arrival([b EXCEPT !.perm = g, !.rule = rule, !.copy = copy])
<1>1. SubmittedRules \subseteq Rules
  BY DEF SubmittedRules, Rules
<1>2. b \in Job /\ b.pc = "roles" /\ b.hats = Hats(b.actor, members) /\ b.kind = kind
  BY PlainArrival
<1>3. kind \notin {"createPermission", "editPermission", "addRole", "removeRole"} =>
          Arrival(b)
  BY <1>1, <1>2 DEF Arrival, Complete, Job
<1>4. kind \notin {"createPermission", "editPermission", "addRole", "removeRole"} =>
          \A form \in SUBSET Assignment : Arrival([b EXCEPT !.form = form])
  BY <1>1, <1>2 DEF Arrival, Complete, Job
<1>5. kind \notin {"createPermission", "editPermission", "addRole", "removeRole"} =>
          \A grid \in SUBSET (Roles \X Permissions), can \in SUBSET Roles :
              Arrival([b EXCEPT !.grid = grid, !.can = can])
  BY <1>1, <1>2 DEF Arrival, Complete, Job
<1>6. kind \notin {"createPermission", "editPermission", "addRole", "removeRole"} =>
          \A r \in Roles : Arrival([b EXCEPT !.role = r])
  BY <1>1, <1>2 DEF Arrival, Complete, Job
<1>7. kind \in {"addRole", "removeRole"} =>
          \A r \in Roles, to \in Assignees : Arrival([b EXCEPT !.role = r, !.to = to])
  BY <1>1, <1>2 DEF Arrival, Complete, Job
<1>8. kind \notin {"createPermission", "editPermission", "addRole", "removeRole"} =>
          \A r \in Roles, g \in Permissions : Arrival([b EXCEPT !.role = r, !.perm = g])
  BY <1>1, <1>2 DEF Arrival, Complete, Job
<1>9. kind \notin {"createPermission", "editPermission", "addRole", "removeRole"} =>
          \A g \in Permissions : Arrival([b EXCEPT !.perm = g])
  BY <1>1, <1>2 DEF Arrival, Complete, Job
<1>10. kind \in {"createPermission", "editPermission"} =>
          \A rule \in SubmittedRules : Arrival([b EXCEPT !.rule = rule])
  BY <1>1, <1>2 DEF Arrival, Complete, Job
<1>11. kind \in {"createPermission", "editPermission"} =>
          \A rule \in SubmittedRules, g \in Permissions :
              Arrival([b EXCEPT !.perm = g, !.rule = rule])
  BY <1>1, <1>2 DEF Arrival, Complete, Job
<1>12. kind \in {"createPermission", "editPermission"} =>
          \A rule \in SubmittedRules, g \in Permissions, copy \in Rules :
              Arrival([b EXCEPT !.perm = g, !.rule = rule, !.copy = copy])
  <2> SUFFICES ASSUME kind \in {"createPermission", "editPermission"}, NEW rule \in SubmittedRules,
                      NEW g \in Permissions, NEW copy \in Rules
               PROVE  Arrival([b EXCEPT !.perm = g, !.rule = rule, !.copy = copy])
    OBVIOUS
  <2> DEFINE c == [b EXCEPT !.perm = g, !.rule = rule]
  <2>1. Arrival(c) /\ [b EXCEPT !.perm = g, !.rule = rule, !.copy = copy] = [c EXCEPT !.copy = copy]
    BY <1>11, <1>2 DEF Job
  <2> HIDE DEF c
  <2> QED BY <2>1 DEF Arrival, Complete, Job
<1> QED BY <1>3, <1>4, <1>5, <1>6, <1>7, <1>8, <1>9, <1>10, <1>11, <1>12

Arrives(p) == \E q : Arrival(q) /\ Start(p, q)

LEMMA WebArrives ==
  ASSUME AppInv, NEW p \in Requests, WebAppRequest(p)
  PROVE  Arrives(p)
<1>1. /\ OnceRoles \subseteq Roles /\ OncePermissions \subseteq Permissions
      /\ OrgInv
  BY GrantedAssumption DEF OnceRoles, OncePermissions, AppInv
<1>2. PICK u \in Users :
        \/ \E kind \in Seen({"authorize"}), toUsers \in BOOLEAN :
           \E f \in Forms([to: {t \in Named : IsUser(t) = toUsers}, role: OnceRoles]) :
              Start(p, [WebRequest(u, kind) EXCEPT !.form = f])
        \/ \E kind \in Seen({"grants"}), f \in Forms(OnceRoles \X OncePermissions) :
           \E more \in SUBSET OnceRoles :
              Start(p, [WebRequest(u, kind) EXCEPT
                            !.grid = f, !.can = more \union {g[1] : g \in f}])
        \/ \E kind \in Seen({"createRole"}) : Start(p, WebRequest(u, kind))
        \/ \E kind \in Seen({"deleteRole"}), r \in OnceRoles \ InternalRoles :
              Start(p, [WebRequest(u, kind) EXCEPT !.role = r])
        \/ \E kind \in Seen({"createPermission"}), rule \in SubmittedRules :
              Start(p, [WebRequest(u, kind) EXCEPT !.rule = rule])
        \/ \E kind \in Seen({"editPermission"}), rule \in SubmittedRules,
              g \in OncePermissions \ InternalPermissions :
              Start(p, [WebRequest(u, kind) EXCEPT !.perm = g, !.rule = rule])
        \/ \E kind \in Seen({"deletePermission"}), g \in OncePermissions \ InternalPermissions :
              Start(p, [WebRequest(u, kind) EXCEPT !.perm = g])
  BY DEF WebAppRequest
<1> DEFINE b(kind) == WebRequest(u, kind)
<1>3. ASSUME NEW kind \in Seen({"authorize"}), NEW toUsers \in BOOLEAN,
             NEW f \in Forms([to: {t \in Named : IsUser(t) = toUsers}, role: OnceRoles]),
             Start(p, [b(kind) EXCEPT !.form = f])
      PROVE  Arrives(p)
  <2>1. f \in SUBSET Assignment
    BY <1>1, NamedAssumption DEF Forms, Assignment
  <2>2. Arrival([b(kind) EXCEPT !.form = f])
    BY <1>1, <2>1, FilledArrival DEF Seen, AssignKinds
  <2> QED BY <1>3, <2>2 DEF Arrives
<1>4. ASSUME NEW kind \in Seen({"grants"}), NEW f \in Forms(OnceRoles \X OncePermissions),
             NEW more \in SUBSET OnceRoles,
             Start(p, [b(kind) EXCEPT !.grid = f, !.can = more \union {g[1] : g \in f}])
      PROVE  Arrives(p)
  <2>1. f \in SUBSET (Roles \X Permissions) /\ more \union {g[1] : g \in f} \in SUBSET Roles
    BY <1>1 DEF Forms
  <2>2. Arrival([b(kind) EXCEPT !.grid = f, !.can = more \union {g[1] : g \in f}])
    BY <1>1, <2>1, FilledArrival DEF Seen, AccessKinds
  <2> QED BY <1>4, <2>2 DEF Arrives
<1>5. ASSUME NEW kind \in Seen({"createRole"}), Start(p, b(kind)) PROVE Arrives(p)
  <2>1. Arrival(b(kind))
    BY <1>1, FilledArrival DEF Seen, AccessKinds
  <2> QED BY <1>5, <2>1 DEF Arrives
<1>6. ASSUME NEW kind \in Seen({"deleteRole"}), NEW r \in Roles, Start(p, [b(kind) EXCEPT !.role = r])
      PROVE  Arrives(p)
  <2>1. Arrival([b(kind) EXCEPT !.role = r])
    BY <1>1, FilledArrival DEF Seen, AccessKinds
  <2> QED BY <1>6, <2>1 DEF Arrives
<1>7. ASSUME NEW kind \in Seen({"createPermission"}), NEW rule \in SubmittedRules,
             Start(p, [b(kind) EXCEPT !.rule = rule])
      PROVE  Arrives(p)
  <2>1. Arrival([b(kind) EXCEPT !.rule = rule])
    BY <1>1, FilledArrival DEF Seen, AccessKinds
  <2> QED BY <1>7, <2>1 DEF Arrives
<1>8. ASSUME NEW kind \in Seen({"editPermission"}), NEW rule \in SubmittedRules,
             NEW g \in Permissions, Start(p, [b(kind) EXCEPT !.perm = g, !.rule = rule])
      PROVE  Arrives(p)
  <2>1. Arrival([b(kind) EXCEPT !.perm = g, !.rule = rule])
    BY <1>1, FilledArrival DEF Seen, AccessKinds
  <2> QED BY <1>8, <2>1 DEF Arrives
<1>9. ASSUME NEW kind \in Seen({"deletePermission"}), NEW g \in Permissions,
             Start(p, [b(kind) EXCEPT !.perm = g])
      PROVE  Arrives(p)
  <2>1. Arrival([b(kind) EXCEPT !.perm = g])
    BY <1>1, FilledArrival DEF Seen, AccessKinds
  <2> QED BY <1>9, <2>1 DEF Arrives
<1> QED BY <1>1, <1>2, <1>3, <1>4, <1>5, <1>6, <1>7, <1>8, <1>9

LEMMA ApiArrives ==
  ASSUME AppInv, NEW p \in Requests, ApiAppRequest(p)
  PROVE  Arrives(p)
<1>1. /\ LoadedRoles \subseteq Roles /\ LoadedPermissions \subseteq Permissions
      /\ roles \subseteq Roles /\ DOMAIN rules \subseteq Permissions /\ users \subseteq Users
      /\ OrgInv /\ \A g \in DOMAIN rules : rules[g] \in Rules
  BY GrantedAssumption DEF LoadedRoles, LoadedPermissions, AppInv, AppRows, Roles, Permissions,
     OrgInv, OrgRows
<1>2. PICK u \in users :
        \/ \E kind \in Seen({"addRole", "removeRole"}), r \in LoadedRoles,
              to \in {t \in Named : t[1] \in users \union orgs} :
              Start(p, [ApiRequest(u, kind) EXCEPT !.role = r, !.to = to])
        \/ \E kind \in Seen({"grant", "revoke"}), r \in LoadedRoles,
              g \in LoadedPermissions :
              Start(p, [ApiRequest(u, kind) EXCEPT !.role = r, !.perm = g])
        \/ \E kind \in Seen({"createRole"}) : Start(p, ApiRequest(u, kind))
        \/ \E kind \in Seen({"deleteRole"}), r \in roles :
              Start(p, [ApiRequest(u, kind) EXCEPT !.role = r])
        \/ \E kind \in Seen({"createPermission"}), rule \in SubmittedRules :
              Start(p, [ApiRequest(u, kind) EXCEPT !.rule = rule])
        \/ \E kind \in Seen({"editPermission"}), g \in DOMAIN rules, rule \in SubmittedRules :
              Start(p, [ApiRequest(u, kind) EXCEPT
                            !.perm = g, !.rule = rule, !.copy = rules[g]])
        \/ \E kind \in Seen({"deletePermission"}), g \in DOMAIN rules :
              Start(p, [ApiRequest(u, kind) EXCEPT !.perm = g])
  BY DEF ApiAppRequest
<1>3. u \in Users
  BY <1>1
<1> DEFINE b(kind) == ApiRequest(u, kind)
<1>4. ASSUME NEW kind \in Seen({"addRole", "removeRole"}), NEW r \in Roles, NEW to \in Named,
             Start(p, [b(kind) EXCEPT !.role = r, !.to = to])
      PROVE  Arrives(p)
  <2>1. Arrival([b(kind) EXCEPT !.role = r, !.to = to])
    BY <1>1, <1>3, NamedAssumption, FilledArrival DEF Seen, AssignKinds
  <2> QED BY <1>4, <2>1 DEF Arrives
<1>5. ASSUME NEW kind \in Seen({"grant", "revoke"}), NEW r \in Roles, NEW g \in Permissions,
             Start(p, [b(kind) EXCEPT !.role = r, !.perm = g])
      PROVE  Arrives(p)
  <2>1. Arrival([b(kind) EXCEPT !.role = r, !.perm = g])
    BY <1>1, <1>3, FilledArrival DEF Seen, AccessKinds
  <2> QED BY <1>5, <2>1 DEF Arrives
<1>6. ASSUME NEW kind \in Seen({"createRole"}), Start(p, b(kind)) PROVE Arrives(p)
  <2>1. Arrival(b(kind))
    BY <1>1, <1>3, FilledArrival DEF Seen, AccessKinds
  <2> QED BY <1>6, <2>1 DEF Arrives
<1>7. ASSUME NEW kind \in Seen({"deleteRole"}), NEW r \in Roles, Start(p, [b(kind) EXCEPT !.role = r])
      PROVE  Arrives(p)
  <2>1. Arrival([b(kind) EXCEPT !.role = r])
    BY <1>1, <1>3, FilledArrival DEF Seen, AccessKinds
  <2> QED BY <1>7, <2>1 DEF Arrives
<1>8. ASSUME NEW kind \in Seen({"createPermission"}), NEW rule \in SubmittedRules,
             Start(p, [b(kind) EXCEPT !.rule = rule])
      PROVE  Arrives(p)
  <2>1. Arrival([b(kind) EXCEPT !.rule = rule])
    BY <1>1, <1>3, FilledArrival DEF Seen, AccessKinds
  <2> QED BY <1>8, <2>1 DEF Arrives
<1>9. ASSUME NEW kind \in Seen({"editPermission"}), NEW g \in DOMAIN rules,
             NEW rule \in SubmittedRules,
             Start(p, [b(kind) EXCEPT !.perm = g, !.rule = rule, !.copy = rules[g]])
      PROVE  Arrives(p)
  <2>1. g \in Permissions /\ rules[g] \in Rules
    BY <1>1
  <2>2. Arrival([b(kind) EXCEPT !.perm = g, !.rule = rule, !.copy = rules[g]])
    BY <1>1, <1>3, <2>1, FilledArrival DEF Seen, AccessKinds
  <2> QED BY <1>9, <2>2 DEF Arrives
<1>10. ASSUME NEW kind \in Seen({"deletePermission"}), NEW g \in Permissions,
              Start(p, [b(kind) EXCEPT !.perm = g])
       PROVE  Arrives(p)
  <2>1. Arrival([b(kind) EXCEPT !.perm = g])
    BY <1>1, <1>3, FilledArrival DEF Seen, AccessKinds
  <2> QED BY <1>10, <2>1 DEF Arrives
<1> QED BY <1>1, <1>2, <1>4, <1>5, <1>6, <1>7, <1>8, <1>9, <1>10

(***************************************************************************)
(* The check: what it reads is what its user has been.                     *)
(***************************************************************************)
LEMMA JobInPlace ==
  ASSUME AppInv, NEW p \in Requests, req[p].pc \in AppSteps
  PROVE  JobPlace(req[p]) /\ Authorized(p) /\ ~At(p, "idle") /\ Slots
BY DEF AppInv, AppPlaces, AppPlace, AppAuthorized, OrgInv, At, AppSteps, AssignKinds, AccessKinds

LEMMA JobGoesOn ==
  ASSUME Slots, NEW p \in Requests, NEW q, JobPlace(q), Become(p, q)
  PROVE  AppMoves(p) /\ req'[p] = q
BY DEF AppMoves, Become, Slots

LEMMA ReadRolesStep ==
  ASSUME AppInv, AppHistory, NEW p \in Requests, ReadRoles(p)
  PROVE  AppMoves(p) /\ Authorized(p)'
<1>1. req[p].pc = "roles" /\ JobPlace(req[p]) /\ Authorized(p) /\ ~At(p, "idle") /\ Slots
  BY JobInPlace DEF ReadRoles, At, AppSteps
<1> DEFINE q == [req[p] EXCEPT !.pc = "permissions", !.hats = {}, !.has = RolesOf(req[p].hats, assign)]
<1>2. RolesOf(req[p].hats, assign) \subseteq Roles
  BY DEF AppInv, AppRows, RolesOf, Assignment
<1>3. q \in Job /\ q.pc = "permissions" /\ q.has = RolesOf(req[p].hats, assign)
      /\ q.kind = req[p].kind /\ q.rule = req[p].rule /\ q.to = req[p].to
  BY <1>1, <1>2 DEF JobPlace, Job, AppSteps
<1>4. Become(p, q) /\ UNCHANGED assign
  BY DEF ReadRoles, Update, appVars
<1> HIDE DEF q
<1>5. JobPlace(q)
  BY <1>1, <1>3 DEF JobPlace, Complete, JobKinds, AssignKinds, AccessKinds
<1>6. AppMoves(p) /\ req'[p] = q
  BY <1>1, <1>4, <1>5, JobGoesOn
<1>7. req[p].hats \subseteq worn'[p] /\ RolesOf(worn'[p], assign') \subseteq held'[p]
  BY <1>1, <1>5, <1>6, HistoryGrows DEF Authorized, Covered
<1>8. q.has \subseteq held'[p]
  BY <1>3, <1>4, <1>7 DEF RolesOf
<1> QED BY <1>3, <1>6, <1>8 DEF Authorized, Covered, AssignKinds, AccessKinds

LEMMA VerdictStep ==
  ASSUME AppInv, AppHistory, NEW p \in Requests, WebVerdict(p) \/ ApiVerdict(p)
  PROVE  AppMoves(p) /\ (JobPlace(req'[p]) => Authorized(p)')
<1>1. req[p].pc = "permissions" /\ JobPlace(req[p]) /\ Authorized(p) /\ ~At(p, "idle") /\ Slots
  BY JobInPlace DEF WebVerdict, ApiVerdict, Verdict, At, AppSteps
<1> DEFINE perms == PermissionsOf(req[p].has, rp)
<1>2. UNCHANGED rp /\ perms \subseteq Permissions
  BY DEF WebVerdict, ApiVerdict, Verdict, appVars, AppInv, AppRows, PermissionsOf, GrantFk,
     LivePermission, Permissions
<1>3. CASE Finish(p) \/ Die
  BY <1>1, <1>3, Ends
<1>4. ASSUME JobPlace(req'[p]) PROVE perms \subseteq powers'[p] /\ req[p].has \subseteq held'[p]
  BY <1>1, <1>2, <1>4, HistoryGrows DEF Authorized, Covered, PermissionsOf
<1>5. CASE /\ perms \intersect Needed(req[p].kind) # {} /\ req[p].kind \in AssignKinds
           /\ Become(p, [req[p] EXCEPT !.pc = "changeable", !.perms = perms])
  <2> DEFINE q == [req[p] EXCEPT !.pc = "changeable", !.perms = perms]
  <2>1. q \in Job /\ q.pc = "changeable" /\ q.perms = perms
        /\ q.kind = req[p].kind /\ q.rule = req[p].rule /\ q.to = req[p].to /\ q.has = req[p].has
    BY <1>1, <1>2 DEF JobPlace, Job, AppSteps
  <2>2. Become(p, q)
    BY <1>5
  <2> HIDE DEF q
  <2>3. JobPlace(q)
    BY <1>1, <1>5, <2>1 DEF JobPlace, Complete, JobKinds, AssignKinds, AccessKinds
  <2>4. AppMoves(p) /\ req'[p] = q
    BY <1>1, <2>2, <2>3, JobGoesOn
  <2> QED BY <1>4, <2>1, <2>3, <2>4 DEF Authorized, Covered, AssignKinds, AccessKinds
<1>6. CASE /\ perms \intersect Needed(req[p].kind) # {} /\ req[p].kind \notin AssignKinds
           /\ Become(p, [req[p] EXCEPT !.pc = req[p].kind, !.has = {}])
  <2> DEFINE q == [req[p] EXCEPT !.pc = req[p].kind, !.has = {}]
  <2>1. q \in Job /\ q.pc = req[p].kind /\ q.kind = req[p].kind /\ q.rule = req[p].rule /\ q.to = req[p].to
        /\ req[p].kind \in AccessKinds
    BY <1>1, <1>6 DEF JobPlace, Job, AppSteps
  <2>2. Become(p, q)
    BY <1>6
  <2> HIDE DEF q
  <2>3. JobPlace(q)
    BY <1>1, <2>1 DEF JobPlace, Complete, JobKinds, AssignKinds, AccessKinds
  <2>4. AppMoves(p) /\ req'[p] = q
    BY <1>1, <2>2, <2>3, JobGoesOn
  <2>5. "3" \in powers'[p]
    BY <1>4, <1>6, <2>3, <2>4 DEF Needed
  <2> QED BY <2>1, <2>4, <2>5 DEF Authorized, Covered, AssignKinds, AccessKinds
<1> QED BY <1>3, <1>5, <1>6 DEF WebVerdict, ApiVerdict, Verdict

\* What may be changed is what powers, held with roles, allow.
LEMMA ChangeableIsCovered ==
  ASSUME AppInv, NEW p \in Requests, req[p].pc = "changeable"
  PROVE  /\ ChangeableRoles(p) \subseteq Roles
         /\ \A r \in ChangeableRoles(p) : May(r, held[p], powers[p])
<1>1. /\ req[p].has \subseteq held[p] /\ req[p].perms \subseteq powers[p]
  BY JobInPlace DEF AppSteps, Authorized, Covered
<1>2. roles \subseteq CustomRoles /\ roles \intersect InternalRoles = {}
  BY CustomAssumption DEF AppInv, AppRows
<1> QED BY <1>1, <1>2 DEF ChangeableRoles, May, Roles

LEMMA SearchStep ==
  ASSUME AppInv, AppHistory, NEW p \in Requests, SearchChangeableRoles(p)
  PROVE  AppMoves(p) /\ (JobPlace(req'[p]) => Authorized(p)')
<1>1. req[p].pc = "changeable" /\ JobPlace(req[p]) /\ ~At(p, "idle") /\ Slots
  BY JobInPlace DEF SearchChangeableRoles, At, AppSteps
<1> DEFINE can == ChangeableRoles(p)
<1>2. can \subseteq Roles /\ \A r \in can : May(r, held[p], powers[p])
  BY <1>1, ChangeableIsCovered
<1>3. CASE Finish(p)
  BY <1>1, <1>3, Ends
<1>4. CASE ~Finish(p)
  <2> DEFINE q == [req[p] EXCEPT !.pc = req[p].kind, !.can = can, !.has = {}, !.perms = {}]
  <2>1. Wanted(req[p]) \subseteq can /\ Become(p, q)
    BY <1>4 DEF SearchChangeableRoles, Wanted
  <2> HIDE DEF can
  <2>2. /\ q \in Job /\ q.pc = req[p].kind /\ q.kind = req[p].kind /\ q.rule = req[p].rule /\ q.to = req[p].to
        /\ q.can = can /\ q.form = req[p].form /\ q.role = req[p].role
        /\ req[p].kind \in AssignKinds
    BY <1>1, <1>2 DEF JobPlace, Job, AppSteps
  <2> HIDE DEF q
  <2>3. JobPlace(q)
    BY <1>1, <2>2 DEF JobPlace, Complete, JobKinds, AssignKinds, AccessKinds
  <2>4. AppMoves(p) /\ req'[p] = q
    BY <1>1, <2>1, <2>3, JobGoesOn
  <2>5. held[p] \subseteq held'[p] /\ powers[p] \subseteq powers'[p]
    BY <1>1, <2>3, <2>4, HistoryGrows
  <2>6. Wanted(q) \subseteq q.can /\ \A r \in q.can : May(r, held'[p], powers'[p])
    BY <1>2, <2>1, <2>2, <2>5 DEF Wanted, May
  <2> QED BY <2>2, <2>4, <2>6 DEF Authorized, Covered, AssignKinds, AccessKinds
<1> QED BY <1>3, <1>4

\* The step between a form's destroy and its bulkCreate.
LEMMA HalfWay ==
  ASSUME AppInv, AppHistory, NEW p \in Requests,
         \/ AuthorizeUsers(p) \/ AuthorizeOrganizations(p) \/ DestroyGrants(p)
  PROVE  AppMoves(p) /\ (JobPlace(req'[p]) => Authorized(p)')
<1>1. req[p].pc \in {"authorize", "grants"} /\ req[p].pc \in AppSteps
  BY DEF AuthorizeUsers, AuthorizeOrganizations, DestroyAssignments, DestroyGrants, At, AppSteps,
     AssignKinds, AccessKinds
<1>2. JobPlace(req[p]) /\ Authorized(p) /\ ~At(p, "idle") /\ Slots /\ req[p].kind = req[p].pc
  BY <1>1, JobInPlace DEF JobPlace, Complete, JobKinds, AssignKinds, AccessKinds
<1>3. CASE Finish(p)
  BY <1>2, <1>3, Ends
<1>4. CASE ~Finish(p)
  <2> DEFINE pc == IF req[p].pc = "authorize" THEN "bulkAssign" ELSE "bulkGrant"
             q == [req[p] EXCEPT !.pc = pc]
  <2>1. Become(p, q)
    BY <1>1, <1>4 DEF AuthorizeUsers, AuthorizeOrganizations, DestroyAssignments, DestroyGrants,
       Goto, At
  <2>2. /\ q \in Job /\ q.pc = pc /\ q.kind = req[p].kind /\ q.rule = req[p].rule /\ q.to = req[p].to
        /\ q.can = req[p].can /\ q.form = req[p].form /\ q.role = req[p].role
    BY <1>2 DEF JobPlace, Job, AppSteps
  <2> HIDE DEF q
  <2>3. JobPlace(q)
    BY <1>1, <1>2, <2>2 DEF JobPlace, Complete, JobKinds, AssignKinds, AccessKinds
  <2>4. AppMoves(p) /\ req'[p] = q
    BY <1>2, <2>1, <2>3, JobGoesOn
  <2>5. held[p] \subseteq held'[p] /\ powers[p] \subseteq powers'[p]
    BY <1>2, <2>3, <2>4, HistoryGrows
  <2>6. Covered(q, worn'[p], held'[p], powers'[p])
    BY <1>1, <1>2, <2>2, <2>5 DEF Authorized, Covered, Wanted, May, AssignKinds, AccessKinds
  <2> QED BY <2>4, <2>6 DEF Authorized
<1> QED BY <1>3, <1>4

LEMMA EndingSteps ==
  ASSUME AppInv, NEW p \in Requests,
         \/ BulkCreateAssignments(p) \/ AddUserRole(p) \/ AddOrganizationRole(p)
         \/ RemoveUserRole(p) \/ RemoveOrganizationRole(p)
         \/ WebCreateRole(p) \/ WebDeleteRole(p) \/ ApiCreateRole(p) \/ ApiDeleteRole(p)
         \/ WebCreatePermission(p) \/ WebEditPermission(p) \/ WebDeletePermission(p)
         \/ ApiCreatePermission(p) \/ ApiEditPermission(p) \/ ApiDeletePermission(p)
         \/ BulkCreateGrants(p) \/ Grant(p) \/ Revoke(p)
  PROVE  Finish(p) /\ AppMoves(p) /\ ~JobPlace(req'[p])
<1>1. Finish(p)
  BY DEF BulkCreateAssignments, AddUserRole, AddOrganizationRole, AddRole, RemoveUserRole,
     RemoveOrganizationRole, RemoveRole, WebCreateRole, ApiCreateRole, CreateRole, WebDeleteRole,
     ApiDeleteRole, DeleteRole, WebCreatePermission, ApiCreatePermission, CreatePermission,
     WebEditPermission, ApiEditPermission, EditPermission, WebDeletePermission,
     ApiDeletePermission, DeletePermission, BulkCreateGrants, Grant, Revoke
<1> QED BY <1>1, Ends DEF AppInv, OrgInv

(***************************************************************************)
(* The tables of an application.                                           *)
(***************************************************************************)
Tables == AppRows /\ InternalRolesKeepTheirPermissions /\ RuleIsExclusive

\* A rule that was not saved from an outdated copy stays so.
LEMMA SameRules ==
  ASSUME RuleIsExclusive, AppHistory,
         \A g \in DOMAIN rules' : g \in DOMAIN rules /\ rules'[g] = rules[g]
  PROVE  RuleIsExclusive'
BY DEF RuleIsExclusive, AppHistory

\* Rows of role_permission and role_assignment that come or go.
LEMMA GrantRows ==
  ASSUME Tables, AppHistory, UNCHANGED <<users, orgs, roles, rules, born>>,
         \A g \in rp' \ rp : g[1] \notin InternalRoles /\ GrantFk(g, roles, DOMAIN rules),
         \A g \in rp \ rp' : g[1] \notin InternalRoles,
         assign' \subseteq Assignment,
         \A a \in assign' \ assign : AssignmentFk(a, users, orgs, roles)
  PROVE  Tables'
<1>1. AppRows'
  BY DEF Tables, AppRows, GrantFk, AssignmentFk
<1>2. InternalRolesKeepTheirPermissions'
  BY DEF Tables, InternalRolesKeepTheirPermissions
<1>3. RuleIsExclusive'
  BY SameRules DEF Tables
<1> QED BY <1>1, <1>2, <1>3 DEF Tables

LEMMA ReadingKeepsTables ==
  ASSUME Tables, AppHistory, UNCHANGED <<users, orgs, appVars>>
  PROVE  Tables'
BY GrantRows DEF appVars, Tables, AppRows

LEMMA AssigningKeepsTables ==
  ASSUME AppInv, AppHistory, NEW p \in Requests,
         \/ AuthorizeUsers(p) \/ AuthorizeOrganizations(p) \/ BulkCreateAssignments(p)
         \/ AddUserRole(p) \/ AddOrganizationRole(p) \/ RemoveUserRole(p)
         \/ RemoveOrganizationRole(p)
  PROVE  Tables'
<1>1. UNCHANGED <<users, orgs, roles, rules, born, rp>>
  BY DEF AuthorizeUsers, AuthorizeOrganizations, DestroyAssignments, BulkCreateAssignments,
     AddUserRole, AddOrganizationRole, AddRole, RemoveUserRole, RemoveOrganizationRole, RemoveRole
<1>2. /\ assign' \subseteq Assignment
      /\ \A a \in assign' \ assign : AssignmentFk(a, users, orgs, roles)
  <2>0. assign \subseteq Assignment
    BY DEF AppInv, AppRows
  <2>1. CASE BulkCreateAssignments(p)
    <3>1. req[p].form \subseteq Assignment
      BY <2>1, JobInPlace DEF BulkCreateAssignments, At, AppSteps, JobPlace, Job
    <3> QED BY <2>0, <2>1, <3>1 DEF BulkCreateAssignments
  <2>2. CASE AddRole(p)
    <3>1. JobPlace(req[p]) /\ req[p].pc = "addRole"
      BY <2>2, JobInPlace DEF AddRole, At, AppSteps, AssignKinds
    <3>2. req[p].to \in Assignees /\ req[p].role \in Roles
      BY <3>1 DEF JobPlace, Complete, Job, JobKinds, AssignKinds
    <3>3. [to |-> req[p].to, role |-> req[p].role] \in Assignment
      BY <3>2 DEF Assignment
    <3> QED BY <2>0, <2>2, <3>3 DEF AddRole
  <2>3. CASE assign' \subseteq assign
    BY <2>0, <2>3
  <2> QED BY <2>1, <2>2, <2>3 DEF AuthorizeUsers, AuthorizeOrganizations, DestroyAssignments,
             AddUserRole, AddOrganizationRole, RemoveUserRole, RemoveOrganizationRole, RemoveRole
<1> QED BY <1>1, <1>2, GrantRows DEF AppInv, Tables

LEMMA GrantingKeepsTables ==
  ASSUME AppInv, AppHistory, NEW p \in Requests,
         DestroyGrants(p) \/ BulkCreateGrants(p) \/ Grant(p) \/ Revoke(p)
  PROVE  Tables'
<1>1. UNCHANGED <<users, orgs, roles, rules, born, assign>>
  BY DEF DestroyGrants, BulkCreateGrants, Grant, Revoke
<1>2. /\ \A g \in rp' \ rp : g[1] \notin InternalRoles /\ GrantFk(g, roles, DOMAIN rules)
      /\ \A g \in rp \ rp' : g[1] \notin InternalRoles
  BY DEF DestroyGrants, BulkCreateGrants, Grant, Revoke
<1> QED BY <1>1, <1>2, GrantRows DEF AppInv, Tables, AppRows

\* Rows of role and permission, with what refers to them.
LEMMA RoleStepsKeepTables ==
  ASSUME AppInv, AppHistory, NEW p \in Requests, CreateRole(p) \/ DeleteRole(p)
  PROVE  Tables'
<1>1. UNCHANGED <<users, orgs, rules>>
  BY DEF CreateRole, DeleteRole
<1>2. RuleIsExclusive'
  BY <1>1, SameRules DEF AppInv
<1>3. AppRows'
  BY DEF CreateRole, DeleteRole, AppInv, AppRows, GrantFk, LiveRole, AssignmentFk
<1>4. InternalRolesKeepTheirPermissions'
  BY DEF CreateRole, DeleteRole, AppInv, AppRows, InternalRolesKeepTheirPermissions, GrantFk,
     LiveRole, LivePermission
<1> QED BY <1>2, <1>3, <1>4 DEF Tables

LEMMA DeletePermissionKeepsTables ==
  ASSUME AppInv, AppHistory, NEW p \in Requests, DeletePermission(p)
  PROVE  Tables'
<1>1. \A g \in DOMAIN rules' : g \in DOMAIN rules /\ rules'[g] = rules[g]
  BY DEF DeletePermission
<1>2. RuleIsExclusive'
  BY <1>1, SameRules DEF AppInv
<1>3. AppRows'
  BY DEF DeletePermission, AppInv, AppRows, GrantFk
<1>4. InternalRolesKeepTheirPermissions'
  <2>1. \A g \in InternalGrants : LivePermission(g[2], DOMAIN rules')
    BY DEF InternalGrants, InternalPermissions, LivePermission
  <2>2. \A g \in rp : GrantFk(g, roles, DOMAIN rules)
    BY DEF AppInv, AppRows
  <2> QED BY <2>1, <2>2 DEF DeletePermission, AppInv, InternalRolesKeepTheirPermissions, GrantFk
<1> QED BY <1>2, <1>3, <1>4 DEF Tables

LEMMA CreatePermissionKeepsTables ==
  ASSUME AppInv, AppHistory, NEW p \in Requests, CreatePermission(p)
  PROVE  Tables'
<1>1. PICK g \in CustomPermissions \ born :
        /\ rules' = [h \in DOMAIN rules \union {g} |->
                        IF h = g THEN req[p].rule ELSE rules[h]]
        /\ born' = born \union {g}
  BY DEF CreatePermission
<1>2. req[p].rule \in SubmittedRules /\ req[p].rule \in Rules
  <2>1. JobPlace(req[p]) /\ req[p].pc = "createPermission"
    BY JobInPlace DEF CreatePermission, At, AppSteps, AccessKinds
  <2> QED BY <2>1 DEF JobPlace, Complete, Job, JobKinds, AccessKinds
<1>3. AppRows'
  BY <1>1, <1>2 DEF CreatePermission, AppInv, AppRows, GrantFk, LivePermission
<1>4. InternalRolesKeepTheirPermissions'
  BY DEF CreatePermission, AppInv, InternalRolesKeepTheirPermissions
<1>5. RuleIsExclusive'
  BY <1>1, <1>2 DEF AppInv, RuleIsExclusive, AppHistory, SubmittedRules
<1> QED BY <1>3, <1>4, <1>5 DEF Tables

\* An update from a copy that is not outdated leaves one form of the rule.
LEMMA RuleSavedIsExclusive ==
  ASSUME NEW q, NEW row, q.rule \in SubmittedRules, row \in SubmittedRules,
         q.web \/ q.copy = row
  PROVE  RuleSaved(q, row) \subseteq SubmittedRules
BY DEF RuleSaved, SubmittedRules

LEMMA EditPermissionKeepsTables ==
  ASSUME AppInv, AppHistory, NEW p \in Requests, EditPermission(p)
  PROVE  Tables'
<1> DEFINE g == req[p].perm
<1>1. /\ JobPlace(req[p]) /\ req[p].pc = "editPermission" /\ Slots
      /\ req[p].rule \in SubmittedRules /\ req[p].web \in BOOLEAN
  <2>1. JobPlace(req[p]) /\ req[p].pc = "editPermission" /\ Slots
    BY JobInPlace DEF EditPermission, At, AppSteps, AccessKinds
  <2> QED BY <2>1 DEF JobPlace, Complete, Job, JobKinds, AccessKinds
<1>2. UNCHANGED <<users, orgs, members, roles, born, rp, assign>>
  BY DEF EditPermission
<1>3. InternalRolesKeepTheirPermissions'
  BY <1>2 DEF AppInv, InternalRolesKeepTheirPermissions
<1>4. CASE g \notin DOMAIN rules
  <2>1. UNCHANGED rules
    BY <1>4 DEF EditPermission
  <2> QED BY <1>2, <2>1, ReadingKeepsTables DEF AppInv, Tables, appVars
<1>5. CASE g \in DOMAIN rules
  <2>1. PICK rule \in RuleSaved(req[p], rules[g]) : rules' = [rules EXCEPT ![g] = rule]
    BY <1>5 DEF EditPermission
  <2>2. rules[g] \in Rules /\ rules \in [DOMAIN rules -> Rules]
    BY <1>5 DEF AppInv, AppRows
  <2>3. rule \in Rules
    BY <1>1, <2>1, <2>2 DEF RuleSaved, SubmittedRules, Rules
  <2>4. AppRows'
    BY <1>2, <1>5, <2>1, <2>2, <2>3 DEF AppInv, AppRows
  <2>5. ASSUME NEW h \in DOMAIN rules', h \notin stale' PROVE rules'[h] \in {{"rest"}, {"xml"}}
    <3>1. h \in DOMAIN rules /\ h \notin stale /\ rules[h] \in SubmittedRules
      BY <2>1, <2>2, <2>5 DEF AppHistory, AppInv, RuleIsExclusive, SubmittedRules
    <3>2. CASE h # g
      BY <2>1, <2>2, <3>1, <3>2 DEF SubmittedRules
    <3>3. CASE h = g
      <4>1. req'[p] # req[p]
        BY <1>1 DEF EditPermission, Finish, Become, Slots, Quiet
      <4>2. req[p].web \/ req[p].copy = rules[g]
        BY <1>1, <2>5, <3>1, <3>3, <4>1 DEF AppHistory, At
      <4>3. rule \in SubmittedRules
        BY <1>1, <2>1, <3>1, <3>3, <4>2, RuleSavedIsExclusive
      <4> QED BY <2>1, <2>2, <3>1, <3>3, <4>3 DEF SubmittedRules
    <3> QED BY <3>2, <3>3
  <2>6. RuleIsExclusive'
    BY <2>5 DEF RuleIsExclusive
  <2> QED BY <1>3, <2>4, <2>6 DEF Tables
<1> QED BY <1>4, <1>5

(***************************************************************************)
(* Every step keeps the invariant.                                         *)
(***************************************************************************)
LEMMA AppStepMoves ==
  ASSUME AppInv, AppHistory, AppStep
  PROVE  /\ Tables' /\ UNCHANGED <<users, orgs, members>>
         /\ \E p \in Requests : AppMoves(p) /\ (JobPlace(req'[p]) => Authorized(p)')
<1>1. ASSUME NEW p \in Requests,
             \/ WebAppRequest(p) \/ ApiAppRequest(p) \/ ReadRoles(p) \/ WebVerdict(p)
             \/ ApiVerdict(p) \/ SearchChangeableRoles(p)
      PROVE  /\ UNCHANGED <<users, orgs, members, appVars>>
             /\ AppMoves(p) /\ (JobPlace(req'[p]) => Authorized(p)')
  <2>1. CASE WebAppRequest(p) \/ ApiAppRequest(p)
    <3>1. UNCHANGED <<users, orgs, members, appVars>>
      BY <2>1 DEF WebAppRequest, ApiAppRequest
    <3>2. PICK q : Arrival(q) /\ Start(p, q)
      BY <2>1, WebArrives, ApiArrives DEF Arrives
    <3> QED BY <3>1, <3>2, ArrivalIsAuthorized DEF AppInv, OrgInv
  <2>2. CASE ReadRoles(p) \/ WebVerdict(p) \/ ApiVerdict(p) \/ SearchChangeableRoles(p)
    <3>1. UNCHANGED <<users, orgs, members, appVars>>
      BY <2>2 DEF ReadRoles, Update, WebVerdict, ApiVerdict, Verdict, SearchChangeableRoles
    <3> QED BY <2>2, <3>1, ReadRolesStep, VerdictStep, SearchStep
  <2> QED BY <1>1, <2>1, <2>2
<1>2. ASSUME UNCHANGED <<users, orgs, members, appVars>> PROVE Tables'
  BY <1>2, ReadingKeepsTables DEF AppInv, Tables
<1>3. ASSUME NEW p \in Requests,
             \/ AuthorizeUsers(p) \/ AuthorizeOrganizations(p) \/ BulkCreateAssignments(p)
             \/ AddUserRole(p) \/ AddOrganizationRole(p)
             \/ RemoveUserRole(p) \/ RemoveOrganizationRole(p)
      PROVE  Tables' /\ UNCHANGED <<users, orgs, members>>
  BY <1>3, AssigningKeepsTables DEF AuthorizeUsers, AuthorizeOrganizations, DestroyAssignments,
     BulkCreateAssignments, AddUserRole, AddOrganizationRole, AddRole, RemoveUserRole,
     RemoveOrganizationRole, RemoveRole
<1>4. ASSUME NEW p \in Requests,
             \/ WebCreateRole(p) \/ WebDeleteRole(p) \/ ApiCreateRole(p) \/ ApiDeleteRole(p)
             \/ WebCreatePermission(p) \/ WebEditPermission(p) \/ WebDeletePermission(p)
             \/ ApiCreatePermission(p) \/ ApiEditPermission(p) \/ ApiDeletePermission(p)
      PROVE  Tables' /\ UNCHANGED <<users, orgs, members>>
  <2>1. CASE CreateRole(p) \/ DeleteRole(p)
    BY <2>1, RoleStepsKeepTables DEF CreateRole, DeleteRole
  <2>2. CASE CreatePermission(p) \/ EditPermission(p) \/ DeletePermission(p)
    BY <2>2, CreatePermissionKeepsTables, EditPermissionKeepsTables, DeletePermissionKeepsTables
       DEF CreatePermission, EditPermission, DeletePermission
  <2> QED BY <1>4, <2>1, <2>2 DEF WebCreateRole, WebDeleteRole, ApiCreateRole, ApiDeleteRole,
             WebCreatePermission, WebEditPermission, WebDeletePermission,
             ApiCreatePermission, ApiEditPermission, ApiDeletePermission
<1>5. ASSUME NEW p \in Requests, DestroyGrants(p) \/ BulkCreateGrants(p) \/ Grant(p) \/ Revoke(p)
      PROVE  Tables' /\ UNCHANGED <<users, orgs, members>>
  BY <1>5, GrantingKeepsTables DEF DestroyGrants, BulkCreateGrants, Grant, Revoke
<1> QED BY <1>1, <1>2, <1>3, <1>4, <1>5, HalfWay, EndingSteps DEF AppStep

LEMMA AppStepKeepsInv == AppInv /\ AppStep /\ OrgHistory /\ AppHistory => AppInv'
<1> SUFFICES ASSUME AppInv, AppStep, OrgHistory, AppHistory PROVE AppInv'
  OBVIOUS
<1>1. Tables' /\ UNCHANGED <<users, orgs, members, group>>
  BY AppStepMoves DEF OrgHistory
<1>2. PICK p \in Requests : AppMoves(p) /\ (JobPlace(req'[p]) => Authorized(p)')
  BY AppStepMoves
<1>3. Moves(p) /\ Advances(p) /\ Holds(p) /\ req'[p].pc \notin Inserting
  BY <1>2, AppMovesMove DEF AppInv, OrgInv
<1>4. OrgInv'
  BY <1>1, <1>3, SameTables, OrderlyKeepsOrgInv DEF AppInv, OrgInv
<1>5. RoleInv'
  BY <1>1, <1>3, OthersStay, NothingInserted DEF AppInv, OrgInv
<1>6. AppPlaces'
  BY <1>2, MovesKeepPlaces DEF AppInv, OrgInv
<1>7. AppAuthorized'
  BY <1>2, MovesKeepAuthorized DEF AppInv
<1> QED BY <1>1, <1>4, <1>5, <1>6, <1>7 DEF AppInv, Tables

LEMMA OrgStepKeepsInv == AppInv /\ OrgStepHere /\ OrgHistory /\ AppHistory => AppInv'
<1> SUFFICES ASSUME AppInv, OrgStepHere, OrgHistory, AppHistory PROVE AppInv'
  OBVIOUS
<1>1. OrgInv /\ RoleInv /\ OrgStep /\ UNCHANGED group
  BY DEF AppInv, OrgStepHere, OrgHistory
<1>2. OrgInv' /\ RoleInv'
  BY <1>1, OrgStepKeepsOrgInv, OrgStepKeepsRoleInv
<1>3. (\E p \in Requests : OrgMoves(p)) \/ UNCHANGED req
  BY <1>1, OrgStepMoves DEF OrderlyStep, DeleteAccount
<1>4. AppPlaces'
  <2>1. CASE UNCHANGED req
    BY <2>1 DEF AppInv, AppPlaces, AppPlace
  <2> QED BY <1>3, <2>1, MovesKeepPlaces DEF AppInv, OrgInv
<1>5. AppAuthorized'
  <2>1. CASE UNCHANGED req
    BY <2>1, OthersStayAuthorized DEF AppInv, AppAuthorized
  <2> QED BY <1>3, <2>1, MovesKeepAuthorized DEF AppInv
<1>6. AppRows' /\ InternalRolesKeepTheirPermissions'
  BY DEF OrgStepHere, AppInv, AppRows, InternalRolesKeepTheirPermissions
<1>7. RuleIsExclusive'
  BY SameRules DEF AppInv, OrgStepHere
<1> QED BY <1>2, <1>4, <1>5, <1>6, <1>7 DEF AppInv

LEMMA StutteringKeepsInv == AppInv /\ UNCHANGED vars => AppInv'
<1> SUFFICES ASSUME AppInv, UNCHANGED vars PROVE AppInv'
  OBVIOUS
<1>1. OrgInv'
  BY DEF vars, orgVars, AppInv, OrgInv, OrgRows, MembersFk, MemberFk, Slots, OrgPlaces, OrgPlace,
     OwnerSince, HeldRows, HeldRow
<1>2. RoleInv'
  BY DEF vars, orgVars, AppInv, RoleInv, OneRole, HasEmptyOrg, MembersOf
<1>3. AppRows' /\ AppPlaces' /\ AppAuthorized'
  BY DEF vars, orgVars, appVars, AppInv, AppRows, AppPlaces, AppPlace, AppAuthorized, Authorized
<1>4. InternalRolesKeepTheirPermissions' /\ RuleIsExclusive'
  BY DEF vars, appVars, AppInv, InternalRolesKeepTheirPermissions, RuleIsExclusive
<1> QED BY <1>1, <1>2, <1>3, <1>4 DEF AppInv

LEMMA InitKeepsInv == Init => AppInv
<1> SUFFICES ASSUME Init PROVE AppInv
  OBVIOUS
<1>1. OrgInv /\ RoleInv
  BY OrgInitInv, OrgInitRoleInv DEF Init
<1>2. PICK s \in Starts[group] :
        /\ roles = s.roles
        /\ rules = s.rules
        /\ rp = InternalGrants \union s.grants
        /\ assign = {a \in s.assign : AssignmentFk(a, users, orgs, roles)}
  BY DEF Init
<1>3. /\ s.roles \subseteq CustomRoles /\ DOMAIN s.rules \subseteq CustomPermissions
      /\ s.rules \in [DOMAIN s.rules -> {{"rest"}, {"xml"}}]
      /\ s.grants \subseteq s.roles \X (InternalPermissions \union DOMAIN s.rules)
      /\ s.assign \subseteq [to: Assignees, role: s.roles \union InternalRoles]
  BY <1>2, StartsAssumption DEF Init, OrgInit
<1>4. InternalRolesKeepTheirPermissions
  BY <1>2, <1>3, CustomAssumption DEF InternalRolesKeepTheirPermissions, InternalGrants,
     InternalRoles
<1>5. RuleIsExclusive
  BY <1>2, <1>3 DEF RuleIsExclusive
<1>6. \A g \in rp : GrantFk(g, roles, DOMAIN rules)
  BY <1>2, <1>3 DEF GrantFk, LiveRole, LivePermission, InternalGrants, InternalRoles,
     InternalPermissions
<1>7. assign \subseteq Assignment
  BY <1>2, <1>3 DEF Assignment, Roles
<1>8. rules \in [DOMAIN rules -> Rules]
  BY <1>2, <1>3 DEF Rules
<1>9. AppRows
  BY <1>2, <1>3, <1>6, <1>7, <1>8 DEF AppRows, Init
<1>10. AppPlaces /\ AppAuthorized
  BY LostIsOrg, OrgIsNotJob DEF AppPlaces, AppAuthorized, Authorized, Init, OrgInit
<1> QED BY <1>1, <1>4, <1>5, <1>9, <1>10 DEF AppInv

\* The inductive invariant holds throughout.
THEOREM AppInvariant == Spec => []AppInv
<1>1. AppInv /\ [Next]_vars => AppInv'
  BY AppStepKeepsInv, OrgStepKeepsInv, StutteringKeepsInv DEF Next
<1> QED BY <1>1, InitKeepsInv, PTL DEF Spec

(***************************************************************************)
(* The theorems.                                                           *)
(***************************************************************************)
\* Rows refer to rows, ids are unique, and requests are well-formed.
THEOREM AppTypes == Spec => []AppTypeOK
<1>1. AppInv => AppTypeOK
  BY OrgInvTypes DEF AppInv, AppTypeOK, AppRows, AppPlaces, AppPlace, JobPlace, GrantFk, LiveRole,
     LivePermission, AssignmentFk
<1> QED BY <1>1, AppInvariant, PTL

\* Provider and purchaser keep exactly the permissions they were installed with,
\* whatever forms name them and whatever roles or permissions are deleted.
THEOREM InternalRolesKeep == Spec => []InternalRolesKeepTheirPermissions
<1>1. AppInv => InternalRolesKeepTheirPermissions
  BY DEF AppInv
<1> QED BY <1>1, AppInvariant, PTL

\* A permission has a rule in one form, unless an update of it was saved from a
\* copy that another update had outdated.
THEOREM RulesAreExclusive == Spec => []RuleIsExclusive
<1>1. AppInv => RuleIsExclusive
  BY DEF AppInv
<1> QED BY <1>1, AppInvariant, PTL

\* The form that replaces the members of an organization leaves nobody with two
\* roles, however many owners submit it at once and whatever happens in between.
THEOREM FormsKeepOneRole == Spec => []FormKeepsOneRole
<1>1. AppInv => FormKeepsOneRole
  BY RoleInvOneRole DEF AppInv
<1> QED BY <1>1, AppInvariant, PTL

\* The members of an organization change only at the hands of a request that has
\* passed the owner check, or creates it, or leaves it, or with their accounts.
THEOREM MembersAreChangedByOwners == Spec => MembersChangedByOwners
<1>1. AppInv /\ Next => OwnersChange
  <2>1. AppInv /\ AppStep /\ AppHistory => OwnersChange
    BY AppStepMoves, NoMemberChanges DEF AppInv
  <2> QED BY <2>1, MembersChange DEF Next, OrgStepHere, AppInv
<1>2. AppInv /\ [Next]_vars => [OwnersChange]_orgVars
  BY <1>1 DEF vars
<1> QED BY <1>2, AppInvariant, PTL DEF Spec, MembersChangedByOwners, OwnersChange, KeepsMembers

\* What the two action properties say of a step.
AssignersAct ==
    \A a \in (assign \ assign') \union (assign' \ assign) :
        AssignmentFk(a, users', orgs', roles') =>
            \E p \in Requests : /\ Works(p) /\ req[p].kind \in AssignKinds
                                /\ MayAssign(p, a.role)
ManagersAct ==
    <<roles, rules, rp>>' # <<roles, rules, rp>> =>
        \E p \in Requests : /\ Works(p) /\ req[p].kind \in AccessKinds
                            /\ "3" \in powers[p]

\* A request at the statements behind its check.
LEMMA PastTheCheck ==
  ASSUME AppInv, NEW p \in Requests, req'[p].pc # req[p].pc
  PROVE  /\ req[p].pc \in AssignKinds \union {"bulkAssign"} =>
              /\ Works(p) /\ req[p].kind \in AssignKinds /\ Wanted(req[p]) \subseteq req[p].can
              /\ \A r \in req[p].can : MayAssign(p, r)
              /\ req[p].kind = (IF req[p].pc = "bulkAssign" THEN "authorize" ELSE req[p].pc)
         /\ req[p].pc \in AccessKinds \union {"bulkGrant"} =>
              Works(p) /\ req[p].kind \in AccessKinds /\ "3" \in powers[p]
<1>1. CASE req[p].pc \in AssignKinds \union {"bulkAssign"}
  <2>1. JobPlace(req[p]) /\ Authorized(p)
    BY <1>1, JobInPlace DEF AppSteps
  <2> QED BY <1>1, <2>1 DEF JobPlace, JobKinds, Authorized, Covered, May, MayAssign, Works,
             AssignKinds, AccessKinds
<1>2. CASE req[p].pc \in AccessKinds \union {"bulkGrant"}
  <2>1. JobPlace(req[p]) /\ Authorized(p)
    BY <1>2, JobInPlace DEF AppSteps
  <2> QED BY <1>2, <2>1 DEF JobPlace, JobKinds, Authorized, Covered, Works, AssignKinds, AccessKinds
<1> QED BY <1>1, <1>2 DEF AssignKinds, AccessKinds

\* Every step of a request leaves the place it was at.
LEMMA Leaves ==
  ASSUME AppInv, NEW p \in Requests,
         \/ Finish(p) \/ (\E pc : Goto(p, pc) /\ pc # req[p].pc),
         req[p].pc \in AppSteps
  PROVE  req'[p].pc # req[p].pc
<1>1. JobPlace(req[p]) /\ Slots /\ req[p].pc # "idle"
  BY JobInPlace DEF At
<1> QED BY <1>1 DEF Finish, Goto, Become, Slots, Quiet, JobPlace, Job

LEMMA AssigningSteps ==
  ASSUME AppInv, NEW p \in Requests,
         \/ AuthorizeUsers(p) \/ AuthorizeOrganizations(p) \/ BulkCreateAssignments(p)
         \/ AddUserRole(p) \/ AddOrganizationRole(p) \/ RemoveUserRole(p)
         \/ RemoveOrganizationRole(p)
  PROVE  AssignersAct /\ UNCHANGED <<roles, rules, rp>>
<1>1. UNCHANGED <<roles, rules, rp>>
  BY DEF AuthorizeUsers, AuthorizeOrganizations, DestroyAssignments, BulkCreateAssignments,
     AddUserRole, AddOrganizationRole, AddRole, RemoveUserRole, RemoveOrganizationRole, RemoveRole
<1>2. req[p].pc \in AssignKinds \union {"bulkAssign"} /\ req[p].pc \in AppSteps
  BY DEF AuthorizeUsers, AuthorizeOrganizations, DestroyAssignments, BulkCreateAssignments,
     AddUserRole, AddOrganizationRole, AddRole, RemoveUserRole, RemoveOrganizationRole, RemoveRole,
     At, AssignKinds, AppSteps
<1>3. req'[p].pc # req[p].pc
  BY <1>2, Leaves DEF AuthorizeUsers, AuthorizeOrganizations, DestroyAssignments,
     BulkCreateAssignments, AddUserRole, AddOrganizationRole, AddRole, RemoveUserRole,
     RemoveOrganizationRole, RemoveRole, At
<1>4. /\ Works(p) /\ req[p].kind \in AssignKinds /\ Wanted(req[p]) \subseteq req[p].can
      /\ \A r \in req[p].can : MayAssign(p, r)
      /\ req[p].kind = (IF req[p].pc = "bulkAssign" THEN "authorize" ELSE req[p].pc)
  BY <1>2, <1>3, PastTheCheck
<1>5. \A a \in (assign \ assign') \union (assign' \ assign) : a.role \in req[p].can
  <2>1. CASE AuthorizeUsers(p) \/ AuthorizeOrganizations(p)
    BY <2>1 DEF AuthorizeUsers, AuthorizeOrganizations, DestroyAssignments
  <2>2. CASE BulkCreateAssignments(p)
    <3>1. \A a \in req[p].form : a.role \in req[p].can
      BY <1>4, <2>2 DEF BulkCreateAssignments, At, Wanted
    <3> QED BY <2>2, <3>1 DEF BulkCreateAssignments
  <2>3. CASE AddRole(p) \/ RemoveRole(p)
    <3>1. req[p].role \in req[p].can
      BY <1>4, <2>3 DEF AddRole, RemoveRole, At, Wanted
    <3> QED BY <2>3, <3>1 DEF AddRole, RemoveRole
  <2> QED BY <2>1, <2>2, <2>3 DEF AddUserRole, AddOrganizationRole, RemoveUserRole,
             RemoveOrganizationRole
<1> QED BY <1>1, <1>4, <1>5 DEF AssignersAct

LEMMA ManagingSteps ==
  ASSUME AppInv, NEW p \in Requests,
         \/ CreateRole(p) \/ DeleteRole(p) \/ CreatePermission(p) \/ EditPermission(p)
         \/ DeletePermission(p) \/ DestroyGrants(p) \/ BulkCreateGrants(p) \/ Grant(p)
         \/ Revoke(p)
  PROVE  AssignersAct /\ ManagersAct
<1>1. AssignersAct
  BY DEF CreateRole, DeleteRole, CreatePermission, EditPermission, DeletePermission,
     DestroyGrants, BulkCreateGrants, Grant, Revoke, AssignersAct
<1>2. req[p].pc \in AccessKinds \union {"bulkGrant"} /\ req[p].pc \in AppSteps
  BY DEF CreateRole, DeleteRole, CreatePermission, EditPermission, DeletePermission,
     DestroyGrants, BulkCreateGrants, Grant, Revoke, At, AccessKinds, AppSteps
<1>3. req'[p].pc # req[p].pc
  BY <1>2, Leaves DEF CreateRole, DeleteRole, CreatePermission, EditPermission,
     DeletePermission, DestroyGrants, BulkCreateGrants, Grant, Revoke, At
<1>4. ManagersAct
  BY <1>2, <1>3, PastTheCheck DEF ManagersAct
<1> QED BY <1>1, <1>4

LEMMA ActorsAct == AppInv /\ Next => AssignersAct /\ ManagersAct
<1> SUFFICES ASSUME AppInv, Next PROVE AssignersAct /\ ManagersAct
  OBVIOUS
<1>1. CASE OrgStepHere
  BY <1>1 DEF OrgStepHere, AssignersAct, ManagersAct
<1>2. CASE UNCHANGED appVars
  BY <1>2 DEF appVars, AssignersAct, ManagersAct
<1>3. UNCHANGED <<roles, rules, rp>> => ManagersAct
  BY DEF ManagersAct
<1>4. ASSUME NEW p \in Requests,
             \/ WebAppRequest(p) \/ ApiAppRequest(p) \/ ReadRoles(p) \/ WebVerdict(p)
             \/ ApiVerdict(p) \/ SearchChangeableRoles(p)
      PROVE  UNCHANGED appVars
  BY <1>4 DEF WebAppRequest, ApiAppRequest, ReadRoles, Update, WebVerdict, ApiVerdict, Verdict,
     SearchChangeableRoles
<1>5. CASE AppStep
  BY <1>2, <1>3, <1>4, <1>5, AssigningSteps, ManagingSteps
     DEF AppStep, WebCreateRole, WebDeleteRole, ApiCreateRole, ApiDeleteRole,
         WebCreatePermission, WebEditPermission, WebDeletePermission,
         ApiCreatePermission, ApiEditPermission, ApiDeletePermission
<1> QED BY <1>1, <1>5 DEF Next

\* A role is assigned or taken away only by a request whose user has had, since it
\* came, the permission that covers the role; or its row goes with what it refers to.
THEOREM AssignersHaveAuthority == Spec => AssignmentsNeedAuthority
<1>1. AppInv /\ [Next]_vars => [AssignersAct]_vars
  BY ActorsAct
<1> QED BY <1>1, AppInvariant, PTL DEF Spec, AssignmentsNeedAuthority, AssignersAct

\* Roles, permissions and grants change only at the hands of a request whose user
\* has had permission "3" since it came.
THEOREM ManagersHavePermission == Spec => AccessControlNeedsManager
<1>1. AppInv /\ [Next]_vars => [ManagersAct]_vars
  BY ActorsAct
<1> QED BY <1>1, AppInvariant, PTL DEF Spec, AccessControlNeedsManager, ManagersAct
=============================================================================
