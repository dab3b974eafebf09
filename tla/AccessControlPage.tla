------------------------- MODULE AccessControlPage -------------------------
(***************************************************************************)
(* The page on which an application's administrator edits its roles and    *)
(* permissions and says which role has which: the state the scripts keep   *)
(* in the browser, the requests they send while the administrator goes on, *)
(* and the form that in the end replaces the assignments of every role it  *)
(* names.  Other administrators are the subject of AppAuthorization.       *)
(*                                                                         *)
(* A permission's contents, usage policies and the names are left out.     *)
(***************************************************************************)
EXTENDS Integers, FiniteSets, Keys

CONSTANTS
    Custom,         \* roles of the application, there or still to come
    InternalRole,   \* a role that every application has
    Extra,          \* permissions of the application, there or still to come
    InternalPermission,
    GrantsBefore,   \* what the tables may hold when the page is asked for
    MaxClicks       \* what the administrator does on the page

ASSUME PageAssumption ==
    /\ MaxClicks \in Nat
    /\ None \notin Custom /\ InternalRole \notin Custom /\ InternalRole # None
    /\ InternalPermission \notin Extra

VARIABLES
    kept,       \* the tables: custom roles, permissions and who has which
    calls,      \* requests sent by scripts whose answers have not come
    shown,      \* rows of the page: roles, permissions, and rows turned into a field
    assign,     \* role_permission_assign; what is filed under "undefined" is None's
    selected,   \* the role whose row is active, or None
    viewed,     \* the role whose permissions the panel shows, or None
    marks,      \* permissions that the panel shows as given
    saving,     \* how far the form has come
    body,       \* what it sent
    clicks,
    wished,     \* history: the permissions the page last showed for each role
    strayed,    \* history: a permission was clicked for a role that is not the active one
    hurried     \* history: the form was sent with a request unanswered, or another
                \* request before the page's lists came

pageVars == <<kept, calls, shown, assign, selected, viewed, marks, saving, body, clicks,
              wished, strayed, hurried>>

PageRoles == Custom \union {InternalRole}
PagePermissions == Extra \union {InternalPermission}
Nobody == [r \in {} |-> {}]
Kept == [roles: SUBSET Custom, permissions: SUBSET Extra,
         grants: SUBSET (Custom \X PagePermissions)]
ASSUME GrantsAssumption ==
    \A k \in GrantsBefore :
        k \in Kept /\ k.grants \subseteq k.roles \X (k.permissions \union {InternalPermission})
CallKinds == {"load", "create role", "rename", "delete role", "create permission",
              "delete permission"}

PageTypeOK ==
    /\ kept.roles \subseteq Custom /\ kept.permissions \subseteq Extra
    /\ kept.grants \subseteq kept.roles \X (kept.permissions \union {InternalPermission})
    /\ \A c \in calls : c.kind \in CallKinds /\ c.step \in {"asked", "done", "refused"}
    /\ shown.roles \subseteq PageRoles /\ shown.permissions \subseteq PagePermissions
    /\ shown.fields \subseteq shown.roles
    /\ \A r \in DOMAIN assign : r \in PageRoles \union {None} /\ assign[r] \subseteq PagePermissions
    /\ selected \in PageRoles \union {None} /\ viewed \in PageRoles \union {None}
    /\ marks \subseteq PagePermissions
    /\ saving \in {"editing", "sent", "destroyed", "saved", "failed"}

Given(r) == IF r \in DOMAIN assign THEN assign[r] ELSE {}
Assigned(r, ps) ==
    [x \in DOMAIN assign \union {r} |-> IF x = r THEN ps ELSE assign[x]]
Has(r) == {g[2] : g \in {x \in kept.grants : x[1] = r}}

ServerSide == <<kept, saving, body>>
PageLists == <<shown, assign, wished>>
Panel == <<selected, viewed, marks>>
Clicks ==
    /\ saving = "editing" /\ clicks < MaxClicks
    /\ clicks' = clicks + 1
    /\ UNCHANGED ServerSide
OnPage == Clicks /\ UNCHANGED <<calls, hurried>>

UnknownToCalls(x) == \A c \in calls : c.about # x
Request(kind, x) ==
    /\ Clicks
    /\ \A c \in calls : <<c.kind, c.about>> # <<kind, x>>
    /\ calls' = calls \union {[kind |-> kind, about |-> x, step |-> "asked", read |-> Nobody]}
    /\ hurried' = (hurried \/ ~UnknownToCalls(None))
    /\ UNCHANGED strayed

(***************************************************************************)
(* Roles.                                                                  *)
(***************************************************************************)
\* An internal role shows internal permissions only; the marks of the others are hidden
\* and stay what they are.
ShowPermissions(r) ==
    /\ viewed' = r
    /\ marks' = IF r = InternalRole
                THEN (marks \ {InternalPermission}) \union (Given(r) \intersect {InternalPermission})
                ELSE Given(r) \intersect shown.permissions

SelectRole ==
    /\ OnPage
    /\ \E r \in shown.roles \ shown.fields : ShowPermissions(r) /\ selected' = r
    /\ UNCHANGED <<PageLists, strayed>>

\* The click that turns a row into a field is also a click on the row, which by then is no
\* part of the page.
EditRole ==
    /\ OnPage
    /\ \E r \in (shown.roles \ shown.fields) \ {InternalRole} :
        /\ ShowPermissions(r)
        /\ shown' = [shown EXCEPT !.fields = @ \union {r}]
        /\ selected' = IF selected = r THEN None ELSE selected
    /\ UNCHANGED <<assign, wished, strayed>>

\* A new row takes the field's place.
RowAgain(r) ==
    /\ shown' = [shown EXCEPT !.fields = @ \ {r}]
    /\ selected' = IF selected = r THEN None ELSE selected
    /\ UNCHANGED <<assign, wished, viewed, marks>>
CancelEdit == OnPage /\ UNCHANGED strayed /\ \E r \in shown.fields : RowAgain(r)
Rename == \E r \in shown.fields : Request("rename", r) /\ UNCHANGED <<PageLists, Panel>>

CreateRole ==
    \E r \in Custom \ (shown.roles \union kept.roles) :
        UnknownToCalls(r) /\ Request("create role", r) /\ UNCHANGED <<PageLists, Panel>>
DeleteRole ==
    \E r \in (shown.roles \ shown.fields) \ {InternalRole} :
        /\ Request("delete role", r)
        /\ ShowPermissions(r) /\ selected' = r /\ UNCHANGED PageLists

(***************************************************************************)
(* Permissions.                                                            *)
(***************************************************************************)
\* The role is the one whose row is active, the mark the one on the panel.
SelectPermission ==
    /\ OnPage
    /\ viewed # None
    /\ \E q \in IF viewed = InternalRole THEN {InternalPermission} ELSE shown.permissions :
        IF selected = InternalRole THEN UNCHANGED <<assign, marks, wished>>
        ELSE /\ assign' = Assigned(selected, IF q \in marks THEN Given(selected) \ {q}
                                                            ELSE Given(selected) \union {q})
             /\ marks' = IF q \in marks THEN marks \ {q} ELSE marks \union {q}
             /\ wished' = [wished EXCEPT ![viewed] = marks' \intersect shown.permissions]
    /\ strayed' = (strayed \/ viewed # selected)
    /\ UNCHANGED <<shown, selected, viewed>>

CreatePermission ==
    /\ InternalRole \in shown.roles
    /\ \E q \in Extra \ (shown.permissions \union kept.permissions) :
        UnknownToCalls(q) /\ Request("create permission", q) /\ UNCHANGED <<PageLists, Panel>>
DeletePermission ==
    \E q \in shown.permissions \ {InternalPermission} :
        /\ viewed \notin {None, InternalRole}
        /\ Request("delete permission", q) /\ UNCHANGED <<PageLists, Panel>>

(***************************************************************************)
(* The server, one request at a time, and its answers, in any order.       *)
(***************************************************************************)
Step(c, step) == calls' = (calls \ {c}) \union {[c EXCEPT !.step = step]}
ServeLoad(c) ==
    /\ c.kind = "load"
    /\ calls' = (calls \ {c}) \union {[c EXCEPT !.step = "done", !.read = kept]}
    /\ UNCHANGED kept
ServeRole(c) ==
    \/ /\ c.kind = "create role" /\ Step(c, "done")
       /\ kept' = [kept EXCEPT !.roles = @ \union {c.about}]
    \/ c.kind = "rename" /\ Step(c, "done") /\ UNCHANGED kept
    \/ /\ c.kind = "delete role" /\ Step(c, IF c.about \in kept.roles THEN "done" ELSE "refused")
       /\ kept' = [kept EXCEPT !.roles = @ \ {c.about},
                               !.grants = {g \in @ : g[1] # c.about}]
ServePermission(c) ==
    \/ /\ c.kind = "create permission" /\ Step(c, "done")
       /\ kept' = [kept EXCEPT !.permissions = @ \union {c.about}]
    \/ /\ c.kind = "delete permission"
       /\ Step(c, IF c.about \in kept.permissions THEN "done" ELSE "refused")
       /\ kept' = [kept EXCEPT !.permissions = @ \ {c.about},
                               !.grants = {g \in @ : g[2] # c.about}]
Serve ==
    /\ \E c \in calls :
        c.step = "asked" /\ (ServeLoad(c) \/ ServeRole(c) \/ ServePermission(c))
    /\ UNCHANGED <<PageLists, Panel, saving, body, clicks, strayed, hurried>>

Drop(c) == calls' = calls \ {c}
ParseValues(c) ==
    /\ c.kind = "load" /\ c.step = "done" /\ Drop(c)
    /\ LET read == c.read
           of == [r \in PageRoles |-> {g[2] : g \in {x \in read.grants : x[1] = r}}] IN
        /\ shown' = [shown EXCEPT !.roles = @ \union read.roles \union {InternalRole},
                                  !.permissions = read.permissions \union {InternalPermission}]
        /\ assign' = [r \in {x \in Custom : of[x] # {}} \union {InternalRole} |->
                        IF r = InternalRole THEN {InternalPermission} ELSE of[r]]
        /\ wished' = [r \in PageRoles |->
                        IF r = InternalRole THEN {InternalPermission} ELSE of[r]]
    /\ UNCHANGED Panel
RoleAdded(c) ==
    /\ c.kind = "create role" /\ c.step = "done" /\ Drop(c)
    /\ shown' = [shown EXCEPT !.roles = @ \union {c.about}]
    /\ UNCHANGED <<assign, wished, Panel>>
Renamed(c) == c.kind = "rename" /\ c.step = "done" /\ Drop(c) /\ RowAgain(c.about)
RoleRemoved(c) ==
    /\ c.kind = "delete role" /\ c.step = "done" /\ Drop(c)
    /\ shown' = [shown EXCEPT !.roles = @ \ {c.about}, !.fields = @ \ {c.about}]
    /\ assign' = [r \in DOMAIN assign \ {c.about} |-> assign[r]]
    /\ wished' = [wished EXCEPT ![c.about] = {}]
    /\ viewed' = None /\ selected' = (IF selected = c.about THEN None ELSE selected)
    /\ UNCHANGED marks
PermissionAdded(c) ==
    /\ c.kind = "create permission" /\ c.step = "done" /\ Drop(c)
    /\ shown' = [shown EXCEPT !.permissions = @ \union {c.about}]
    /\ UNCHANGED <<assign, wished, Panel>>

\* (mutant) The permission's row goes, and the roles keep it.
PermissionRowRemoved(c) ==
    /\ c.kind = "delete permission" /\ c.step = "done" /\ Drop(c)
    /\ shown' = [shown EXCEPT !.permissions = @ \ {c.about}]
    /\ wished' = [r \in PageRoles |-> wished[r] \ {c.about}]
    /\ marks' = marks \ {c.about} /\ viewed' = None
    /\ UNCHANGED <<assign, selected>>

PermissionRemoved(c) ==
    /\ c.kind = "delete permission" /\ c.step = "done" /\ Drop(c)
    /\ shown' = [shown EXCEPT !.permissions = @ \ {c.about}]
    /\ assign' = [r \in DOMAIN assign |-> assign[r] \ {c.about}]
    /\ wished' = [r \in PageRoles |-> wished[r] \ {c.about}]
    /\ marks' = marks \ {c.about} /\ viewed' = None
    /\ UNCHANGED selected
Refused(c) == c.step = "refused" /\ Drop(c) /\ UNCHANGED <<PageLists, Panel>>
AnswerCall ==
    /\ saving = "editing"
    /\ \E c \in calls :
        \/ ParseValues(c) \/ RoleAdded(c) \/ Renamed(c) \/ RoleRemoved(c)
        \/ PermissionAdded(c) \/ PermissionRemoved(c) \/ Refused(c)
    /\ UNCHANGED <<ServerSide, clicks, strayed, hurried>>

(***************************************************************************)
(* Saving: the roles that the page has a list for, but the internal one,   *)
(* lose what they have, and one statement adds what the lists say.         *)
(***************************************************************************)
SubmitAssign ==
    /\ saving = "editing" /\ saving' = "sent"
    /\ body' = assign /\ hurried' = (hurried \/ calls # {})
    /\ UNCHANGED <<kept, calls, PageLists, Panel, clicks, strayed>>
Save(step) ==
    saving' = step /\ UNCHANGED <<calls, PageLists, Panel, body, clicks, strayed, hurried>>
Named == DOMAIN body \ {InternalRole}
DestroyAssigned ==
    /\ saving = "sent"
    /\ Save(IF Named = {} THEN "saved" ELSE "destroyed")
    /\ kept' = [kept EXCEPT !.grants = {g \in @ : g[1] \notin Named}]
BulkCreateAssigned ==
    LET all == UNION {{r} \X body[r] : r \in Named} IN
    /\ saving = "destroyed"
    /\ IF all \subseteq kept.roles \X (kept.permissions \union {InternalPermission})
       THEN Save("saved") /\ kept' = [kept EXCEPT !.grants = @ \union all]
       ELSE Save("failed") /\ UNCHANGED kept

PageStep ==
    \/ SelectRole \/ EditRole \/ CancelEdit \/ Rename \/ CreateRole \/ DeleteRole
    \/ SelectPermission \/ CreatePermission \/ DeletePermission
    \/ Serve \/ AnswerCall
    \/ SubmitAssign \/ DestroyAssigned \/ BulkCreateAssigned

PageInit ==
    /\ kept \in GrantsBefore
    /\ calls = {[kind |-> "load", about |-> None, step |-> "asked", read |-> Nobody]}
    /\ shown = [roles |-> {}, permissions |-> {}, fields |-> {}]
    /\ assign = Nobody /\ selected = None /\ viewed = None /\ marks = {}
    /\ saving = "editing" /\ body = Nobody /\ clicks = 0
    /\ wished = [r \in PageRoles |-> {}] /\ strayed = FALSE /\ hurried = FALSE

PageSpec == PageInit /\ [][PageStep]_pageVars

(***************************************************************************)
(* Properties.                                                             *)
(***************************************************************************)
\* What is saved is, for every role, what the page last showed for it, whatever roles and
\* permissions came, went and were looked at in between; as long as no permission was
\* clicked while the panel showed another role than the active one, no request was waiting
\* for its answer when the form was sent, and none was sent before the page had its lists.
GrantsAreWhatThePageShowed ==
    saving \in {"saved", "failed"} /\ ~strayed /\ ~hurried =>
        /\ saving = "saved"
        /\ \A r \in kept.roles : Has(r) = wished[r]
=============================================================================
