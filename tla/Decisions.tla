----------------------------- MODULE Decisions -----------------------------
(***************************************************************************)
(* What Keyrock answers to a service that asks about a token, a list of    *)
(* roles or a credential: whose it is, which roles its holder plays in the *)
(* application, and whether they permit an action on a resource.           *)
(*                                                                         *)
(* An answer is put together from up to seven queries, some in a row and   *)
(* some side by side, while administrators go on changing the tables.  The *)
(* rows the queries read are kept as a set of facts; each of the requests  *)
(* that change them (AppAuthorization, Organizations, Applications) does   *)
(* so row by row.                                                          *)
(***************************************************************************)
EXTENDS Integers, Keys

CONSTANTS
    JwtApps,                \* applications whose tokens are JWTs
    Organizations, Roles,   \* the roles of applications, and the internal ones
    Attributes,             \* what a user may consent to share
    Permissions,            \* records: what each permits (see Matches)
    Questions,              \* what services ask
    Beginnings,             \* the facts to start from
    MaxChanges,             \* changes to the tables while one question is answered
    PayloadLevel            \* whether rules about payloads are honoured

ASSUME DecisionAssumption == MaxChanges \in Nat /\ PayloadLevel \in BOOLEAN

VARIABLES
    facts,      \* rows of the tables, one tuple for each
    question,   \* the question being answered
    changes,    \* how often the tables have changed since it came
    ever,       \* history: what was a fact at some time since it came
    always      \* history: what has been a fact all the time since

decisionVars == <<facts, question, changes, ever, always>>

Internal == {"provider", "purchaser"}
Statuses == {"owner", "member"}
PermissionRow == [app: Apps, action: {"get", "post"}, covers: SUBSET {"x", "y"},
                  header: {"none", "tenant"}, ids: SUBSET {"x", "y"}]
Question == [kind: {"bearer", "jwt", "idToken", "opa", "credential"}, user: Users, holder: Apps,
             app: Apps \union {None}, decide: BOOLEAN, roles: SUBSET Roles,
             action: {"get", "post"}, resource: {"x", "y"}, header: {"none", "tenant"},
             ids: SUBSET {"x", "y"}]

ASSUME QuestionsAssumption == Questions \subseteq Question /\ Permissions \subseteq PermissionRow

\* <<"belongs", user, organization, status>>        user_organization
\* <<"plays", user, role, app>>                     role_assignment
\* <<"staffs", organization, status, role, app>>    role_assignment
\* <<"grants", role, permission>>                   role_permission
\* <<"permission", permission>>                     permission
\* <<"consents", user, app, attribute>>             user_authorized_application
\* <<"domain", app>>                                authzforce
\* <<"trusts", app, app>>                           trusted_application
\* <<"application", app>>                           oauth_client
Nothing == [pc |-> "none", q |-> None, app |-> None, shared |-> {}, trusted |-> {},
            belongs |-> {}, all |-> {}, granted |-> {}, domain |-> {}, todo |-> {},
            answer |-> "none"]

FactsOK(F) ==
    /\ \A f \in F : f[1] \in {"belongs", "plays", "staffs", "grants", "permission",
                              "consents", "domain", "trusts", "application"}
    /\ \A f \in F : f[1] = "grants" => <<"permission", f[3]>> \in F

\* The tables a behaviour starts from are such tables.
ASSUME BeginningsAssumption == \A b \in Beginnings : FactsOK(b)

DecisionTypeOK ==
    /\ FactsOK(facts)
    /\ question.q \in Questions \union {None}
    /\ question.all \subseteq Roles /\ question.granted \subseteq Permissions
    /\ question.shared \subseteq Attributes /\ changes \in 0 .. MaxChanges

Doing(pc) == question.pc = pc
Still == UNCHANGED <<facts, changes>>
Answer(answer) == question' = [question EXCEPT !.pc = "answered", !.answer = answer]

(***************************************************************************)
(* The question, and whose token it is about.                              *)
(***************************************************************************)
\* A list of roles or a credential names its application; a token need not.
Ask ==
    /\ Doing("none")
    /\ \E q \in {x \in Questions : x.kind # "idToken"} :
        question' = [Nothing EXCEPT
            !.q = q, !.app = q.app,
            !.all = IF q.kind \in {"opa", "credential"} THEN q.roles ELSE {},
            !.pc = IF q.kind = "opa" THEN "grants"
                   ELSE IF q.kind = "credential" THEN "credential"
                   ELSE IF q.app # None THEN "application" ELSE "bearer"]
    /\ changes' = 0
    /\ UNCHANGED facts

\* What an ID token says of its user is put together in the same way.
GenerateIdToken ==
    /\ Doing("none")
    /\ \E q \in {x \in Questions : x.kind = "idToken"} :
        question' = [Nothing EXCEPT !.q = q, !.pc = "consent"]
    /\ changes' = 0
    /\ UNCHANGED facts

\* The asking application decides how the token is checked.
FindApplication ==
    /\ Doing("application")
    /\ LET a == question.app IN
       \/ <<"application", a>> \notin facts /\ Answer("Unauthorized")
       \/ /\ <<"application", a>> \in facts
          /\ question' = [question EXCEPT !.pc = IF a \in JwtApps THEN "jwt" ELSE "bearer"]
    /\ Still

\* The claims of a JWT that verifies, with the secret of the application it was made for,
\* say who its user is; one that does not is tried as a bearer token.
AuthenticateJwt ==
    /\ Doing("jwt")
    /\ question' = [question EXCEPT !.pc = IF question.q.kind = "jwt" /\ question.q.holder = question.app
                                      THEN "consent" ELSE "bearer"]
    /\ Still

\* The token's row may be gone or expired, and it may be an application's own, or an IoT
\* agent's, whose answer has no decision in it.
AuthenticateBearer ==
    /\ Doing("bearer")
    /\ \/ Answer("Unauthorized")
       \/ question.q.kind = "bearer" /\ Answer("NoUser")
       \/ question.q.kind = "bearer" /\ question' = [question EXCEPT !.pc = "consent"]
    /\ Still

CreateOauthResponse ==
    /\ Doing("consent")
    /\ LET q == question.q IN
        question' = [question EXCEPT
            !.pc = "search",
            !.shared = {x \in Attributes : <<"consents", q.user, q.holder, x>> \in facts},
            !.app = IF @ = None THEN q.holder ELSE @,
            !.todo = {"trusted", "organizations"}
                        \union (IF q.decide THEN {} ELSE {"domain"})]
    /\ Still

(***************************************************************************)
(* search_user_info: the trusted applications, beside memberships, then    *)
(* assignments, then grants, then permissions.                             *)
(***************************************************************************)
Searching(part) == Doing("search") /\ part \in question.todo
Next2(part, next) == (question.todo \ {part}) \union next

TrustedApplications ==
    /\ Searching("trusted")
    /\ question' = [question EXCEPT
            !.todo = Next2("trusted", {}),
            !.trusted = {b \in Apps : question.q.app # None /\ <<"trusts", question.q.app, b>> \in facts}]
    /\ Still

UserOrganizations ==
    /\ Searching("organizations")
    /\ question' = [question EXCEPT
            !.todo = Next2("organizations", {"assignments"}),
            !.belongs = {b \in Organizations \X Statuses :
                            <<"belongs", question.q.user, b[1], b[2]>> \in facts}]
    /\ Still

\* (mutant) The roles of an organization come with any membership in it.
UserRolesOfAnyStatus ==
    /\ Searching("assignments")
    /\ question' = [question EXCEPT
            !.todo = Next2("assignments", IF question.q.decide THEN {"grants"} ELSE {}),
            !.all = {r \in Roles \ Internal :
                \/ <<"plays", question.q.user, r, question.app>> \in facts
                \/ \E b \in question.belongs, s \in Statuses :
                        <<"staffs", b[1], s, r, question.app>> \in facts}]
    /\ Still

UserRoles ==
    /\ Searching("assignments")
    /\ question' = [question EXCEPT
            !.todo = Next2("assignments", IF question.q.decide THEN {"grants"} ELSE {}),
            !.all = {r \in Roles \ Internal :
                \/ <<"plays", question.q.user, r, question.app>> \in facts
                \/ \E b \in question.belongs :
                        <<"staffs", b[1], b[2], r, question.app>> \in facts}]
    /\ Still

GrantedTo(roles) == {m \in Permissions : \E r \in roles : <<"grants", r, m>> \in facts}

RolePermissions ==
    /\ Doing("grants") \/ Searching("grants")
    /\ LET granted == GrantedTo(question.all) IN
        question' = [question EXCEPT
            !.pc = IF Doing("grants") THEN "permissions" ELSE @,
            !.todo = Next2("grants", IF Doing("grants") THEN {} ELSE {"permissions"}),
            !.granted = granted]
    /\ Still

\* Restrictions to a header or to a payload's entities bind where the question has one;
\* one about a token has no payload.
Matches(m, q) ==
    /\ m.action = q.action /\ q.resource \in m.covers
    /\ m.header # "none" => m.header = q.header
    /\ PayloadLevel /\ m.ids # {} /\ q.kind = "opa" => q.ids \subseteq m.ids

Permitted(m) == m.app = question.app /\ <<"permission", m>> \in facts /\ Matches(m, question.q)
Decision == IF \E m \in question.granted : Permitted(m) THEN "Permit" ELSE "Deny"

UserPermissions ==
    /\ Searching("permissions")
    /\ question' = [question EXCEPT !.todo = Next2("permissions", {}), !.answer = Decision]
    /\ Still

AppAuthzforceDomain ==
    /\ Searching("domain")
    /\ question' = [question EXCEPT
            !.todo = Next2("domain", {}),
            !.domain = {a \in {question.q.holder} : <<"domain", a>> \in facts}]
    /\ Still

\* A token of another application counts only for one that trusts it.
AnswerUser ==
    /\ Doing("search") /\ question.todo = {}
    /\ IF question.app # question.q.holder /\ question.q.holder \notin question.trusted
       THEN Answer("Untrusted")
       ELSE Answer(question.answer)
    /\ Still

\* (auth_opa_policy and auth_xacml_policy)
AnswerPolicy == Doing("permissions") /\ Answer(Decision) /\ Still

(***************************************************************************)
(* A verifiable credential brings role names and the application; the      *)
(* permissions of its roles of those names are looked up, then their rows. *)
(***************************************************************************)
CredentialGrants ==
    /\ Doing("credential")
    /\ question' = [question EXCEPT
            !.pc = "checkPerm",
            !.granted = {m \in GrantedTo(question.all) : m.app = question.app}]
    /\ Still
CheckPerm ==
    /\ Doing("checkPerm")
    /\ Answer(IF \E m \in question.granted :
                    /\ <<"permission", m>> \in facts
                    /\ m.action = question.q.action /\ question.q.resource \in m.covers
              THEN "Permit" ELSE "Deny")
    /\ Still

Fail == question.pc \notin {"none", "answered"} /\ Answer("Error") /\ Still

(***************************************************************************)
(* The tables change: AppAuthorization and Organizations say by whose      *)
(* requests.  A permission takes its grants with it.                       *)
(***************************************************************************)
Changing == /\ question.pc \notin {"none", "answered"} /\ changes < MaxChanges
            /\ changes' = changes + 1
            /\ UNCHANGED question
Withdraw ==
    /\ Changing
    /\ \E f \in facts : facts' = {g \in facts : /\ g # f
                                                /\ f[1] = "permission" /\ g[1] = "grants"
                                                        => g[3] # f[2]}
Establish ==
    /\ Changing
    /\ \E b \in Beginnings : \E f \in b \ facts :
        /\ f[1] = "grants" => <<"permission", f[3]>> \in facts
        /\ facts' = facts \union {f}

DecisionAction ==
    \/ Ask \/ GenerateIdToken \/ FindApplication \/ AuthenticateJwt \/ AuthenticateBearer \/ CreateOauthResponse
    \/ TrustedApplications \/ UserOrganizations \/ UserRoles \/ RolePermissions
    \/ UserPermissions \/ AppAuthzforceDomain \/ AnswerUser \/ AnswerPolicy
    \/ CredentialGrants \/ CheckPerm \/ Fail
DecisionStep == DecisionAction \/ Withdraw \/ Establish

DecisionHistory ==
    IF question'.pc = "none" \/ Doing("answered") THEN UNCHANGED <<ever, always>>
    ELSE IF Doing("none") THEN ever' = facts' /\ always' = facts'
    ELSE ever' = ever \union facts' /\ always' = always \intersect facts'

DecisionInit ==
    /\ facts \in Beginnings
    /\ question = Nothing /\ changes = 0 /\ ever = {} /\ always = {}

DecisionSpec == DecisionInit /\ [][DecisionStep /\ DecisionHistory]_decisionVars

(***************************************************************************)
(* Properties.                                                             *)
(***************************************************************************)
\* The chain from a user, or from the roles in the question, to a permission that fits.
PlaysIn(F, u, a) ==
    {r \in Roles \ Internal :
        \/ <<"plays", u, r, a>> \in F
        \/ \E o \in Organizations, s \in Statuses :
                <<"belongs", u, o, s>> \in F /\ <<"staffs", o, s, r, a>> \in F}
Allowed(F, q, a) ==
    \E m \in Permissions :
        /\ <<"permission", m>> \in F /\ m.app = a
        /\ IF q.kind = "credential" THEN m.action = q.action /\ q.resource \in m.covers
           ELSE Matches(m, q)
        /\ \E r \in IF q.kind \in {"opa", "credential"} THEN q.roles ELSE PlaysIn(F, q.user, a) :
                <<"grants", r, m>> \in F
Accepted(F, q, a) == a = q.holder \/ <<"trusts", a, q.holder>> \in F

\* An answer has grounds: whatever it grants or tells (a permit, a role, an attribute of
\* the user, an application's word for another's token) rests on rows each of which was
\* there while the question was answered, and whatever it refuses or leaves out was not
\* there all that time.  When nothing changes meanwhile, that leaves one answer.
AnswersHaveGrounds ==
    LET q == question.q   a == question.app   answer == question.answer
        told == answer \in {"Permit", "Deny", "none"} IN
    question.pc = "answered" =>
        /\ answer = "Permit" => Allowed(ever, q, a)
        /\ answer = "Deny" => ~Allowed(always, q, a)
        /\ answer = "Untrusted" => ~Accepted(always, q, a)
        /\ told /\ q.kind \in {"bearer", "jwt", "idToken"} =>
            /\ Accepted(ever, q, a)
            /\ PlaysIn(always, q.user, a) \subseteq question.all
            /\ question.all \subseteq PlaysIn(ever, q.user, a)
            /\ \A x \in Attributes :
                /\ x \in question.shared => <<"consents", q.user, q.holder, x>> \in ever
                /\ <<"consents", q.user, q.holder, x>> \in always => x \in question.shared
=============================================================================
