-------------------------- MODULE InterfaceProofs --------------------------
(***************************************************************************)
(* Proofs about what Keyrock tells services and shows administrators: the  *)
(* answers about tokens, roles and credentials, and the pages on which     *)
(* lists are edited before they are sent.                                  *)
(***************************************************************************)
EXTENDS Decisions, Dialogs, AccessControlPage, FiniteSetTheorems, TLAPS

(***************************************************************************)
(* Decisions: what has been read.  Each query's result holds only rows     *)
(* that were there at some time since the question came, and all that were *)
(* there all the time; so does what the next query makes of it.            *)
(***************************************************************************)
Stages == {"none", "application", "jwt", "bearer", "consent", "search", "grants",
           "permissions", "credential", "checkPerm", "answered"}
Chain == {"organizations", "assignments", "grants", "permissions"}
Outcomes == {"none", "Permit", "Deny", "Untrusted", "Unauthorized", "NoUser", "Error"}
Asking == [pc: Stages, q: Questions \union {None}, app: Apps \union {None},
           shared: SUBSET Attributes, trusted: SUBSET Apps,
           belongs: SUBSET (Organizations \X Statuses), all: SUBSET Roles,
           granted: SUBSET Permissions, domain: SUBSET Apps,
           todo: SUBSET (Chain \union {"trusted", "domain"}), answer: Outcomes]

Unanswered == question.pc \notin {"none", "answered"}
OfUser == {"bearer", "jwt", "idToken"}

\* Which questions come to which stage, and about which application.
StageOK ==
    /\ Unanswered => question.q \in Questions
    /\ question.pc \notin {"search", "answered"} => question.answer = "none"
    /\ question.pc \in {"application", "jwt", "bearer"} =>
        question.q.kind \in OfUser /\ question.app = question.q.app
    /\ question.pc = "consent" =>
        question.q.kind \in OfUser /\ question.app \in {question.q.app, None}
    /\ question.pc = "search" =>
        /\ question.q.kind \in OfUser
        /\ question.app = question.q.holder
           \/ (question.app = question.q.app /\ question.app # None)
    /\ question.pc \in {"grants", "permissions"} =>
        question.q.kind = "opa" /\ question.all = question.q.roles
    /\ question.pc \in {"credential", "checkPerm"} =>
        question.q.kind = "credential" /\ question.all = question.q.roles

\* The queries of a chain run one after the other.
OneOfChain ==
    \A x, y \in Chain : x \in question.todo /\ y \in question.todo => x = y

SharedOK ==
    \A x \in Attributes : LET fact == <<"consents", question.q.user, question.q.holder, x>> IN
        /\ x \in question.shared => fact \in ever
        /\ fact \in always => x \in question.shared
TrustedOK ==
    \A b \in Apps : LET fact == <<"trusts", question.q.app, b>> IN
        /\ b \in question.trusted => fact \in ever
        /\ question.q.app # None /\ fact \in always => b \in question.trusted
BelongsOK ==
    \A o \in Organizations, s \in Statuses :
        LET fact == <<"belongs", question.q.user, o, s>> IN
        /\ <<o, s>> \in question.belongs => fact \in ever
        /\ fact \in always => <<o, s>> \in question.belongs
RolesOK ==
    /\ PlaysIn(always, question.q.user, question.app) \subseteq question.all
    /\ question.all \subseteq PlaysIn(ever, question.q.user, question.app)
\* The permissions of the roles the question is about.
RolesIn(F) ==
    IF question.q.kind \in {"opa", "credential"} THEN question.q.roles
    ELSE PlaysIn(F, question.q.user, question.app)
GrantedOK ==
    \A m \in Permissions :
        /\ m \in question.granted => \E r \in RolesIn(ever) : <<"grants", r, m>> \in ever
        /\ m.app = question.app /\ (\E r \in RolesIn(always) : <<"grants", r, m>> \in always)
            => m \in question.granted
AnswerOK ==
    /\ question.answer = "Permit" => Allowed(ever, question.q, question.app)
    /\ question.answer = "Deny" => ~Allowed(always, question.q, question.app)

Finished(parts) == question.todo \intersect parts = {}
SearchOK ==
    /\ OneOfChain /\ SharedOK /\ AnswerOK
    /\ question.answer \in {"none", "Permit", "Deny"}
    /\ "trusted" \notin question.todo => TrustedOK
    /\ "organizations" \notin question.todo => BelongsOK
    /\ Finished({"organizations", "assignments"}) => RolesOK
    /\ "permissions" \in question.todo => GrantedOK

DecisionInv ==
    /\ question \in Asking /\ StageOK
    /\ Unanswered => always \subseteq facts /\ facts \subseteq ever
    /\ question.pc = "search" => SearchOK
    /\ question.pc = "permissions" => GrantedOK
    /\ question.pc = "checkPerm" =>
        GrantedOK /\ \A m \in question.granted : m.app = question.app
    /\ AnswersHaveGrounds

LEMMA PlaysGrow ==
  ASSUME NEW F, NEW G, F \subseteq G, NEW u, NEW a
  PROVE  PlaysIn(F, u, a) \subseteq PlaysIn(G, u, a)
BY DEF PlaysIn

LEMMA AllowedGrow ==
  ASSUME NEW F, NEW G, F \subseteq G, NEW q, NEW a, Allowed(F, q, a)
  PROVE  Allowed(G, q, a)
<1>1. PlaysIn(F, q.user, a) \subseteq PlaysIn(G, q.user, a)
  BY PlaysGrow
<1>2. PICK m \in Permissions :
        /\ <<"permission", m>> \in F /\ m.app = a
        /\ IF q.kind = "credential" THEN m.action = q.action /\ q.resource \in m.covers
           ELSE Matches(m, q)
        /\ \E r \in IF q.kind \in {"opa", "credential"} THEN q.roles ELSE PlaysIn(F, q.user, a) :
                <<"grants", r, m>> \in F
  BY DEF Allowed
<1>3. \E r \in IF q.kind \in {"opa", "credential"} THEN q.roles ELSE PlaysIn(G, q.user, a) :
                <<"grants", r, m>> \in G
  BY <1>1, <1>2
<1> QED BY <1>2, <1>3 DEF Allowed

\* While a question is answered, the histories grow and shrink with the facts.
Grows ==
    /\ ever \subseteq ever' /\ always' \subseteq always
    /\ facts' \subseteq ever' /\ always' \subseteq facts'

LEMMA HistoryGrows ==
  ASSUME Unanswered, question'.pc # "none", DecisionHistory
  PROVE  Grows
BY DEF Unanswered, Doing, DecisionHistory, Grows

\* What has been read stays well read, whatever changes in the tables.
LEMMA SharedStays ==
  ASSUME SharedOK, Grows, question'.q = question.q, question'.shared = question.shared
  PROVE  SharedOK'
BY DEF SharedOK, Grows
LEMMA TrustedStays ==
  ASSUME TrustedOK, Grows, question'.q = question.q, question'.trusted = question.trusted
  PROVE  TrustedOK'
BY DEF TrustedOK, Grows
LEMMA BelongsStays ==
  ASSUME BelongsOK, Grows, question'.q = question.q, question'.belongs = question.belongs
  PROVE  BelongsOK'
BY DEF BelongsOK, Grows
LEMMA RolesStay ==
  ASSUME RolesOK, Grows, question'.q = question.q, question'.app = question.app,
         question'.all = question.all
  PROVE  RolesOK'
<1>1. PlaysIn(ever, question.q.user, question.app)
        \subseteq PlaysIn(ever', question'.q.user, question'.app)
  BY PlaysGrow DEF Grows
<1>2. PlaysIn(always', question'.q.user, question'.app)
        \subseteq PlaysIn(always, question.q.user, question.app)
  BY PlaysGrow DEF Grows
<1> QED BY <1>1, <1>2 DEF RolesOK
LEMMA RolesInGrow ==
  ASSUME Grows, question'.q = question.q, question'.app = question.app
  PROVE  RolesIn(ever) \subseteq RolesIn(ever)' /\ RolesIn(always)' \subseteq RolesIn(always)
<1>1. PlaysIn(ever, question.q.user, question.app)
        \subseteq PlaysIn(ever', question'.q.user, question'.app)
  BY PlaysGrow DEF Grows
<1>2. PlaysIn(always', question'.q.user, question'.app)
        \subseteq PlaysIn(always, question.q.user, question.app)
  BY PlaysGrow DEF Grows
<1> QED BY <1>1, <1>2 DEF RolesIn
LEMMA GrantedStays ==
  ASSUME GrantedOK, Grows, question'.q = question.q, question'.app = question.app,
         question'.granted = question.granted
  PROVE  GrantedOK'
BY RolesInGrow DEF GrantedOK, Grows
LEMMA AnswerStays ==
  ASSUME AnswerOK, Grows, question'.q = question.q, question'.app = question.app,
         question'.answer = question.answer
  PROVE  AnswerOK'
<1>1. Allowed(ever, question.q, question.app) => Allowed(ever', question'.q, question'.app)
  BY AllowedGrow DEF Grows
<1>2. Allowed(always', question'.q, question'.app) => Allowed(always, question.q, question.app)
  BY AllowedGrow DEF Grows
<1> QED BY <1>1, <1>2 DEF AnswerOK

\* The record of a question, field by field.
LEMMA AskingFields ==
  ASSUME question \in Asking
  PROVE  /\ question.pc \in Stages /\ question.q \in Questions \union {None}
         /\ question.app \in Apps \union {None}
         /\ question.all \subseteq Roles /\ question.granted \subseteq Permissions
         /\ question.belongs \subseteq Organizations \X Statuses
         /\ question.todo \subseteq Chain \union {"trusted", "domain"}
         /\ question.answer \in Outcomes
BY DEF Asking

LEMMA QuestionFields ==
  ASSUME Unanswered, DecisionInv
  PROVE  /\ question.q \in Questions /\ question.q.app \in Apps \union {None}
         /\ question.q.holder \in Apps /\ question.q.roles \subseteq Roles
         /\ question.q.kind \in OfUser \union {"opa", "credential"}
<1>1. question.q \in Questions
  BY DEF DecisionInv, StageOK
<1>2. question.q \in Question
  BY <1>1, QuestionsAssumption
<1> QED BY <1>1, <1>2 DEF Question, OfUser

LEMMA FactsGrow ==
  ASSUME DecisionInv, Unanswered, Grows, Still
  PROVE  /\ always \subseteq facts /\ facts \subseteq ever'
         /\ always' \subseteq facts' /\ facts' \subseteq ever'
BY DEF DecisionInv, Grows, Still

\* Once a question is answered, only the answer is left.
LEMMA AnsweredInv ==
  ASSUME DecisionInv, question' \in Asking, question'.pc = "answered", AnswersHaveGrounds'
  PROVE  DecisionInv'
BY DEF DecisionInv, StageOK, Unanswered

\* The answers that say nothing.
LEMMA SilentInv ==
  ASSUME DecisionInv, NEW answer \in {"Unauthorized", "NoUser", "Error"}, Answer(answer)
  PROVE  DecisionInv'
<1>1. question' \in Asking /\ question'.pc = "answered" /\ question'.answer = answer
  BY DEF DecisionInv, Answer, Asking, Stages, Outcomes
<1>2. AnswersHaveGrounds'
  BY <1>1 DEF AnswersHaveGrounds
<1> QED BY <1>1, <1>2, AnsweredInv

\* Before anything is read.
Early == {"application", "jwt", "bearer", "consent", "grants", "credential"}
LEMMA EarlyInv ==
  ASSUME question' \in Asking, question'.pc \in Early, StageOK',
         always' \subseteq facts', facts' \subseteq ever'
  PROVE  DecisionInv'
BY DEF DecisionInv, Early, AnswersHaveGrounds

LEMMA BeginInv ==
  ASSUME DecisionInv, Ask \/ GenerateIdToken, DecisionHistory
  PROVE  DecisionInv'
<1>1. PICK q \in Questions :
        /\ q.kind # "idToken" \/ q.kind = "idToken"
        /\ \/ /\ q.kind # "idToken"
              /\ question' = [Nothing EXCEPT
                    !.q = q, !.app = q.app,
                    !.all = IF q.kind \in {"opa", "credential"} THEN q.roles ELSE {},
                    !.pc = IF q.kind = "opa" THEN "grants"
                           ELSE IF q.kind = "credential" THEN "credential"
                           ELSE IF q.app # None THEN "application" ELSE "bearer"]
           \/ /\ q.kind = "idToken"
              /\ question' = [Nothing EXCEPT !.q = q, !.pc = "consent"]
  BY DEF Ask, GenerateIdToken
<1>2. /\ q.app \in Apps \union {None} /\ q.roles \subseteq Roles
      /\ q.kind \in OfUser \union {"opa", "credential"}
  BY QuestionsAssumption DEF Question, OfUser
<1>3. /\ question' \in Asking /\ question'.q = q /\ question'.pc \in Early
      /\ question'.answer = "none"
  <2>1. CASE q.kind = "idToken"
    BY <1>1, <2>1 DEF Nothing, Asking, Stages, Outcomes, Early
  <2>2. CASE q.kind # "idToken"
    <3>1. PICK pc \in Early : pc = IF q.kind = "opa" THEN "grants"
                           ELSE IF q.kind = "credential" THEN "credential"
                           ELSE IF q.app # None THEN "application" ELSE "bearer"
      BY DEF Early
    <3>2. PICK all \in SUBSET Roles :
            all = IF q.kind \in {"opa", "credential"} THEN q.roles ELSE {}
      BY <1>2
    <3>3. question' = [Nothing EXCEPT !.q = q, !.app = q.app, !.all = all, !.pc = pc]
      BY <1>1, <2>2, <3>1, <3>2
    <3>4. pc \in Stages
      BY <3>1 DEF Early, Stages
    <3> QED BY <1>2, <3>3, <3>4 DEF Nothing, Asking, Outcomes
  <2> QED BY <2>1, <2>2
<1>4. StageOK'
  <2>1. CASE q.kind = "idToken"
    BY <1>1, <2>1 DEF Nothing, StageOK, OfUser, Unanswered
  <2>2. CASE q.kind # "idToken"
    <3>1. /\ question'.app = q.app
          /\ question'.all = IF q.kind \in {"opa", "credential"} THEN q.roles ELSE {}
          /\ question'.pc = IF q.kind = "opa" THEN "grants"
                           ELSE IF q.kind = "credential" THEN "credential"
                           ELSE IF q.app # None THEN "application" ELSE "bearer"
      BY <1>1, <2>2 DEF Nothing
    <3>2. CASE q.kind \in OfUser
      BY <1>2, <1>3, <3>1, <3>2 DEF StageOK, OfUser, Unanswered
    <3>3. CASE q.kind \in {"opa", "credential"}
      BY <1>2, <1>3, <3>1, <3>3 DEF StageOK, Unanswered
    <3> QED BY <1>2, <3>2, <3>3
  <2> QED BY <2>1, <2>2
<1>5. always' \subseteq facts' /\ facts' \subseteq ever'
  BY <1>3 DEF Ask, GenerateIdToken, DecisionHistory, Doing, Early
<1> QED BY <1>3, <1>4, <1>5, EarlyInv

LEMMA TokenKnownInv ==
  ASSUME DecisionInv, FindApplication \/ AuthenticateJwt \/ AuthenticateBearer, DecisionHistory
  PROVE  DecisionInv'
<1>1. Unanswered /\ question.pc \in {"application", "jwt", "bearer"}
  BY DEF FindApplication, AuthenticateJwt, AuthenticateBearer, Doing, Unanswered
<1>2. CASE Answer("Unauthorized") \/ Answer("NoUser")
  BY <1>2, SilentInv
<1>3. CASE \E pc \in {"jwt", "bearer", "consent"} : question' = [question EXCEPT !.pc = pc]
  <2>1. PICK pc \in {"jwt", "bearer", "consent"} : question' = [question EXCEPT !.pc = pc]
    BY <1>3
  <2>2. /\ question' \in Asking /\ question'.pc = pc /\ question'.q = question.q
        /\ question'.app = question.app /\ question'.answer = question.answer
    BY <2>1 DEF DecisionInv, Asking, Stages
  <2>3. StageOK'
    BY <1>1, <2>2 DEF DecisionInv, StageOK, Unanswered
  <2>4. Grows
    BY <1>1, <2>2, HistoryGrows
  <2>5. Still
    BY DEF FindApplication, AuthenticateJwt, AuthenticateBearer
  <2> QED BY <1>1, <2>2, <2>3, <2>4, <2>5, FactsGrow, EarlyInv DEF Early
<1> QED BY <1>2, <1>3 DEF FindApplication, AuthenticateJwt, AuthenticateBearer

LEMMA ConsentInv ==
  ASSUME DecisionInv, CreateOauthResponse, DecisionHistory
  PROVE  DecisionInv'
<1>1. Unanswered /\ question.pc = "consent"
  BY DEF CreateOauthResponse, Doing, Unanswered
<1>2. /\ question.q.holder \in Apps /\ question.q.app \in Apps \union {None}
      /\ question.q \in Questions
  BY <1>1, QuestionFields
<1>3. /\ question' = [question EXCEPT
            !.pc = "search",
            !.shared = {x \in Attributes :
                            <<"consents", question.q.user, question.q.holder, x>> \in facts},
            !.app = IF @ = None THEN question.q.holder ELSE @,
            !.todo = {"trusted", "organizations"}
                        \union (IF question.q.decide THEN {} ELSE {"domain"})]
      /\ Still
  BY DEF CreateOauthResponse
<1>4. Grows
  BY <1>1, <1>3, HistoryGrows DEF DecisionInv, Asking
<1>5. /\ question' \in Asking
      /\ question'.pc = "search" /\ question'.q = question.q
      /\ question'.app = IF question.app = None THEN question.q.holder ELSE question.app
      /\ question'.shared = {x \in Attributes :
                                <<"consents", question.q.user, question.q.holder, x>> \in facts}
      /\ question'.todo \in {{"trusted", "organizations"}, {"trusted", "organizations", "domain"}}
      /\ question'.answer = question.answer
  BY <1>2, <1>3 DEF DecisionInv, Asking, Stages, Chain

<1>6. StageOK'
  BY <1>1, <1>2, <1>5 DEF DecisionInv, StageOK, Unanswered
<1>7. always' \subseteq facts' /\ facts' \subseteq ever' /\ facts' = facts
  BY <1>3, <1>4 DEF Grows, Still
<1>8. SharedOK'
  BY <1>5, <1>7 DEF SharedOK
<1>9. OneOfChain' /\ AnswerOK' /\ question'.answer = "none"
  BY <1>1, <1>5 DEF OneOfChain, Chain, AnswerOK, DecisionInv, StageOK
<1>10. SearchOK'
  BY <1>5, <1>8, <1>9 DEF SearchOK, Finished
<1> QED BY <1>5, <1>6, <1>7, <1>10 DEF DecisionInv, AnswersHaveGrounds

\* What the steps of the search have in common.
LEMMA SearchInv ==
  ASSUME DecisionInv, question.pc = "search", question' \in Asking, question'.pc = "search",
         question'.q = question.q, question'.app = question.app,
         DecisionHistory, Still,
         Grows => SearchOK'
  PROVE  DecisionInv'
<1>1. Unanswered
  BY DEF Unanswered
<1>2. Grows
  BY <1>1, HistoryGrows
<1>3. StageOK'
  BY DEF DecisionInv, StageOK, Unanswered
<1>4. always' \subseteq facts' /\ facts' \subseteq ever'
  BY <1>2 DEF Grows
<1> QED BY <1>2, <1>3, <1>4 DEF DecisionInv, AnswersHaveGrounds

LEMMA TrustedInv ==
  ASSUME DecisionInv, TrustedApplications, DecisionHistory
  PROVE  DecisionInv'
<1>1. question.pc = "search" /\ "trusted" \in question.todo /\ Still
  BY DEF TrustedApplications, Searching, Doing
<1>2. question' = [question EXCEPT
            !.todo = question.todo \ {"trusted"},
            !.trusted = {b \in Apps : question.q.app # None
                                        /\ <<"trusts", question.q.app, b>> \in facts}]
  <2>1. Next2("trusted", {}) = question.todo \ {"trusted"}
    BY DEF Next2
  <2> QED BY <2>1 DEF TrustedApplications
<1>3. /\ question' \in Asking /\ question'.pc = "search" /\ question'.q = question.q
      /\ question'.app = question.app /\ question'.todo = question.todo \ {"trusted"}
      /\ question'.shared = question.shared /\ question'.belongs = question.belongs
      /\ question'.all = question.all /\ question'.granted = question.granted
      /\ question'.answer = question.answer
      /\ question'.trusted = {b \in Apps : question.q.app # None
                                        /\ <<"trusts", question.q.app, b>> \in facts}
  BY <1>1, <1>2 DEF DecisionInv, Asking
<1>4. ASSUME Grows PROVE SearchOK'
  <2>1. always' \subseteq facts /\ facts \subseteq ever'
    BY <1>1, <1>4 DEF Grows, Still
  <2>2. TrustedOK'
    BY <1>3, <2>1 DEF TrustedOK
  <2>3. SharedOK' /\ AnswerOK'
    BY <1>1, <1>3, <1>4, SharedStays, AnswerStays DEF DecisionInv, SearchOK
  <2>4. OneOfChain'
    BY <1>1, <1>3 DEF DecisionInv, SearchOK, OneOfChain
  <2>5. "organizations" \notin question'.todo => BelongsOK'
    BY <1>1, <1>3, <1>4, BelongsStays DEF DecisionInv, SearchOK
  <2>6. Finished({"organizations", "assignments"})' => RolesOK'
    BY <1>1, <1>3, <1>4, RolesStay DEF DecisionInv, SearchOK, Finished
  <2>7. "permissions" \in question'.todo => GrantedOK'
    BY <1>1, <1>3, <1>4, GrantedStays DEF DecisionInv, SearchOK
  <2> QED BY <1>1, <1>3, <2>2, <2>3, <2>4, <2>5, <2>6, <2>7 DEF DecisionInv, SearchOK
<1> QED BY <1>1, <1>3, <1>4, SearchInv

LEMMA DomainInv ==
  ASSUME DecisionInv, AppAuthzforceDomain, DecisionHistory
  PROVE  DecisionInv'
<1>1. question.pc = "search" /\ "domain" \in question.todo /\ Still
  BY DEF AppAuthzforceDomain, Searching, Doing
<1>2. question' = [question EXCEPT
            !.todo = question.todo \ {"domain"},
            !.domain = {a \in {question.q.holder} : <<"domain", a>> \in facts}]
  <2>1. Next2("domain", {}) = question.todo \ {"domain"}
    BY DEF Next2
  <2> QED BY <2>1 DEF AppAuthzforceDomain
<1>3. question.q.holder \in Apps
  BY <1>1, QuestionFields DEF Unanswered
<1>4. /\ question' \in Asking /\ question'.pc = "search" /\ question'.q = question.q
      /\ question'.app = question.app /\ question'.todo = question.todo \ {"domain"}
      /\ question'.shared = question.shared /\ question'.belongs = question.belongs
      /\ question'.all = question.all /\ question'.granted = question.granted
      /\ question'.answer = question.answer /\ question'.trusted = question.trusted
  BY <1>1, <1>2, <1>3 DEF DecisionInv, Asking
<1>5. ASSUME Grows PROVE SearchOK'
  <2>1. SharedOK' /\ AnswerOK'
    BY <1>1, <1>4, <1>5, SharedStays, AnswerStays DEF DecisionInv, SearchOK
  <2>2. OneOfChain'
    BY <1>1, <1>4 DEF DecisionInv, SearchOK, OneOfChain
  <2>3. "trusted" \notin question'.todo => TrustedOK'
    BY <1>1, <1>4, <1>5, TrustedStays DEF DecisionInv, SearchOK
  <2>4. "organizations" \notin question'.todo => BelongsOK'
    BY <1>1, <1>4, <1>5, BelongsStays DEF DecisionInv, SearchOK
  <2>5. Finished({"organizations", "assignments"})' => RolesOK'
    BY <1>1, <1>4, <1>5, RolesStay DEF DecisionInv, SearchOK, Finished
  <2>6. "permissions" \in question'.todo => GrantedOK'
    BY <1>1, <1>4, <1>5, GrantedStays DEF DecisionInv, SearchOK
  <2> QED BY <1>1, <1>4, <2>1, <2>2, <2>3, <2>4, <2>5, <2>6 DEF DecisionInv, SearchOK
<1> QED BY <1>1, <1>4, <1>5, SearchInv

LEMMA OrganizationsInv ==
  ASSUME DecisionInv, UserOrganizations, DecisionHistory
  PROVE  DecisionInv'
<1>1. question.pc = "search" /\ "organizations" \in question.todo /\ Still
  BY DEF UserOrganizations, Searching, Doing
<1>2. question' = [question EXCEPT
            !.todo = (question.todo \ {"organizations"}) \union {"assignments"},
            !.belongs = {b \in Organizations \X Statuses :
                            <<"belongs", question.q.user, b[1], b[2]>> \in facts}]
  BY DEF UserOrganizations, Next2
<1>3. /\ question' \in Asking /\ question'.pc = "search" /\ question'.q = question.q
      /\ question'.app = question.app
      /\ question'.todo = (question.todo \ {"organizations"}) \union {"assignments"}
      /\ question'.shared = question.shared /\ question'.trusted = question.trusted
      /\ question'.answer = question.answer
      /\ question'.belongs = {b \in Organizations \X Statuses :
                                <<"belongs", question.q.user, b[1], b[2]>> \in facts}
  BY <1>1, <1>2 DEF DecisionInv, Asking, Chain
<1>4. ASSUME Grows PROVE SearchOK'
  <2>1. always' \subseteq facts /\ facts \subseteq ever'
    BY <1>1, <1>4 DEF Grows, Still
  <2>2. BelongsOK'
    BY <1>3, <2>1 DEF BelongsOK
  <2>3. SharedOK' /\ AnswerOK'
    BY <1>1, <1>3, <1>4, SharedStays, AnswerStays DEF DecisionInv, SearchOK
  <2>4. OneOfChain'
    BY <1>1, <1>3 DEF DecisionInv, SearchOK, OneOfChain, Chain
  <2>5. "trusted" \notin question'.todo => TrustedOK'
    BY <1>1, <1>3, <1>4, TrustedStays DEF DecisionInv, SearchOK
  <2>6. ~Finished({"organizations", "assignments"})' /\ "permissions" \notin question'.todo
    BY <1>1, <1>3 DEF DecisionInv, SearchOK, OneOfChain, Chain, Finished
  <2> QED BY <1>1, <1>3, <2>2, <2>3, <2>4, <2>5, <2>6 DEF DecisionInv, SearchOK
<1> QED BY <1>1, <1>3, <1>4, SearchInv

LEMMA AssignmentsInv ==
  ASSUME DecisionInv, UserRoles, DecisionHistory
  PROVE  DecisionInv'
<1> DEFINE next == IF question.q.decide THEN {"grants"} ELSE {}
           roles == {r \in Roles \ Internal :
                \/ <<"plays", question.q.user, r, question.app>> \in facts
                \/ \E b \in question.belongs :
                        <<"staffs", b[1], b[2], r, question.app>> \in facts}
<1>1. question.pc = "search" /\ "assignments" \in question.todo /\ Still
  BY DEF UserRoles, Searching, Doing
<1>2. question' = [question EXCEPT
            !.todo = (question.todo \ {"assignments"}) \union next, !.all = roles]
  BY DEF UserRoles, Next2
<1>3. next \in {{}, {"grants"}} /\ roles \subseteq Roles
  OBVIOUS
<1> HIDE DEF next, roles
<1>4. /\ question' \in Asking /\ question'.pc = "search" /\ question'.q = question.q
      /\ question'.app = question.app
      /\ question'.todo = (question.todo \ {"assignments"}) \union next
      /\ question'.shared = question.shared /\ question'.trusted = question.trusted
      /\ question'.belongs = question.belongs
      /\ question'.answer = question.answer /\ question'.all = roles
  BY <1>1, <1>2, <1>3 DEF DecisionInv, Asking, Chain
<1>5. ASSUME Grows PROVE SearchOK'
  <2>1. always' \subseteq facts /\ facts \subseteq ever'
    BY <1>1, <1>5 DEF Grows, Still
  <2>2. "organizations" \notin question.todo /\ BelongsOK
    BY <1>1 DEF DecisionInv, SearchOK, OneOfChain, Chain
  <2>3. BelongsOK'
    BY <1>4, <1>5, <2>2, BelongsStays
  <2>4. question.belongs \subseteq Organizations \X Statuses
    BY AskingFields DEF DecisionInv
  <2>5. RolesOK'
    <3>1. ASSUME NEW r \in PlaysIn(always', question.q.user, question.app) PROVE r \in roles
      <4>1. CASE <<"plays", question.q.user, r, question.app>> \in always'
        BY <2>1, <3>1, <4>1 DEF PlaysIn, roles
      <4>2. CASE \E o \in Organizations, s \in Statuses :
                    /\ <<"belongs", question.q.user, o, s>> \in always'
                    /\ <<"staffs", o, s, r, question.app>> \in always'
        <5>1. PICK o \in Organizations, s \in Statuses :
                    /\ <<"belongs", question.q.user, o, s>> \in always'
                    /\ <<"staffs", o, s, r, question.app>> \in always'
          BY <4>2
        <5>2. <<o, s>> \in question.belongs
          BY <1>4, <2>3, <5>1 DEF BelongsOK
        <5>3. <<"staffs", <<o, s>>[1], <<o, s>>[2], r, question.app>> \in facts
          BY <2>1, <5>1
        <5> QED BY <3>1, <5>2, <5>3 DEF PlaysIn, roles
      <4> QED BY <3>1, <4>1, <4>2 DEF PlaysIn
    <3>2. ASSUME NEW r \in roles PROVE r \in PlaysIn(ever', question.q.user, question.app)
      <4>1. CASE <<"plays", question.q.user, r, question.app>> \in facts
        BY <2>1, <3>2, <4>1 DEF PlaysIn, roles
      <4>2. CASE \E b \in question.belongs :
                    <<"staffs", b[1], b[2], r, question.app>> \in facts
        <5>1. PICK b \in question.belongs : <<"staffs", b[1], b[2], r, question.app>> \in facts
          BY <4>2
        <5>2. b = <<b[1], b[2]>> /\ b[1] \in Organizations /\ b[2] \in Statuses
          BY <2>4, <5>1
        <5>3. <<b[1], b[2]>> \in question.belongs
          BY <5>1, <5>2
        <5>4. <<"belongs", question.q.user, b[1], b[2]>> \in ever'
          BY <1>4, <2>3, <5>2, <5>3 DEF BelongsOK
        <5>5. <<"staffs", b[1], b[2], r, question.app>> \in ever'
          BY <2>1, <5>1
        <5> QED BY <3>2, <5>2, <5>4, <5>5 DEF PlaysIn, roles
      <4> QED BY <3>2, <4>1, <4>2 DEF roles
    <3> QED BY <1>4, <3>1, <3>2 DEF RolesOK
  <2>6. SharedOK' /\ AnswerOK'
    BY <1>1, <1>4, <1>5, SharedStays, AnswerStays DEF DecisionInv, SearchOK
  <2>7. OneOfChain' /\ "permissions" \notin question'.todo
    BY <1>1, <1>3, <1>4 DEF DecisionInv, SearchOK, OneOfChain, Chain
  <2>8. "trusted" \notin question'.todo => TrustedOK'
    BY <1>1, <1>4, <1>5, TrustedStays DEF DecisionInv, SearchOK
  <2> QED BY <1>1, <1>4, <2>3, <2>5, <2>6, <2>7, <2>8 DEF DecisionInv, SearchOK
<1> QED BY <1>1, <1>4, <1>5, SearchInv

\* What the roles that have been read are granted.
LEMMA GrantsRead ==
  ASSUME DecisionInv, Unanswered, Grows, Still,
         question'.q = question.q, question'.app = question.app,
         RolesIn(always)' \subseteq question.all, question.all \subseteq RolesIn(ever)',
         \/ question'.granted = GrantedTo(question.all)
         \/ question'.granted = {m \in GrantedTo(question.all) : m.app = question.app}
  PROVE  GrantedOK'
<1>1. always' \subseteq facts /\ facts \subseteq ever'
  BY FactsGrow DEF Still
<1>2. ASSUME NEW m \in question'.granted
      PROVE  \E r \in RolesIn(ever)' : <<"grants", r, m>> \in ever'
  BY <1>1, <1>2 DEF GrantedTo
<1>3. ASSUME NEW m \in Permissions, m.app = question.app,
             NEW r \in RolesIn(always)', <<"grants", r, m>> \in always'
      PROVE  m \in question'.granted
  BY <1>1, <1>3 DEF GrantedTo
<1> QED BY <1>2, <1>3 DEF GrantedOK

LEMMA RolePermissionsInv ==
  ASSUME DecisionInv, RolePermissions, DecisionHistory
  PROVE  DecisionInv'
<1> DEFINE granted == GrantedTo(question.all)
<1>1. Still /\ granted \subseteq Permissions
  BY DEF RolePermissions, GrantedTo
<1>2. CASE question.pc = "grants"
  <2>1. question' = [question EXCEPT !.pc = "permissions",
                        !.todo = question.todo \ {"grants"}, !.granted = granted]
    <3>1. Next2("grants", {}) = question.todo \ {"grants"}
      BY DEF Next2
    <3> QED BY <1>2, <3>1 DEF RolePermissions, Doing
  <2> HIDE DEF granted
  <2>2. /\ question' \in Asking /\ question'.pc = "permissions" /\ question'.q = question.q
        /\ question'.app = question.app /\ question'.all = question.all
        /\ question'.granted = granted /\ question'.answer = question.answer
    BY <1>1, <2>1 DEF DecisionInv, Asking, Stages
  <2>3. Unanswered /\ Grows
    BY <1>2, <2>2, HistoryGrows DEF Unanswered
  <2>4. question.q.kind = "opa" /\ question.all = question.q.roles
    BY <1>2 DEF DecisionInv, StageOK
  <2>5. RolesIn(always)' = question.all /\ RolesIn(ever)' = question.all
    BY <2>2, <2>4 DEF RolesIn
  <2>6. GrantedOK'
    BY <1>1, <2>2, <2>3, <2>5, GrantsRead DEF granted
  <2>7. StageOK'
    BY <1>2, <2>2, <2>3 DEF DecisionInv, StageOK, Unanswered
  <2> QED BY <2>2, <2>3, <2>6, <2>7 DEF DecisionInv, AnswersHaveGrounds, Grows
<1>3. CASE question.pc = "search" /\ "grants" \in question.todo
  <2>1. question' = [question EXCEPT
            !.todo = (question.todo \ {"grants"}) \union {"permissions"}, !.granted = granted]
    BY <1>3 DEF RolePermissions, Doing, Next2, DecisionInv, Asking
  <2> HIDE DEF granted
  <2>2. /\ question' \in Asking /\ question'.pc = "search" /\ question'.q = question.q
        /\ question'.app = question.app
        /\ question'.todo = (question.todo \ {"grants"}) \union {"permissions"}
        /\ question'.shared = question.shared /\ question'.trusted = question.trusted
        /\ question'.belongs = question.belongs /\ question'.all = question.all
        /\ question'.answer = question.answer /\ question'.granted = granted
    BY <1>1, <1>3, <2>1 DEF DecisionInv, Asking, Chain
  <2>3. ASSUME Grows PROVE SearchOK'
    <3>1. Finished({"organizations", "assignments"})
      BY <1>3 DEF DecisionInv, SearchOK, OneOfChain, Chain, Finished
    <3>2. RolesOK'
      BY <1>3, <2>2, <2>3, <3>1, RolesStay DEF DecisionInv, SearchOK
    <3>3. question'.q.kind \in OfUser
      BY <1>3, <2>2 DEF DecisionInv, StageOK
    <3>4. GrantedOK'
      <4>1. RolesIn(always)' \subseteq question.all /\ question.all \subseteq RolesIn(ever)'
        BY <2>2, <3>2, <3>3 DEF RolesOK, RolesIn, OfUser
      <4> QED BY <1>1, <1>3, <2>2, <2>3, <4>1, GrantsRead DEF granted, Unanswered
    <3>5. SharedOK' /\ AnswerOK'
      BY <1>3, <2>2, <2>3, SharedStays, AnswerStays DEF DecisionInv, SearchOK
    <3>6. OneOfChain'
      BY <1>3, <2>2 DEF DecisionInv, SearchOK, OneOfChain, Chain
    <3>7. "trusted" \notin question'.todo => TrustedOK'
      BY <1>3, <2>2, <2>3, TrustedStays DEF DecisionInv, SearchOK
    <3>8. "organizations" \notin question'.todo => BelongsOK'
      BY <1>3, <2>2, <2>3, BelongsStays DEF DecisionInv, SearchOK
    <3> QED BY <1>3, <2>2, <3>2, <3>4, <3>5, <3>6, <3>7, <3>8 DEF DecisionInv, SearchOK
  <2> QED BY <1>1, <1>3, <2>2, <2>3, SearchInv
<1> QED BY <1>2, <1>3 DEF RolePermissions, Doing, Searching

\* What is decided from permissions that have been read well has grounds.
LEMMA DecisionGrounds ==
  ASSUME DecisionInv, Unanswered, Grows, Still, GrantedOK,
         question.q.kind # "credential",
         question'.q = question.q, question'.app = question.app
  PROVE  /\ Decision \in {"Permit", "Deny"}
         /\ Decision = "Permit" => Allowed(ever', question.q, question.app)
         /\ Decision = "Deny" => ~Allowed(always', question.q, question.app)
<1>1. always' \subseteq facts /\ facts \subseteq ever'
  BY FactsGrow DEF Still
<1>2. RolesIn(ever) \subseteq RolesIn(ever)' /\ RolesIn(always)' \subseteq RolesIn(always)
  BY RolesInGrow
<1>3. question.granted \subseteq Permissions
  BY AskingFields DEF DecisionInv
<1>4. ASSUME NEW m \in question.granted, Permitted(m)
      PROVE  Allowed(ever', question.q, question.app)
  <2>1. \E r \in RolesIn(ever)' : <<"grants", r, m>> \in ever'
    BY <1>2, <1>3, <1>4 DEF GrantedOK, Grows
  <2>2. \E r \in IF question.q.kind \in {"opa", "credential"} THEN question.q.roles
                 ELSE PlaysIn(ever', question.q.user, question.app) :
                <<"grants", r, m>> \in ever'
    BY <2>1 DEF RolesIn
  <2> QED BY <1>1, <1>3, <1>4, <2>2 DEF Allowed, Permitted
<1>5. ASSUME Allowed(always', question.q, question.app)
      PROVE  \E m \in question.granted : Permitted(m)
  <2>1. PICK m \in Permissions :
            /\ <<"permission", m>> \in always' /\ m.app = question.app
            /\ Matches(m, question.q)
            /\ \E r \in IF question.q.kind \in {"opa", "credential"} THEN question.q.roles
                        ELSE PlaysIn(always', question.q.user, question.app) :
                    <<"grants", r, m>> \in always'
    BY <1>5 DEF Allowed
  <2>2. \E r \in RolesIn(always)' : <<"grants", r, m>> \in always'
    BY <2>1 DEF RolesIn
  <2>3. m \in question.granted
    BY <1>2, <2>1, <2>2 DEF GrantedOK, Grows
  <2> QED BY <1>1, <2>1, <2>3 DEF Permitted
<1> QED BY <1>4, <1>5 DEF Decision

LEMMA UserPermissionsInv ==
  ASSUME DecisionInv, UserPermissions, DecisionHistory
  PROVE  DecisionInv'
<1>1. question.pc = "search" /\ "permissions" \in question.todo /\ Still
  BY DEF UserPermissions, Searching, Doing
<1>2. Decision \in {"Permit", "Deny"}
  BY DEF Decision
<1>3. question' = [question EXCEPT !.todo = question.todo \ {"permissions"}, !.answer = Decision]
  <2>1. Next2("permissions", {}) = question.todo \ {"permissions"}
    BY DEF Next2
  <2> QED BY <2>1 DEF UserPermissions
<1>4. /\ question' \in Asking /\ question'.pc = "search" /\ question'.q = question.q
      /\ question'.app = question.app /\ question'.todo = question.todo \ {"permissions"}
      /\ question'.shared = question.shared /\ question'.trusted = question.trusted
      /\ question'.belongs = question.belongs /\ question'.all = question.all
      /\ question'.answer = Decision
  BY <1>1, <1>2, <1>3 DEF DecisionInv, Asking, Outcomes
<1>5. ASSUME Grows PROVE SearchOK'
  <2>1. question.q.kind # "credential" /\ GrantedOK
    BY <1>1 DEF DecisionInv, StageOK, SearchOK, OfUser
  <2>2. AnswerOK' /\ question'.answer \in {"none", "Permit", "Deny"}
    BY <1>1, <1>4, <1>5, <2>1, DecisionGrounds DEF AnswerOK, Unanswered
  <2>3. SharedOK'
    BY <1>1, <1>4, <1>5, SharedStays DEF DecisionInv, SearchOK
  <2>4. OneOfChain' /\ "permissions" \notin question'.todo
    BY <1>1, <1>4 DEF DecisionInv, SearchOK, OneOfChain, Chain
  <2>5. "trusted" \notin question'.todo => TrustedOK'
    BY <1>1, <1>4, <1>5, TrustedStays DEF DecisionInv, SearchOK
  <2>6. "organizations" \notin question'.todo => BelongsOK'
    BY <1>1, <1>4, <1>5, BelongsStays DEF DecisionInv, SearchOK
  <2>7. Finished({"organizations", "assignments"})' => RolesOK'
    BY <1>1, <1>4, <1>5, RolesStay DEF DecisionInv, SearchOK, Finished
  <2> QED BY <1>1, <1>4, <2>2, <2>3, <2>4, <2>5, <2>6, <2>7 DEF DecisionInv, SearchOK
<1> QED BY <1>1, <1>4, <1>5, SearchInv

\* The answers that say something, and what they leave as it is.
LEMMA AnswerFields ==
  ASSUME DecisionInv, Unanswered, DecisionHistory, NEW answer \in Outcomes, Answer(answer)
  PROVE  /\ question' \in Asking /\ question'.pc = "answered" /\ question'.q = question.q
         /\ question'.app = question.app /\ question'.answer = answer
         /\ question'.shared = question.shared /\ question'.trusted = question.trusted
         /\ question'.all = question.all /\ Grows
<1>1. /\ question' \in Asking /\ question'.pc = "answered" /\ question'.q = question.q
      /\ question'.app = question.app /\ question'.answer = answer
      /\ question'.shared = question.shared /\ question'.trusted = question.trusted
      /\ question'.all = question.all
  BY DEF DecisionInv, Answer, Asking, Stages
<1> QED BY <1>1, HistoryGrows

LEMMA AnswerPolicyInv ==
  ASSUME DecisionInv, AnswerPolicy, DecisionHistory
  PROVE  DecisionInv'
<1>1. Unanswered /\ question.pc = "permissions" /\ Still /\ Answer(Decision)
  BY DEF AnswerPolicy, Doing, Unanswered
<1>2. GrantedOK /\ question.q.kind = "opa"
  BY <1>1 DEF DecisionInv, StageOK
<1>3. Decision \in Outcomes
  BY DEF Decision, Outcomes
<1>4. AnswersHaveGrounds'
  BY <1>1, <1>2, <1>3, AnswerFields, DecisionGrounds DEF AnswersHaveGrounds
<1> QED BY <1>1, <1>3, <1>4, AnswerFields, AnsweredInv

LEMMA CredentialGrantsInv ==
  ASSUME DecisionInv, CredentialGrants, DecisionHistory
  PROVE  DecisionInv'
<1> DEFINE granted == {m \in GrantedTo(question.all) : m.app = question.app}
<1>1. /\ question.pc = "credential" /\ Still /\ granted \subseteq Permissions
      /\ question' = [question EXCEPT !.pc = "checkPerm", !.granted = granted]
  BY DEF CredentialGrants, Doing, GrantedTo
<1>2. \A m \in granted : m.app = question.app
  OBVIOUS
<1> HIDE DEF granted
<1>3. /\ question' \in Asking /\ question'.pc = "checkPerm" /\ question'.q = question.q
      /\ question'.app = question.app /\ question'.all = question.all
      /\ question'.granted = granted /\ question'.answer = question.answer
  BY <1>1 DEF DecisionInv, Asking, Stages
<1>4. Unanswered /\ Grows
  BY <1>1, <1>3, HistoryGrows DEF Unanswered
<1>5. question.q.kind = "credential" /\ question.all = question.q.roles
  BY <1>1 DEF DecisionInv, StageOK
<1>6. RolesIn(always)' = question.all /\ RolesIn(ever)' = question.all
  BY <1>3, <1>5 DEF RolesIn
<1>7. GrantedOK'
  BY <1>1, <1>3, <1>4, <1>6, GrantsRead DEF granted
<1>8. StageOK'
  BY <1>1, <1>3, <1>4 DEF DecisionInv, StageOK, Unanswered
<1> QED BY <1>2, <1>3, <1>4, <1>7, <1>8 DEF DecisionInv, AnswersHaveGrounds, Grows

LEMMA CheckPermInv ==
  ASSUME DecisionInv, CheckPerm, DecisionHistory
  PROVE  DecisionInv'
<1> DEFINE permitting == \E m \in question.granted :
                    /\ <<"permission", m>> \in facts
                    /\ m.action = question.q.action /\ question.q.resource \in m.covers
           answer == IF permitting THEN "Permit" ELSE "Deny"
<1>1. Unanswered /\ question.pc = "checkPerm" /\ Still /\ Answer(answer) /\ answer \in Outcomes
  BY DEF CheckPerm, Doing, Unanswered, Outcomes
<1>2. /\ GrantedOK /\ \A m \in question.granted : m.app = question.app
      /\ question.q.kind = "credential" /\ question.granted \subseteq Permissions
  BY <1>1, AskingFields DEF DecisionInv, StageOK
<1>3. /\ Grows /\ question'.q = question.q /\ question'.app = question.app
      /\ question'.answer = answer
  <2> HIDE DEF answer
  <2> QED BY <1>1, AnswerFields
<1>4. always' \subseteq facts /\ facts \subseteq ever'
  BY <1>1, <1>3, FactsGrow DEF Still
<1>5. RolesIn(ever) = question.q.roles /\ RolesIn(always) = question.q.roles
  BY <1>2 DEF RolesIn
<1>6. permitting => Allowed(ever', question.q, question.app)
  BY <1>2, <1>3, <1>4, <1>5 DEF Allowed, GrantedOK, Grows
<1>7. Allowed(always', question.q, question.app) => permitting
  BY <1>2, <1>3, <1>4, <1>5 DEF Allowed, GrantedOK, Grows
<1>8. AnswersHaveGrounds'
  BY <1>2, <1>3, <1>6, <1>7 DEF AnswersHaveGrounds
<1> HIDE DEF answer
<1> QED BY <1>1, <1>8, AnswerFields, AnsweredInv

LEMMA AnswerUserInv ==
  ASSUME DecisionInv, AnswerUser, DecisionHistory
  PROVE  DecisionInv'
<1> DEFINE q == question.q
<1>1. Unanswered /\ question.pc = "search" /\ question.todo = {} /\ Still
  BY DEF AnswerUser, Doing, Unanswered
<1>2. /\ SearchOK /\ TrustedOK /\ RolesOK
      /\ question.q.kind \in OfUser /\ question.q.holder \in Apps
      /\ question.app = question.q.holder
           \/ (question.app = question.q.app /\ question.app # None)
  BY <1>1, QuestionFields DEF DecisionInv, SearchOK, StageOK, Finished
<1>3. CASE question.app # question.q.holder /\ question.q.holder \notin question.trusted
  <2>1. Answer("Untrusted")
    BY <1>3 DEF AnswerUser
  <2>2. /\ question' \in Asking /\ question'.pc = "answered" /\ question'.q = question.q
        /\ question'.app = question.app /\ question'.answer = "Untrusted" /\ Grows
    BY <1>1, <2>1, AnswerFields DEF Outcomes
  <2>3. <<"trusts", question.app, question.q.holder>> \notin always'
    BY <1>2, <1>3, <2>2 DEF TrustedOK, Grows
  <2>4. AnswersHaveGrounds'
    BY <1>3, <2>2, <2>3 DEF AnswersHaveGrounds, Accepted
  <2> QED BY <2>2, <2>4, AnsweredInv
<1>4. CASE ~(question.app # question.q.holder /\ question.q.holder \notin question.trusted)
  <2>1. Answer(question.answer) /\ question.answer \in {"none", "Permit", "Deny"}
    BY <1>2, <1>4 DEF AnswerUser, SearchOK
  <2>2. /\ question' \in Asking /\ question'.pc = "answered" /\ question'.q = question.q
        /\ question'.app = question.app /\ question'.answer = question.answer
        /\ question'.shared = question.shared /\ question'.all = question.all /\ Grows
    BY <1>1, <2>1, AnswerFields DEF Outcomes
  <2>3. SharedOK' /\ AnswerOK' /\ RolesOK'
    BY <1>2, <2>2, SharedStays, AnswerStays, RolesStay DEF SearchOK
  <2>4. Accepted(ever', question.q, question.app)
    BY <1>2, <1>4, <2>2 DEF Accepted, TrustedOK, Grows
  <2>5. AnswersHaveGrounds'
    <3>1. question'.answer # "Untrusted"
      BY <2>1, <2>2
    <3> QED BY <2>2, <2>3, <2>4, <3>1 DEF AnswersHaveGrounds, AnswerOK, RolesOK, SharedOK
  <2> QED BY <2>2, <2>5, AnsweredInv
<1> QED BY <1>3, <1>4

\* The tables change under the question.
LEMMA ChangeInv ==
  ASSUME DecisionInv, Withdraw \/ Establish, DecisionHistory
  PROVE  DecisionInv'
<1>1. Unanswered /\ question' = question
  BY DEF Withdraw, Establish, Changing, Unanswered
<1>2. Grows
  BY <1>1, HistoryGrows DEF Unanswered
<1>3. question' \in Asking /\ StageOK'
  BY <1>1 DEF DecisionInv, StageOK, Unanswered
<1>4. SearchOK => SearchOK'
  <2> SUFFICES ASSUME SearchOK PROVE SearchOK'
    OBVIOUS
  <2>1. SharedOK' /\ AnswerOK' /\ OneOfChain'
    BY <1>1, <1>2, SharedStays, AnswerStays DEF SearchOK, OneOfChain
  <2>2. "trusted" \notin question'.todo => TrustedOK'
    BY <1>1, <1>2, TrustedStays DEF SearchOK
  <2>3. "organizations" \notin question'.todo => BelongsOK'
    BY <1>1, <1>2, BelongsStays DEF SearchOK
  <2>4. Finished({"organizations", "assignments"})' => RolesOK'
    BY <1>1, <1>2, RolesStay DEF SearchOK, Finished
  <2>5. "permissions" \in question'.todo => GrantedOK'
    BY <1>1, <1>2, GrantedStays DEF SearchOK
  <2> QED BY <1>1, <2>1, <2>2, <2>3, <2>4, <2>5 DEF SearchOK
<1>5. GrantedOK => GrantedOK'
  BY <1>1, <1>2, GrantedStays
<1>6. AnswersHaveGrounds'
  BY <1>1 DEF AnswersHaveGrounds, Unanswered
<1> QED BY <1>1, <1>2, <1>3, <1>4, <1>5, <1>6 DEF DecisionInv, Unanswered, Grows

LEMMA DecisionNext ==
  DecisionInv /\ [DecisionStep /\ DecisionHistory]_decisionVars => DecisionInv'
<1> SUFFICES ASSUME DecisionInv, [DecisionStep /\ DecisionHistory]_decisionVars
             PROVE  DecisionInv'
  OBVIOUS
<1>1. CASE UNCHANGED decisionVars
  BY <1>1 DEF decisionVars, DecisionInv, StageOK, Unanswered, SearchOK, OneOfChain, SharedOK,
        AnswerOK, TrustedOK, BelongsOK, Finished, RolesOK, RolesIn, GrantedOK, AnswersHaveGrounds
<1>2. CASE DecisionStep /\ DecisionHistory
  <2>1. CASE Fail
    BY <1>2, <2>1, SilentInv DEF Fail
  <2> QED BY <1>2, <2>1, BeginInv, TokenKnownInv, ConsentInv, TrustedInv, OrganizationsInv,
        AssignmentsInv, RolePermissionsInv, UserPermissionsInv, DomainInv, AnswerUserInv,
        AnswerPolicyInv, CredentialGrantsInv, CheckPermInv, ChangeInv
        DEF DecisionStep, DecisionAction
<1> QED BY <1>1, <1>2

LEMMA DecisionFirst == DecisionInit => DecisionInv
BY DEF DecisionInit, DecisionInv, Nothing, Asking, Stages, Outcomes, StageOK, Unanswered,
      AnswersHaveGrounds

\* Whatever an answer grants or tells (create_oauth_response, search_user_info, auth_opa_policy,
\* check_perm) rests on rows each of which was there while the question was answered, and what
\* it refuses or leaves out was not there all that time: for any tables, any questions and any
\* number of changes while they are answered.
THEOREM AnswersAreFounded == DecisionSpec => []AnswersHaveGrounds
<1>1. DecisionInv => AnswersHaveGrounds
  BY DEF DecisionInv
<1> QED BY <1>1, DecisionFirst, DecisionNext, PTL DEF DecisionSpec

\* The tables stay as a handler leaves them, whatever is withdrawn and established.
FactsInv == FactsOK(facts) /\ changes \in 0 .. MaxChanges

LEMMA FactsStay ==
  FactsInv /\ [DecisionStep /\ DecisionHistory]_decisionVars => FactsInv'
<1> SUFFICES ASSUME FactsInv, [DecisionStep /\ DecisionHistory]_decisionVars
             PROVE  FactsInv'
  OBVIOUS
<1>1. CASE facts' = facts /\ changes' \in {0, changes}
  BY <1>1, DecisionAssumption DEF FactsInv, FactsOK
<1>2. ASSUME Withdraw \/ Establish
      PROVE  changes' \in 0 .. MaxChanges
  BY <1>2, DecisionAssumption DEF FactsInv, Withdraw, Establish, Changing
<1>3. CASE Withdraw
  <2>1. PICK f \in facts : facts' = {g \in facts : /\ g # f
                                                   /\ f[1] = "permission" /\ g[1] = "grants"
                                                           => g[3] # f[2]}
    BY <1>3 DEF Withdraw
  <2>2. \A g \in facts' : g[1] \in {"belongs", "plays", "staffs", "grants", "permission",
                                    "consents", "domain", "trusts", "application"}
    BY <2>1 DEF FactsInv, FactsOK
  <2>3. ASSUME NEW g \in facts', g[1] = "grants"
        PROVE  <<"permission", g[3]>> \in facts'
    <3>1. PICK p : p = <<"permission", g[3]>>
      OBVIOUS
    <3>2. p \in facts /\ p[1] = "permission" /\ p[2] = g[3]
      BY <2>1, <2>3, <3>1 DEF FactsInv, FactsOK
    <3>3. p # f
      BY <2>1, <2>3, <3>2
    <3> QED BY <2>1, <3>1, <3>2, <3>3
  <2> QED BY <1>2, <1>3, <2>2, <2>3 DEF FactsInv, FactsOK
<1>4. CASE Establish
  <2>1. PICK b \in Beginnings : \E f \in b \ facts :
            /\ f[1] = "grants" => <<"permission", f[3]>> \in facts
            /\ facts' = facts \union {f}
    BY <1>4 DEF Establish
  <2>2. PICK f \in b \ facts :
            /\ f[1] = "grants" => <<"permission", f[3]>> \in facts
            /\ facts' = facts \union {f}
    BY <2>1
  <2>3. FactsOK(facts')
    BY <2>1, <2>2, BeginningsAssumption DEF FactsInv, FactsOK
  <2> QED BY <1>2, <1>4, <2>3 DEF FactsInv
<1>5. DecisionAction => facts' = facts /\ changes' \in {0, changes}
  BY DEF DecisionAction, Ask, GenerateIdToken, FindApplication, AuthenticateJwt,
     AuthenticateBearer, CreateOauthResponse, TrustedApplications, UserOrganizations, UserRoles,
     RolePermissions, UserPermissions, AppAuthzforceDomain, AnswerUser, AnswerPolicy,
     CredentialGrants, CheckPerm, Fail, Still
<1>6. UNCHANGED decisionVars => facts' = facts /\ changes' = changes
  BY DEF decisionVars
<1> QED BY <1>1, <1>3, <1>4, <1>5, <1>6 DEF DecisionStep

\* A question holds permissions, roles and attributes that there are, every row of the tables
\* is one of a table, and no grant outlives its permission (Decisions).
THEOREM DecisionsAreTyped == DecisionSpec => []DecisionTypeOK
<1>1. DecisionInit => FactsInv
  BY BeginningsAssumption, DecisionAssumption DEF DecisionInit, FactsInv
<1>2. DecisionInv /\ FactsInv => DecisionTypeOK
  BY DEF DecisionInv, FactsInv, Asking, DecisionTypeOK
<1> QED BY <1>1, <1>2, DecisionFirst, DecisionNext, FactsStay, PTL DEF DecisionSpec

\* While the tables have not changed since a question came, its histories are the tables.
QuietInv ==
    /\ changes \in Nat
    /\ question.pc # "none" /\ changes = 0 => ever = facts /\ always = facts

LEMMA QuietStays ==
  QuietInv /\ [DecisionStep /\ DecisionHistory]_decisionVars => QuietInv'
<1> SUFFICES ASSUME QuietInv, [DecisionStep /\ DecisionHistory]_decisionVars
             PROVE  QuietInv'
  OBVIOUS
<1>1. CASE UNCHANGED decisionVars
  BY <1>1 DEF QuietInv, decisionVars
<1>2. ASSUME Withdraw \/ Establish
      PROVE  QuietInv'
  <2>1. changes' = changes + 1
    BY <1>2 DEF Withdraw, Establish, Changing
  <2> QED BY <2>1 DEF QuietInv
<1>3. ASSUME DecisionAction, DecisionHistory
      PROVE  QuietInv'
  <2>1. facts' = facts
    BY <1>3 DEF DecisionAction, Ask, GenerateIdToken, FindApplication, AuthenticateJwt,
       AuthenticateBearer, CreateOauthResponse, TrustedApplications, UserOrganizations, UserRoles,
       RolePermissions, UserPermissions, AppAuthzforceDomain, AnswerUser, AnswerPolicy,
       CredentialGrants, CheckPerm, Fail, Still
  <2>2. changes' = changes \/ (Doing("none") /\ changes' = 0)
    BY <1>3 DEF DecisionAction, Ask, GenerateIdToken, FindApplication, AuthenticateJwt,
       AuthenticateBearer, CreateOauthResponse, TrustedApplications, UserOrganizations, UserRoles,
       RolePermissions, UserPermissions, AppAuthzforceDomain, AnswerUser, AnswerPolicy,
       CredentialGrants, CheckPerm, Fail, Still
  <2>3. CASE Doing("none")
    BY <1>3, <2>1, <2>2, <2>3 DEF QuietInv, DecisionHistory, Doing
  <2>4. CASE ~Doing("none")
    <3>1. changes' = changes
      BY <2>2, <2>4
    <3>2. changes = 0 => ever = facts /\ always = facts
      BY <2>4 DEF QuietInv, Doing
    <3>3. changes = 0 => question'.pc = "none" \/ (ever' = facts /\ always' = facts)
      BY <1>3, <2>1, <2>4, <3>2 DEF DecisionHistory
    <3> QED BY <2>1, <3>1, <3>3 DEF QuietInv
  <2> QED BY <2>3, <2>4
<1> QED BY <1>1, <1>2, <1>3 DEF DecisionStep

\* What the tables say, where an answer is given (its word on an untrusted application, a
\* decision, the roles and the attributes it tells).
AnswerIsRight ==
    LET q == question.q   a == question.app   answer == question.answer IN
    question.pc = "answered" =>
        /\ answer \in {"Permit", "Deny"} => (answer = "Permit" <=> Allowed(facts, q, a))
        /\ answer = "Untrusted" => ~Accepted(facts, q, a)
        /\ answer \in {"Permit", "Deny", "none"} /\ q.kind \in {"bearer", "jwt", "idToken"} =>
            /\ Accepted(facts, q, a)
            /\ question.all = PlaysIn(facts, q.user, a)
            /\ \A x \in Attributes :
                  x \in question.shared <=> <<"consents", q.user, q.holder, x>> \in facts

\* An answer for which no row changed while its queries ran is the right one: it permits
\* exactly what a chain of assignment, grant and permission allows, and tells exactly the
\* roles and attributes that are the user's; however the queries that run side by side are
\* ordered (search_user_info).
THEOREM QuietAnswersAreRight == DecisionSpec => [](changes = 0 => AnswerIsRight)
<1>1. DecisionInit => QuietInv
  BY DEF DecisionInit, QuietInv, Nothing
<1>2. DecisionInv /\ QuietInv => (changes = 0 => AnswerIsRight)
  <2> SUFFICES ASSUME DecisionInv, QuietInv, changes = 0, question.pc = "answered"
               PROVE  AnswerIsRight
    BY DEF AnswerIsRight
  <2>1. ever = facts /\ always = facts
    BY DEF QuietInv
  <2>2. AnswersHaveGrounds
    BY DEF DecisionInv
  <2>3. /\ question.answer = "Permit" => Allowed(facts, question.q, question.app)
        /\ question.answer = "Deny" => ~Allowed(facts, question.q, question.app)
        /\ question.answer = "Untrusted" => ~Accepted(facts, question.q, question.app)
    BY <2>1, <2>2 DEF AnswersHaveGrounds
  <2>4. ASSUME question.answer \in {"Permit", "Deny", "none"},
               question.q.kind \in {"bearer", "jwt", "idToken"}
        PROVE  /\ Accepted(facts, question.q, question.app)
               /\ question.all = PlaysIn(facts, question.q.user, question.app)
               /\ \A x \in Attributes : x \in question.shared
                     <=> <<"consents", question.q.user, question.q.holder, x>> \in facts
    BY <2>1, <2>2, <2>4 DEF AnswersHaveGrounds
  <2> QED BY <2>3, <2>4 DEF AnswerIsRight
<1> QED BY <1>1, <1>2, DecisionFirst, DecisionNext, QuietStays, PTL DEF DecisionSpec

(***************************************************************************)
(* The page.  Before the lists have come nothing is on it.  While it is    *)
(* edited, its lists are what it shows; roles and permissions on it are in *)
(* the tables, or the answer that takes them off is on its way; and all    *)
(* grants are of roles with a list, which the form will replace.           *)
(***************************************************************************)
CallType == [kind: CallKinds, about: PageRoles \union PagePermissions \union {None},
             step: {"asked", "done", "refused"}, read: Kept \union {Nobody}]
ShownType == [roles: SUBSET PageRoles, permissions: SUBSET PagePermissions,
              fields: SUBSET PageRoles]
\* A call is about a thing of its kind.
AboutOK(c) ==
    /\ c.kind \in {"rename", "delete role"} => c.about \in PageRoles
    /\ c.kind = "create role" => c.about \in Custom
    /\ c.kind = "delete permission" => c.about \in PagePermissions
    /\ c.kind = "create permission" => c.about \in Extra
    /\ c.kind = "load" /\ c.step = "done" => c.read \in Kept
PageTypes ==
    /\ kept \in Kept
    /\ kept.grants \subseteq kept.roles \X (kept.permissions \union {InternalPermission})
    /\ calls \subseteq CallType /\ (\A c \in calls : AboutOK(c))
    /\ shown \in ShownType /\ shown.fields \subseteq shown.roles
    /\ wished \in [PageRoles -> SUBSET PagePermissions]
    /\ selected \in PageRoles \union {None} /\ viewed \in PageRoles \union {None}
    /\ strayed \in BOOLEAN /\ hurried \in BOOLEAN

Loading ==
    /\ assign = Nobody /\ shown = [roles |-> {}, permissions |-> {}, fields |-> {}]
    /\ selected = None /\ viewed = None
    /\ \E c \in calls : /\ calls = {c} /\ c.kind = "load" /\ c.about = None
                        /\ c.step \in {"asked", "done"} /\ (c.step = "done" => c.read = kept)

\* The requests about one of the lists: x is a call's thing, "listed" what the page shows of
\* the list, "there" what the tables hold of it.
RowsKept(cs, deleting, listed, there) ==
    \A x \in listed : x \in there
                        \/ \E c \in cs : c.kind = deleting /\ c.about = x /\ c.step = "done"
DeletesOK(cs, deleting, listed, there) ==
    \A c \in cs : c.kind = deleting =>
        /\ c.about \in listed
        /\ (c.step = "asked" /\ c.about \in there) \/ (c.step = "done" /\ c.about \notin there)
CreatesOK(cs, creating, new, there) ==
    \A c \in cs : c.kind = creating =>
        c.about \in new /\ (c.step = "asked" \/ (c.step = "done" /\ c.about \in there))
ListOK(cs, deleting, creating, listed, all, there) ==
    /\ RowsKept(cs, deleting, listed, there) /\ DeletesOK(cs, deleting, listed, there)
    /\ CreatesOK(cs, creating, all \ listed, there)
UniqueCalls(cs) == \A c, d \in cs : c.kind = d.kind /\ c.about = d.about => c = d

ShownRoles == shown.roles \ {InternalRole}
ShownPermissions == shown.permissions \ {InternalPermission}
RoleCallsOK == ListOK(calls, "delete role", "create role", ShownRoles, Custom, kept.roles)
PermissionCallsOK ==
    ListOK(calls, "delete permission", "create permission", ShownPermissions, Extra,
           kept.permissions)
OthersOK == \A c \in calls : c.kind # "load" /\ (c.kind = "rename" => c.step # "refused")
CallsOK == OthersOK /\ UniqueCalls(calls) /\ RoleCallsOK /\ PermissionCallsOK

ListsAreShown ==
    /\ DOMAIN assign \subseteq shown.roles /\ selected \in shown.roles \union {None}
    /\ \A r \in Custom : wished[r] = Given(r) /\ Given(r) \subseteq shown.permissions
    /\ viewed \in Custom => marks = Given(viewed)
GrantsAreListed == \A g \in kept.grants : g[1] \in DOMAIN assign
Edited == CallsOK /\ ListsAreShown /\ GrantsAreListed

Submitted ==
    /\ calls = {} /\ body = assign
    /\ DOMAIN assign \ {InternalRole} \subseteq kept.roles
    /\ \A r \in Custom : wished[r] = Given(r)
                         /\ Given(r) \subseteq kept.permissions \union {InternalPermission}
    /\ saving = "sent" => GrantsAreListed
    /\ saving = "destroyed" => kept.grants = {}
    /\ saving # "failed"
    /\ saving = "saved" => \A r \in kept.roles : Has(r) = wished[r]

PageInv ==
    /\ PageTypes /\ saving \in {"editing", "sent", "destroyed", "saved", "failed"}
    /\ ~strayed /\ ~hurried =>
        IF saving = "editing" THEN Loading \/ Edited ELSE Submitted

\* What the requests are about, and that there is one of each kind about each thing.
LEMMA CallFields ==
  ASSUME PageTypes, NEW c \in calls
  PROVE  /\ c.kind \in CallKinds /\ c.about \in PageRoles \union PagePermissions \union {None}
         /\ c.step \in {"asked", "done", "refused"} /\ c \in CallType
BY DEF PageTypes, CallType

LEMMA ShownFields ==
  ASSUME PageTypes
  PROVE  /\ shown.roles \subseteq PageRoles /\ shown.permissions \subseteq PagePermissions
         /\ shown.fields \subseteq shown.roles
         /\ kept.roles \subseteq Custom /\ kept.permissions \subseteq Extra
         /\ kept.grants \subseteq kept.roles \X (kept.permissions \union {InternalPermission})
BY DEF PageTypes, ShownType, Kept

\* Nothing but the answer can come while the page loads.
LEMMA LoadingQuiet ==
  ASSUME PageTypes, Loading, ~hurried',
         \/ SelectRole \/ EditRole \/ CancelEdit \/ Rename \/ CreateRole \/ DeleteRole
         \/ SelectPermission \/ CreatePermission \/ DeletePermission \/ SubmitAssign
  PROVE  FALSE
<1>1. /\ shown.roles = {} /\ shown.fields = {} /\ shown.permissions = {} /\ viewed = None
      /\ \E c \in calls : c.about = None
  BY DEF Loading
<1>2. ~UnknownToCalls(None)
  BY <1>1 DEF UnknownToCalls
<1>3. CASE SelectRole \/ EditRole \/ CancelEdit
  BY <1>1, <1>3 DEF SelectRole, EditRole, CancelEdit
<1>4. CASE Rename \/ CreateRole \/ DeleteRole \/ CreatePermission \/ DeletePermission
  BY <1>2, <1>4 DEF Rename, CreateRole, DeleteRole, CreatePermission, DeletePermission, Request
<1>5. CASE SelectPermission
  BY <1>1, <1>5 DEF SelectPermission
<1>6. CASE SubmitAssign
  BY <1>1, <1>6 DEF SubmitAssign
<1> QED BY <1>3, <1>4, <1>5, <1>6

LEMMA CallsStay ==
  ASSUME CallsOK, calls' = calls, kept' = kept, shown'.roles = shown.roles,
         shown'.permissions = shown.permissions
  PROVE  CallsOK'
BY DEF CallsOK, OthersOK, RoleCallsOK, PermissionCallsOK, ShownRoles, ShownPermissions

\* What becomes of a list's requests as one of them comes, is served or answered.
LEMMA CallComes ==
  ASSUME NEW cs, NEW deleting, NEW creating, NEW listed, NEW all, NEW there,
         ListOK(cs, deleting, creating, listed, all, there), deleting # creating,
         NEW new, new.step = "asked",
         \A c \in cs : ~(c.kind = new.kind /\ c.about = new.about),
         new.kind = deleting => new.about \in listed,
         new.kind = creating => new.about \in all \ listed
  PROVE  ListOK(cs \union {new}, deleting, creating, listed, all, there)
<1>1. RowsKept(cs \union {new}, deleting, listed, there)
  BY DEF ListOK, RowsKept
<1>2. new.kind = deleting => new.about \in there
  BY DEF ListOK, RowsKept
<1>3. DeletesOK(cs \union {new}, deleting, listed, there)
  BY <1>2 DEF ListOK, DeletesOK
<1>4. CreatesOK(cs \union {new}, creating, all \ listed, there)
  BY DEF ListOK, CreatesOK
<1> QED BY <1>1, <1>3, <1>4 DEF ListOK

LEMMA OtherServed ==
  ASSUME NEW cs, NEW deleting, NEW creating, NEW listed, NEW all, NEW there,
         ListOK(cs, deleting, creating, listed, all, there),
         NEW c \in cs, NEW d, c.kind \notin {deleting, creating}, d.kind = c.kind
  PROVE  /\ ListOK((cs \ {c}) \union {d}, deleting, creating, listed, all, there)
         /\ ListOK(cs \ {c}, deleting, creating, listed, all, there)
BY DEF ListOK, RowsKept, DeletesOK, CreatesOK

LEMMA DeleteServed ==
  ASSUME NEW cs, NEW deleting, NEW creating, NEW listed, NEW all, NEW there,
         ListOK(cs, deleting, creating, listed, all, there), deleting # creating, UniqueCalls(cs),
         NEW c \in cs, c.kind = deleting,
         NEW d, d.kind = deleting, d.about = c.about, d.step = "done"
  PROVE  ListOK((cs \ {c}) \union {d}, deleting, creating, listed, all, there \ {c.about})
<1>1. c.about \in listed
  BY DEF ListOK, DeletesOK
<1>2. RowsKept((cs \ {c}) \union {d}, deleting, listed, there \ {c.about})
  BY <1>1 DEF ListOK, RowsKept
<1>3. DeletesOK((cs \ {c}) \union {d}, deleting, listed, there \ {c.about})
  BY <1>1 DEF ListOK, DeletesOK, UniqueCalls
<1>4. CreatesOK((cs \ {c}) \union {d}, creating, all \ listed, there \ {c.about})
  BY <1>1 DEF ListOK, CreatesOK
<1> QED BY <1>2, <1>3, <1>4 DEF ListOK

LEMMA CreateServed ==
  ASSUME NEW cs, NEW deleting, NEW creating, NEW listed, NEW all, NEW there,
         ListOK(cs, deleting, creating, listed, all, there), deleting # creating,
         NEW c \in cs, c.kind = creating,
         NEW d, d.kind = creating, d.about = c.about, d.step = "done"
  PROVE  ListOK((cs \ {c}) \union {d}, deleting, creating, listed, all, there \union {c.about})
<1>1. c.about \in all \ listed
  BY DEF ListOK, CreatesOK
<1>2. RowsKept((cs \ {c}) \union {d}, deleting, listed, there \union {c.about})
  BY DEF ListOK, RowsKept
<1>3. DeletesOK((cs \ {c}) \union {d}, deleting, listed, there \union {c.about})
  BY <1>1 DEF ListOK, DeletesOK
<1>4. CreatesOK((cs \ {c}) \union {d}, creating, all \ listed, there \union {c.about})
  BY <1>1 DEF ListOK, CreatesOK
<1> QED BY <1>2, <1>3, <1>4 DEF ListOK

LEMMA DeleteAnswered ==
  ASSUME NEW cs, NEW deleting, NEW creating, NEW listed, NEW all, NEW there,
         ListOK(cs, deleting, creating, listed, all, there), deleting # creating, UniqueCalls(cs),
         NEW c \in cs, c.kind = deleting
  PROVE  ListOK(cs \ {c}, deleting, creating, listed \ {c.about}, all, there)
BY DEF ListOK, RowsKept, DeletesOK, CreatesOK, UniqueCalls

LEMMA CreateAnswered ==
  ASSUME NEW cs, NEW deleting, NEW creating, NEW listed, NEW all, NEW there,
         ListOK(cs, deleting, creating, listed, all, there), deleting # creating, UniqueCalls(cs),
         NEW c \in cs, c.kind = creating, c.step = "done"
  PROVE  ListOK(cs \ {c}, deleting, creating, listed \union {c.about}, all, there)
BY DEF ListOK, RowsKept, DeletesOK, CreatesOK, UniqueCalls

LEMMA UniqueStays ==
  ASSUME NEW cs, UniqueCalls(cs), NEW c \in cs
  PROVE  /\ UniqueCalls(cs \ {c})
         /\ \A d : d.kind = c.kind /\ d.about = c.about => UniqueCalls((cs \ {c}) \union {d})
BY DEF UniqueCalls

\* A new request fits in.
Fitting(kind, x) ==
    \/ kind = "rename" /\ x \in shown.roles
    \/ kind = "create role" /\ x \in Custom \ shown.roles
    \/ kind = "delete role" /\ x \in shown.roles \ {InternalRole}
    \/ kind = "create permission" /\ x \in Extra \ shown.permissions
    \/ kind = "delete permission" /\ x \in shown.permissions \ {InternalPermission}
LEMMA RequestCalls ==
  ASSUME PageTypes, NEW kind, NEW x, Request(kind, x), Fitting(kind, x),
         x \in PageRoles \union PagePermissions, shown' = shown
  PROVE  /\ calls' \subseteq CallType /\ (\A c \in calls' : AboutOK(c)) /\ kept' = kept /\ saving' = "editing" /\ saving = "editing"
         /\ strayed' = strayed /\ (~hurried' => ~hurried) /\ hurried' \in BOOLEAN
         /\ CallsOK => CallsOK'
<1> DEFINE new == [kind |-> kind, about |-> x, step |-> "asked", read |-> Nobody]
<1>1. /\ calls' = calls \union {new} /\ kept' = kept /\ saving = "editing" /\ saving' = saving
      /\ \A c \in calls : <<c.kind, c.about>> # <<kind, x>>
  BY DEF Request, Clicks, ServerSide
<1>2. /\ new \in CallType /\ new.kind = kind /\ new.about = x /\ new.step = "asked"
      /\ AboutOK(new)
  BY ShownFields DEF CallType, CallKinds, Fitting, AboutOK, PageRoles, PagePermissions
<1>3. strayed' = strayed /\ hurried' = (hurried \/ ~UnknownToCalls(None))
  BY DEF Request
<1>4. hurried' \in BOOLEAN /\ (~hurried' => ~hurried)
  BY <1>3 DEF PageTypes
<1> HIDE DEF new
<1>5. ASSUME CallsOK PROVE CallsOK'
  <2>1. \A c \in calls : ~(c.kind = new.kind /\ c.about = new.about)
    BY <1>1, <1>2
  <2>2. UniqueCalls(calls')
    BY <1>1, <1>2, <1>5, <2>1 DEF CallsOK, UniqueCalls
  <2>3. OthersOK'
    BY <1>1, <1>2, <1>5 DEF CallsOK, OthersOK, Fitting
  <2>4. RoleCallsOK'
    <3>1. new.kind = "delete role" => new.about \in ShownRoles
      BY <1>2 DEF Fitting, ShownRoles
    <3>2. new.kind = "create role" => new.about \in Custom \ ShownRoles
      BY <1>2 DEF Fitting, ShownRoles
    <3>3. ListOK(calls \union {new}, "delete role", "create role", ShownRoles, Custom, kept.roles)
      BY <1>2, <1>5, <2>1, <3>1, <3>2, CallComes DEF CallsOK, RoleCallsOK
    <3> QED BY <1>1, <3>3 DEF RoleCallsOK, ShownRoles
  <2>5. PermissionCallsOK'
    <3>1. new.kind = "delete permission" => new.about \in ShownPermissions
      BY <1>2 DEF Fitting, ShownPermissions
    <3>2. new.kind = "create permission" => new.about \in Extra \ ShownPermissions
      BY <1>2 DEF Fitting, ShownPermissions
    <3>3. ListOK(calls \union {new}, "delete permission", "create permission",
                 ShownPermissions, Extra, kept.permissions)
      BY <1>2, <1>5, <2>1, <3>1, <3>2, CallComes DEF CallsOK, PermissionCallsOK
    <3> QED BY <1>1, <3>3 DEF PermissionCallsOK, ShownPermissions
  <2> QED BY <2>2, <2>3, <2>4, <2>5 DEF CallsOK
<1> QED BY <1>1, <1>2, <1>3, <1>4, <1>5 DEF PageTypes

\* What a step on the page has to show.
LEMMA QuestionGoesOn ==
  ASSUME PageInv, saving = "editing", saving' = "editing", PageTypes',
         ~strayed' => ~strayed, ~hurried' => ~hurried,
         ~strayed' /\ ~hurried' => ~Loading,
         ~strayed' /\ ~hurried' /\ Edited => Edited'
  PROVE  PageInv'
BY DEF PageInv

LEMMA ListsStay ==
  ASSUME ListsAreShown, assign' = assign, wished' = wished, viewed' = viewed, marks' = marks,
         shown.permissions \subseteq shown'.permissions, shown.roles \subseteq shown'.roles,
         selected' \in {selected, None}
  PROVE  ListsAreShown'
BY DEF ListsAreShown, Given

\* Whose permissions the panel shows, it shows as the list has them.
LEMMA PanelShows ==
  ASSUME PageTypes, NEW r \in shown.roles, ShowPermissions(r), shown'.roles = shown.roles,
         shown'.permissions = shown.permissions, assign' = assign, wished' = wished,
         selected' \in shown.roles \union {None}
  PROVE  /\ viewed' \in PageRoles \union {None} /\ selected' \in PageRoles \union {None}
         /\ ListsAreShown => ListsAreShown'
<1>1. r \in PageRoles /\ selected' \in PageRoles \union {None} /\ viewed' = r
  BY ShownFields DEF ShowPermissions
<1>2. ASSUME ListsAreShown PROVE ListsAreShown'
  <2>1. r \in Custom => marks' = Given(r)
    <3>1. r \in Custom => marks' = Given(r) \intersect shown.permissions
      BY PageAssumption DEF ShowPermissions
    <3> QED BY <1>2, <3>1 DEF ListsAreShown
  <2> QED BY <1>1, <1>2, <2>1 DEF ListsAreShown, Given
<1> QED BY <1>1, <1>2

LEMMA SelectInv ==
  ASSUME PageInv, SelectRole \/ EditRole \/ CancelEdit
  PROVE  PageInv'
<1>1. /\ saving = "editing" /\ saving' = "editing" /\ strayed' = strayed /\ hurried' = hurried
      /\ calls' = calls /\ kept' = kept /\ assign' = assign /\ wished' = wished
  BY DEF SelectRole, EditRole, CancelEdit, OnPage, Clicks, ServerSide, PageLists, RowAgain
<1>2. PageTypes
  BY DEF PageInv
<1>3. /\ shown' \in ShownType /\ shown'.roles = shown.roles
      /\ shown'.permissions = shown.permissions /\ shown'.fields \subseteq shown'.roles
  <2>1. CASE SelectRole
    BY <1>2, <2>1 DEF SelectRole, PageLists, PageTypes
  <2>2. CASE EditRole
    <3>1. PICK r \in shown.roles : shown' = [shown EXCEPT !.fields = shown.fields \union {r}]
      BY <2>2, <1>2 DEF EditRole, PageTypes, ShownType
    <3> QED BY <1>2, <3>1 DEF PageTypes, ShownType
  <2>3. CASE CancelEdit
    <3>1. PICK r \in shown.roles : shown' = [shown EXCEPT !.fields = shown.fields \ {r}]
      BY <2>3, <1>2 DEF CancelEdit, RowAgain, PageTypes, ShownType
    <3> QED BY <1>2, <3>1 DEF PageTypes, ShownType
  <2> QED BY <2>1, <2>2, <2>3
<1>4. /\ viewed' \in PageRoles \union {None} /\ selected' \in PageRoles \union {None}
      /\ ListsAreShown => ListsAreShown'
  <2>1. CASE SelectRole
    <3>1. PICK r \in shown.roles : ShowPermissions(r) /\ selected' = r
      BY <2>1 DEF SelectRole
    <3> QED BY <1>1, <1>2, <1>3, <3>1, PanelShows
  <2>2. CASE EditRole
    <3>1. PICK r \in shown.roles :
            ShowPermissions(r) /\ selected' = (IF selected = r THEN None ELSE selected)
      BY <2>2 DEF EditRole
    <3>2. /\ viewed' \in PageRoles \union {None} /\ selected' \in PageRoles \union {None}
      BY <1>2, <3>1, ShownFields DEF ShowPermissions, PageTypes
    <3>3. ASSUME ListsAreShown PROVE ListsAreShown'
      <4>1. selected' \in shown.roles \union {None}
        BY <3>1, <3>3 DEF ListsAreShown
      <4> QED BY <1>1, <1>2, <1>3, <3>1, <3>3, <4>1, PanelShows
    <3> QED BY <3>2, <3>3
  <2>3. CASE CancelEdit
    <3>1. selected' \in {selected, None} /\ viewed' = viewed /\ marks' = marks
      BY <2>3 DEF CancelEdit, RowAgain
    <3> QED BY <1>1, <1>2, <1>3, <3>1, ListsStay DEF PageTypes
  <2> QED BY <2>1, <2>2, <2>3
<1>5. PageTypes'
  BY <1>1, <1>2, <1>3, <1>4 DEF PageTypes
<1>6. Edited => Edited'
  BY <1>1, <1>3, <1>4, CallsStay DEF Edited, GrantsAreListed
<1>7. ~hurried' => ~Loading
  BY <1>2, LoadingQuiet
<1> QED BY <1>1, <1>5, <1>6, <1>7, QuestionGoesOn

LEMMA SendRequestInv ==
  ASSUME PageInv, Rename \/ CreateRole \/ DeleteRole \/ CreatePermission \/ DeletePermission
  PROVE  PageInv'
<1>1. PageTypes
  BY DEF PageInv
<1>2. PICK kind \in CallKinds, x \in PageRoles \union PagePermissions :
        Request(kind, x) /\ Fitting(kind, x)
  <2>1. CASE Rename
    BY <1>1, <2>1, ShownFields DEF Rename, Fitting, CallKinds
  <2>2. CASE CreateRole
    BY <2>2 DEF CreateRole, Fitting, CallKinds, PageRoles
  <2>3. CASE DeleteRole
    BY <1>1, <2>3, ShownFields DEF DeleteRole, Fitting, CallKinds
  <2>4. CASE CreatePermission
    BY <2>4 DEF CreatePermission, Fitting, CallKinds, PagePermissions
  <2>5. CASE DeletePermission
    BY <1>1, <2>5, ShownFields DEF DeletePermission, Fitting, CallKinds
  <2> QED BY <2>1, <2>2, <2>3, <2>4, <2>5
<1>3. shown' = shown /\ assign' = assign /\ wished' = wished
  BY DEF Rename, CreateRole, DeleteRole, CreatePermission, DeletePermission, PageLists
<1>4. /\ calls' \subseteq CallType /\ (\A c \in calls' : AboutOK(c)) /\ kept' = kept /\ saving' = "editing" /\ saving = "editing"
      /\ strayed' = strayed /\ (~hurried' => ~hurried) /\ hurried' \in BOOLEAN
      /\ CallsOK => CallsOK'
  BY <1>1, <1>2, <1>3, RequestCalls
<1>5. /\ viewed' \in PageRoles \union {None} /\ selected' \in PageRoles \union {None}
      /\ ListsAreShown => ListsAreShown'
  <2>1. CASE DeleteRole
    <3>1. PICK r \in shown.roles : ShowPermissions(r) /\ selected' = r
      BY <2>1 DEF DeleteRole
    <3> QED BY <1>1, <1>3, <3>1, PanelShows
  <2>2. CASE ~DeleteRole
    <3>1. viewed' = viewed /\ selected' = selected /\ marks' = marks
      BY <2>2 DEF Rename, CreateRole, CreatePermission, DeletePermission, Panel
    <3> QED BY <1>1, <1>3, <3>1, ListsStay DEF PageTypes
  <2> QED BY <2>1, <2>2
<1>6. PageTypes'
  BY <1>1, <1>3, <1>4, <1>5 DEF PageTypes
<1>7. Edited => Edited'
  BY <1>3, <1>4, <1>5 DEF Edited, GrantsAreListed
<1>8. ~hurried' => ~Loading
  BY <1>1, LoadingQuiet
<1> QED BY <1>4, <1>6, <1>7, <1>8, QuestionGoesOn

LEMMA GivenAfter ==
  ASSUME NEW s, NEW ps, assign' = Assigned(s, ps)
  PROVE  /\ DOMAIN assign' = DOMAIN assign \union {s} /\ Given(s)' = ps
         /\ \A r : r # s => Given(r)' = Given(r)
BY DEF Assigned, Given

LEMMA SelectPermissionInv ==
  ASSUME PageInv, SelectPermission
  PROVE  PageInv'
<1>1. /\ saving = "editing" /\ saving' = "editing" /\ hurried' = hurried /\ shown' = shown
      /\ calls' = calls /\ kept' = kept /\ selected' = selected /\ viewed' = viewed
      /\ strayed' = (strayed \/ viewed # selected) /\ viewed # None
  BY DEF SelectPermission, OnPage, Clicks, ServerSide
<1>2. PageTypes
  BY DEF PageInv
<1>3. strayed' \in BOOLEAN /\ (~strayed' => ~strayed /\ viewed = selected)
  <2>1. (viewed # selected) \in BOOLEAN
    OBVIOUS
  <2>2. PICK b \in BOOLEAN : b = (viewed # selected)
    BY <2>1
  <2>3. strayed' = (strayed \/ b)
    BY <1>1, <2>2
  <2>4. strayed' \in BOOLEAN /\ (~strayed' => ~strayed /\ ~b)
    BY <1>2, <2>3 DEF PageTypes
  <2> QED BY <2>2, <2>4
<1>4. PICK q \in IF viewed = InternalRole THEN {InternalPermission} ELSE shown.permissions :
        IF selected = InternalRole THEN UNCHANGED <<assign, marks, wished>>
        ELSE /\ assign' = Assigned(selected, IF q \in marks THEN Given(selected) \ {q}
                                                            ELSE Given(selected) \union {q})
             /\ marks' = IF q \in marks THEN marks \ {q} ELSE marks \union {q}
             /\ wished' = [wished EXCEPT ![viewed] = marks' \intersect shown.permissions]
  BY DEF SelectPermission
<1>5. wished' \in [PageRoles -> SUBSET PagePermissions]
  <2>1. marks' \intersect shown.permissions \subseteq PagePermissions
    BY <1>2, ShownFields
  <2> QED BY <1>2, <1>4, <2>1 DEF PageTypes
<1>6. PageTypes'
  BY <1>1, <1>2, <1>3, <1>5 DEF PageTypes
<1>7. ASSUME ~strayed', Edited PROVE Edited'
  <2>1. viewed = selected
    BY <1>3, <1>7
  <2>2. ListsAreShown
    BY <1>7 DEF Edited
  <2>3. ListsAreShown' /\ DOMAIN assign \subseteq DOMAIN assign'
    <3>1. CASE selected = InternalRole
      <4>1. assign' = assign /\ marks' = marks /\ wished' = wished
        BY <1>4, <3>1
      <4> QED BY <1>1, <2>2, <4>1, ListsStay
    <3>2. CASE selected # InternalRole
      <4>1. PICK s \in Custom :
              s = selected /\ s = viewed /\ s \in shown.roles /\ q \in shown.permissions
        BY <1>1, <1>2, <1>4, <2>1, <2>2, <3>2 DEF ListsAreShown, PageTypes, PageRoles
      <4>2. PICK given :
              given = IF q \in marks THEN Given(selected) \ {q} ELSE Given(selected) \union {q}
        OBVIOUS
      <4>3. marks = Given(selected) /\ Given(selected) \subseteq shown.permissions
        BY <2>1, <2>2, <4>1 DEF ListsAreShown
      <4>4. marks' = given /\ given \subseteq shown.permissions
        BY <1>4, <3>2, <4>1, <4>2, <4>3
      <4>5. assign' = Assigned(s, given)
        BY <1>4, <3>2, <4>1, <4>2
      <4>6. /\ DOMAIN assign' = DOMAIN assign \union {s} /\ Given(s)' = given
            /\ \A r : r # s => Given(r)' = Given(r)
        BY <4>5, GivenAfter
      <4>7. wished' = [wished EXCEPT ![s] = given]
        <5>1. given \intersect shown.permissions = given
          BY <4>4
        <5> QED BY <1>4, <3>2, <4>1, <4>4, <5>1
      <4>8. wished'[s] = given /\ \A r \in Custom : r # s => wished'[r] = wished[r]
        BY <1>2, <4>1, <4>7 DEF PageTypes, PageRoles
      <4>9. \A r \in Custom : wished'[r] = Given(r)' /\ Given(r)' \subseteq shown.permissions
        <5> SUFFICES ASSUME NEW r \in Custom
                     PROVE  wished'[r] = Given(r)' /\ Given(r)' \subseteq shown.permissions
          OBVIOUS
        <5>1. CASE r = s
          <6>1. Given(r)' = given /\ wished'[r] = given
            BY <4>6, <4>8, <5>1
          <6> QED BY <4>4, <6>1
        <5>2. CASE r # s
          <6>1. Given(r)' = Given(r) /\ wished'[r] = wished[r]
            BY <4>6, <4>8, <5>2
          <6> QED BY <2>2, <6>1 DEF ListsAreShown
        <5> QED BY <5>1, <5>2
      <4>10. viewed' \in Custom => marks' = Given(viewed)'
        <5>1. viewed' = s
          BY <1>1, <4>1
        <5> QED BY <4>4, <4>6, <5>1
      <4> QED BY <1>1, <2>2, <4>1, <4>6, <4>9, <4>10 DEF ListsAreShown
    <3> QED BY <3>1, <3>2
  <2> QED BY <1>1, <1>7, <2>3, CallsStay DEF Edited, GrantsAreListed
<1>8. ~hurried' => ~Loading
  BY <1>2, LoadingQuiet
<1> QED BY <1>1, <1>3, <1>6, <1>7, <1>8, QuestionGoesOn

\* Each way a request is served.
LEMMA ServeCalls ==
  ASSUME PageTypes, NEW c \in calls, c.step = "asked",
         ServeLoad(c) \/ ServeRole(c) \/ ServePermission(c)
  PROVE  /\ kept' \in Kept /\ kept'.grants \subseteq kept.grants
         /\ kept'.grants \subseteq kept'.roles \X (kept'.permissions \union {InternalPermission})
         /\ calls' \subseteq CallType /\ (\A d \in calls' : AboutOK(d))
         /\ Loading /\ shown' = shown /\ assign' = assign /\ selected' = selected
                /\ viewed' = viewed => Loading'
         /\ CallsOK /\ shown' = shown => CallsOK'
<1>1. /\ c.kind \in CallKinds /\ c \in CallType /\ AboutOK(c)
  BY CallFields DEF PageTypes
<1>2. /\ kept \in Kept /\ kept.roles \subseteq Custom /\ kept.permissions \subseteq Extra
      /\ kept.grants \subseteq kept.roles \X (kept.permissions \union {InternalPermission})
  BY ShownFields DEF PageTypes
<1>3. Loading => calls = {c} /\ c.kind = "load" /\ c.about = None
  BY DEF Loading
<1>4. CASE ServeLoad(c)
  <2>1. PICK d : d = [c EXCEPT !.step = "done", !.read = kept]
    OBVIOUS
  <2>2. /\ c.kind = "load" /\ calls' = (calls \ {c}) \union {d} /\ kept' = kept
    BY <1>4, <2>1 DEF ServeLoad
  <2>3. d \in CallType /\ d.kind = "load" /\ d.about = c.about /\ d.step = "done" /\ d.read = kept
    BY <1>1, <1>2, <2>1, <2>2 DEF CallType
  <2>4. AboutOK(d)
    BY <1>2, <2>3 DEF AboutOK
  <2>5. Loading /\ shown' = shown /\ assign' = assign /\ selected' = selected
          /\ viewed' = viewed => Loading'
    <3> SUFFICES ASSUME Loading, shown' = shown, assign' = assign, selected' = selected,
                        viewed' = viewed
                 PROVE  Loading'
      OBVIOUS
    <3>1. calls' = {d} /\ d.kind = "load" /\ d.about = None /\ d.step = "done" /\ d.read = kept'
      BY <1>3, <2>2, <2>3
    <3> QED BY <3>1 DEF Loading
  <2>6. ~CallsOK
    BY <2>2 DEF CallsOK, OthersOK
  <2> QED BY <1>2, <2>2, <2>3, <2>4, <2>5, <2>6 DEF PageTypes
<1>5. CASE ServeRole(c) \/ ServePermission(c)
  <2>1. PICK step \in {"done", "refused"} :
        /\ Step(c, step)
        /\ c.kind \in {"create role", "rename", "create permission"} => step = "done"
        /\ c.kind = "delete role" /\ c.about \in kept.roles => step = "done"
        /\ c.kind = "delete permission" /\ c.about \in kept.permissions => step = "done"
        /\ c.kind \in {"create role", "rename", "delete role", "create permission",
                       "delete permission"}
    BY <1>5 DEF ServeRole, ServePermission
  <2>2. PICK d : d = [c EXCEPT !.step = step]
    OBVIOUS
  <2>3. /\ calls' = (calls \ {c}) \union {d} /\ d \in CallType /\ d.kind = c.kind
        /\ d.about = c.about /\ d.step = step
    <3>1. d \in CallType /\ d.kind = c.kind /\ d.about = c.about /\ d.step = step
      BY <1>1, <2>1, <2>2 DEF CallType
    <3>2. calls' = (calls \ {c}) \union {d}
      BY <2>1, <2>2 DEF Step
    <3> QED BY <3>1, <3>2
  <2>4. AboutOK(d) /\ \A e \in calls' : AboutOK(e)
    BY <1>1, <2>1, <2>3 DEF AboutOK, PageTypes
  <2>5. ~Loading
    BY <1>3, <2>1
  <2>6. calls' \subseteq CallType
    BY <2>3 DEF PageTypes
  <2>7. kept' \in {kept, [kept EXCEPT !.roles = kept.roles \union {c.about}],
                   [kept EXCEPT !.roles = kept.roles \ {c.about},
                                !.grants = {g \in kept.grants : g[1] # c.about}],
                   [kept EXCEPT !.permissions = kept.permissions \union {c.about}],
                   [kept EXCEPT !.permissions = kept.permissions \ {c.about},
                                !.grants = {g \in kept.grants : g[2] # c.about}]}
    BY <1>2, <1>5 DEF ServeRole, ServePermission, Kept
  <2>8. /\ kept'.roles = IF c.kind = "create role" THEN kept.roles \union {c.about}
                         ELSE IF c.kind = "delete role" THEN kept.roles \ {c.about}
                         ELSE kept.roles
        /\ kept'.permissions = IF c.kind = "create permission" THEN kept.permissions \union {c.about}
                         ELSE IF c.kind = "delete permission" THEN kept.permissions \ {c.about}
                         ELSE kept.permissions
        /\ kept'.grants = IF c.kind = "delete role" THEN {g \in kept.grants : g[1] # c.about}
                         ELSE IF c.kind = "delete permission"
                              THEN {g \in kept.grants : g[2] # c.about}
                         ELSE kept.grants
        /\ kept' = [roles |-> kept'.roles, permissions |-> kept'.permissions,
                    grants |-> kept'.grants]
    BY <1>2, <1>5 DEF ServeRole, ServePermission, Kept
  <2>9. /\ kept'.roles \subseteq Custom /\ kept'.permissions \subseteq Extra
        /\ kept'.grants \subseteq kept.grants
    BY <1>1, <1>2, <2>8 DEF AboutOK
  <2>10. kept'.grants \subseteq kept'.roles \X (kept'.permissions \union {InternalPermission})
    <3> SUFFICES ASSUME NEW g \in kept'.grants
                 PROVE  g \in kept'.roles \X (kept'.permissions \union {InternalPermission})
      OBVIOUS
    <3>1. /\ g = <<g[1], g[2]>> /\ g[1] \in kept.roles
          /\ g[2] \in kept.permissions \union {InternalPermission}
      BY <1>2, <2>9
    <3>2. g[1] \in kept'.roles
      BY <2>8, <3>1
    <3>3. g[2] \in kept'.permissions \union {InternalPermission}
      BY <2>8, <3>1
    <3> QED BY <3>1, <3>2, <3>3
  <2>11. kept' \in Kept
    <3>1. kept'.grants \subseteq Custom \X PagePermissions
      BY <1>2, <2>9 DEF Kept
    <3> QED BY <2>8, <2>9, <3>1 DEF Kept
  <2>12. ASSUME CallsOK, shown' = shown PROVE CallsOK'
    <3>1. /\ UniqueCalls(calls) /\ OthersOK
          /\ ListOK(calls, "delete role", "create role", ShownRoles, Custom, kept.roles)
          /\ ListOK(calls, "delete permission", "create permission", ShownPermissions, Extra,
                    kept.permissions)
      BY <2>12 DEF CallsOK, RoleCallsOK, PermissionCallsOK
    <3>2. step = "done"
      <4>1. c.kind = "delete role" => c.about \in kept.roles
        BY <3>1 DEF ListOK, DeletesOK
      <4>2. c.kind = "delete permission" => c.about \in kept.permissions
        BY <3>1 DEF ListOK, DeletesOK
      <4> QED BY <2>1, <4>1, <4>2
    <3>3. UniqueCalls(calls') /\ OthersOK'
      BY <2>1, <2>3, <3>1, <3>2, UniqueStays DEF OthersOK
    <3>4. ListOK(calls', "delete role", "create role", ShownRoles, Custom, kept'.roles)
      <4>1. CASE c.kind = "delete role"
        <5>1. ListOK((calls \ {c}) \union {d}, "delete role", "create role", ShownRoles, Custom,
                     kept.roles \ {c.about})
          BY <2>3, <3>1, <3>2, <4>1, DeleteServed
        <5>2. kept'.roles = kept.roles \ {c.about}
          BY <2>8, <4>1
        <5> QED BY <2>3, <5>1, <5>2
      <4>2. CASE c.kind = "create role"
        <5>1. ListOK((calls \ {c}) \union {d}, "delete role", "create role", ShownRoles, Custom,
                     kept.roles \union {c.about})
          BY <2>3, <3>1, <3>2, <4>2, CreateServed
        <5>2. kept'.roles = kept.roles \union {c.about}
          BY <2>8, <4>2
        <5> QED BY <2>3, <5>1, <5>2
      <4>3. CASE c.kind \notin {"delete role", "create role"}
        <5>1. ListOK((calls \ {c}) \union {d}, "delete role", "create role", ShownRoles, Custom, kept.roles)
          BY <2>3, <3>1, <4>3, OtherServed
        <5>2. kept'.roles = kept.roles
          BY <2>8, <4>3
        <5> QED BY <2>3, <5>1, <5>2
      <4> QED BY <4>1, <4>2, <4>3
    <3>5. ListOK(calls', "delete permission", "create permission", ShownPermissions, Extra,
                 kept'.permissions)
      <4>1. CASE c.kind = "delete permission"
        <5>1. ListOK((calls \ {c}) \union {d}, "delete permission", "create permission", ShownPermissions, Extra,
                     kept.permissions \ {c.about})
          BY <2>3, <3>1, <3>2, <4>1, DeleteServed
        <5>2. kept'.permissions = kept.permissions \ {c.about}
          BY <2>8, <4>1
        <5> QED BY <2>3, <5>1, <5>2
      <4>2. CASE c.kind = "create permission"
        <5>1. ListOK((calls \ {c}) \union {d}, "delete permission", "create permission", ShownPermissions, Extra,
                     kept.permissions \union {c.about})
          BY <2>3, <3>1, <3>2, <4>2, CreateServed
        <5>2. kept'.permissions = kept.permissions \union {c.about}
          BY <2>8, <4>2
        <5> QED BY <2>3, <5>1, <5>2
      <4>3. CASE c.kind \notin {"delete permission", "create permission"}
        <5>1. ListOK((calls \ {c}) \union {d}, "delete permission", "create permission", ShownPermissions, Extra, kept.permissions)
          BY <2>3, <3>1, <4>3, OtherServed
        <5>2. kept'.permissions = kept.permissions
          BY <2>8, <4>3
        <5> QED BY <2>3, <5>1, <5>2
      <4> QED BY <4>1, <4>2, <4>3
    <3> QED BY <2>12, <3>3, <3>4, <3>5
        DEF CallsOK, RoleCallsOK, PermissionCallsOK, ShownRoles, ShownPermissions
  <2> QED BY <2>4, <2>5, <2>6, <2>9, <2>10, <2>11, <2>12
<1> QED BY <1>4, <1>5

LEMMA ServeInv ==
  ASSUME PageInv, Serve
  PROVE  PageInv'
<1>1. /\ shown' = shown /\ assign' = assign /\ wished' = wished /\ selected' = selected
      /\ viewed' = viewed /\ marks' = marks /\ saving' = saving /\ body' = body
      /\ strayed' = strayed /\ hurried' = hurried
  BY DEF Serve, PageLists, Panel
<1>2. PageTypes
  BY DEF PageInv
<1>3. PICK c \in calls :
        c.step = "asked" /\ (ServeLoad(c) \/ ServeRole(c) \/ ServePermission(c))
  BY DEF Serve
<1>4. /\ kept' \in Kept /\ kept'.grants \subseteq kept.grants
      /\ kept'.grants \subseteq kept'.roles \X (kept'.permissions \union {InternalPermission})
      /\ calls' \subseteq CallType /\ (\A d \in calls' : AboutOK(d))
      /\ (Loading => Loading') /\ (CallsOK => CallsOK')
  BY <1>1, <1>2, <1>3, ServeCalls
<1>5. PageTypes'
  BY <1>1, <1>2, <1>4 DEF PageTypes
<1>6. Edited => Edited'
  <2>1. ListsAreShown => ListsAreShown'
    BY <1>1, ListsStay
  <2>2. GrantsAreListed => GrantsAreListed'
    BY <1>1, <1>4 DEF GrantsAreListed
  <2> QED BY <1>4, <2>1, <2>2 DEF Edited
<1>7. ~Submitted
  BY <1>3 DEF Submitted
<1> QED BY <1>1, <1>4, <1>5, <1>6, <1>7 DEF PageInv

\* The lists come, and are what the tables held; nothing has changed since.
LEMMA ParseInv ==
  ASSUME PageInv, saving = "editing", NEW c \in calls, ParseValues(c),
         kept' = kept, saving' = saving, strayed' = strayed, hurried' = hurried
  PROVE  PageInv'
<1>1. /\ c.kind = "load" /\ c.step = "done" /\ calls' = calls \ {c} /\ c.read \in Kept
      /\ selected' = selected /\ viewed' = viewed /\ marks' = marks
  BY DEF ParseValues, Drop, Panel, PageInv, PageTypes, AboutOK
<1>2. PageTypes
  BY DEF PageInv
<1>3. PICK of : of = [r \in PageRoles |-> {g[2] : g \in {x \in c.read.grants : x[1] = r}}]
  OBVIOUS
<1>4. /\ shown' = [shown EXCEPT !.roles = shown.roles \union c.read.roles \union {InternalRole},
                        !.permissions = c.read.permissions \union {InternalPermission}]
      /\ assign' = [r \in {x \in Custom : of[x] # {}} \union {InternalRole} |->
                        IF r = InternalRole THEN {InternalPermission} ELSE of[r]]
      /\ wished' = [r \in PageRoles |->
                        IF r = InternalRole THEN {InternalPermission} ELSE of[r]]
  BY <1>2, <1>3 DEF ParseValues, PageTypes, ShownType
<1>5. /\ c.read.roles \subseteq Custom /\ c.read.permissions \subseteq Extra
      /\ c.read.grants \subseteq Custom \X PagePermissions
  BY <1>1 DEF Kept
<1>6. \A r \in PageRoles : of[r] \subseteq PagePermissions
  BY <1>3, <1>5
<1>7. /\ shown' \in ShownType /\ shown'.fields \subseteq shown'.roles
      /\ shown'.roles = shown.roles \union c.read.roles \union {InternalRole}
      /\ shown'.permissions = c.read.permissions \union {InternalPermission}
  BY <1>2, <1>4, <1>5 DEF PageTypes, ShownType, PageRoles, PagePermissions
<1>8. wished' \in [PageRoles -> SUBSET PagePermissions]
  BY <1>4, <1>6 DEF PagePermissions
<1>9. PageTypes'
  BY <1>1, <1>2, <1>7, <1>8 DEF PageTypes
<1>10. ~Edited
  BY <1>1 DEF Edited, CallsOK, OthersOK
<1>11. ASSUME Loading PROVE Edited'
  <2>1. /\ calls' = {} /\ c.read = kept /\ selected = None /\ viewed = None
        /\ shown.roles = {}
    BY <1>1, <1>11 DEF Loading
  <2>2. /\ kept.roles \subseteq Custom /\ kept.permissions \subseteq Extra
        /\ kept.grants \subseteq kept.roles \X (kept.permissions \union {InternalPermission})
    BY <1>2, ShownFields
  <2>3. CallsOK'
    <3>1. /\ ShownRoles' = kept.roles /\ ShownPermissions' = kept.permissions
      BY <1>7, <2>1, <2>2, PageAssumption DEF ShownRoles, ShownPermissions
    <3>2. /\ ListOK({}, "delete role", "create role", kept.roles, Custom, kept.roles)
          /\ ListOK({}, "delete permission", "create permission", kept.permissions, Extra,
                    kept.permissions)
      BY DEF ListOK, RowsKept, DeletesOK, CreatesOK
    <3>3. RoleCallsOK' /\ PermissionCallsOK'
      BY <2>1, <3>1, <3>2 DEF RoleCallsOK, PermissionCallsOK
    <3> QED BY <2>1, <3>3 DEF CallsOK, OthersOK, UniqueCalls
  <2>4. \A r \in Custom : of[r] = {g[2] : g \in {x \in kept.grants : x[1] = r}}
    BY <1>3, <2>1 DEF PageRoles
  <2>5. \A r \in Custom : of[r] # {} => r \in kept.roles
    BY <2>2, <2>4
  <2>6. \A r \in Custom : of[r] \subseteq kept.permissions \union {InternalPermission}
    BY <2>2, <2>4
  <2>7. DOMAIN assign' \subseteq shown'.roles
    BY <1>4, <1>7, <2>1, <2>5
  <2>8. \A r \in Custom : wished'[r] = of[r] /\ Given(r)' = of[r]
    <3> SUFFICES ASSUME NEW r \in Custom PROVE wished'[r] = of[r] /\ Given(r)' = of[r]
      OBVIOUS
    <3>1. r # InternalRole /\ r \in PageRoles
      BY PageAssumption DEF PageRoles
    <3>2. r \in DOMAIN assign' <=> of[r] # {}
      BY <1>4, <3>1
    <3>3. r \in DOMAIN assign' => assign'[r] = of[r]
      BY <1>4, <3>1
    <3> QED BY <1>4, <3>1, <3>2, <3>3 DEF Given
  <2>9. ListsAreShown'
    BY <1>1, <1>7, <2>1, <2>6, <2>7, <2>8, PageAssumption DEF ListsAreShown
  <2>10. GrantsAreListed'
    <3> SUFFICES ASSUME NEW g \in kept.grants PROVE g[1] \in DOMAIN assign'
      BY DEF GrantsAreListed
    <3>1. g[1] \in Custom
      BY <2>2
    <3>2. g[2] \in of[g[1]]
      BY <2>4, <3>1
    <3> QED BY <1>4, <3>1, <3>2
  <2> QED BY <2>3, <2>9, <2>10 DEF Edited
<1> QED BY <1>9, <1>10, <1>11 DEF PageInv

\* What the other answers do to the calls.
LEMMA DropOther ==
  ASSUME CallsOK, NEW c \in calls, calls' = calls \ {c}, kept' = kept,
         c.kind = "rename", shown'.roles = shown.roles, shown'.permissions = shown.permissions
  PROVE  CallsOK'
<1>1. OthersOK' /\ UniqueCalls(calls')
  BY UniqueStays DEF CallsOK, OthersOK
<1>2. RoleCallsOK'
  <2>1. ListOK(calls \ {c}, "delete role", "create role", ShownRoles, Custom, kept.roles)
    BY OtherServed DEF CallsOK, RoleCallsOK
  <2> QED BY <2>1 DEF RoleCallsOK, ShownRoles
<1>3. PermissionCallsOK'
  <2>1. ListOK(calls \ {c}, "delete permission", "create permission", ShownPermissions, Extra,
               kept.permissions)
    BY OtherServed DEF CallsOK, PermissionCallsOK
  <2> QED BY <2>1 DEF PermissionCallsOK, ShownPermissions
<1> QED BY <1>1, <1>2, <1>3 DEF CallsOK

LEMMA DropRole ==
  ASSUME CallsOK, NEW c \in calls, calls' = calls \ {c}, kept' = kept,
         shown'.permissions = shown.permissions,
         \/ c.kind = "create role" /\ c.step = "done" /\ shown'.roles = shown.roles \union {c.about}
         \/ c.kind = "delete role" /\ shown'.roles = shown.roles \ {c.about}
  PROVE  CallsOK'
<1>1. OthersOK' /\ UniqueCalls(calls')
  BY UniqueStays DEF CallsOK, OthersOK
<1>2. RoleCallsOK'
  <2>1. CASE c.kind = "create role" /\ c.step = "done"
             /\ shown'.roles = shown.roles \union {c.about}
    <3>1. ListOK(calls \ {c}, "delete role", "create role", ShownRoles \union {c.about}, Custom,
                 kept.roles)
      BY <2>1, CreateAnswered DEF CallsOK, RoleCallsOK
    <3>2. c.about # InternalRole
      BY <2>1, PageAssumption DEF CallsOK, RoleCallsOK, ListOK, CreatesOK
    <3>3. ShownRoles' = ShownRoles \union {c.about}
      BY <2>1, <3>2 DEF ShownRoles
    <3> QED BY <3>1, <3>3 DEF RoleCallsOK
  <2>2. CASE c.kind = "delete role" /\ shown'.roles = shown.roles \ {c.about}
    <3>1. ListOK(calls \ {c}, "delete role", "create role", ShownRoles \ {c.about}, Custom,
                 kept.roles)
      BY <2>2, DeleteAnswered DEF CallsOK, RoleCallsOK
    <3>2. ShownRoles' = ShownRoles \ {c.about}
      BY <2>2 DEF ShownRoles
    <3> QED BY <3>1, <3>2 DEF RoleCallsOK
  <2> QED BY <2>1, <2>2
<1>3. PermissionCallsOK'
  <2>1. ListOK(calls \ {c}, "delete permission", "create permission", ShownPermissions, Extra,
               kept.permissions)
    BY OtherServed DEF CallsOK, PermissionCallsOK
  <2> QED BY <2>1 DEF PermissionCallsOK, ShownPermissions
<1> QED BY <1>1, <1>2, <1>3 DEF CallsOK

LEMMA DropPermission ==
  ASSUME CallsOK, NEW c \in calls, calls' = calls \ {c}, kept' = kept,
         shown'.roles = shown.roles,
         \/ c.kind = "create permission" /\ c.step = "done"
                /\ shown'.permissions = shown.permissions \union {c.about}
         \/ c.kind = "delete permission" /\ shown'.permissions = shown.permissions \ {c.about}
  PROVE  CallsOK'
<1>1. OthersOK' /\ UniqueCalls(calls')
  BY UniqueStays DEF CallsOK, OthersOK
<1>2. PermissionCallsOK'
  <2>1. CASE c.kind = "create permission" /\ c.step = "done"
             /\ shown'.permissions = shown.permissions \union {c.about}
    <3>1. ListOK(calls \ {c}, "delete permission", "create permission",
                 ShownPermissions \union {c.about}, Extra, kept.permissions)
      BY <2>1, CreateAnswered DEF CallsOK, PermissionCallsOK
    <3>2. c.about # InternalPermission
      BY <2>1, PageAssumption DEF CallsOK, PermissionCallsOK, ListOK, CreatesOK
    <3>3. ShownPermissions' = ShownPermissions \union {c.about}
      BY <2>1, <3>2 DEF ShownPermissions
    <3> QED BY <3>1, <3>3 DEF PermissionCallsOK
  <2>2. CASE c.kind = "delete permission" /\ shown'.permissions = shown.permissions \ {c.about}
    <3>1. ListOK(calls \ {c}, "delete permission", "create permission",
                 ShownPermissions \ {c.about}, Extra, kept.permissions)
      BY <2>2, DeleteAnswered DEF CallsOK, PermissionCallsOK
    <3>2. ShownPermissions' = ShownPermissions \ {c.about}
      BY <2>2 DEF ShownPermissions
    <3> QED BY <3>1, <3>2 DEF PermissionCallsOK
  <2> QED BY <2>1, <2>2
<1>3. RoleCallsOK'
  <2>1. ListOK(calls \ {c}, "delete role", "create role", ShownRoles, Custom, kept.roles)
    BY OtherServed DEF CallsOK, RoleCallsOK
  <2> QED BY <2>1 DEF RoleCallsOK, ShownRoles
<1> QED BY <1>1, <1>2, <1>3 DEF CallsOK

\* An answer that adds a row or turns a field back into one, or a refusal.
LEMMA PlainAnswerInv ==
  ASSUME PageInv, saving = "editing", NEW c \in calls,
         RoleAdded(c) \/ Renamed(c) \/ PermissionAdded(c) \/ Refused(c),
         kept' = kept, saving' = saving, strayed' = strayed, hurried' = hurried
  PROVE  PageInv'
<1>1. PageTypes /\ AboutOK(c) /\ c \in CallType /\ calls' = calls \ {c}
  BY DEF PageInv, PageTypes, RoleAdded, Renamed, PermissionAdded, Refused, Drop
<1>2. /\ assign' = assign /\ wished' = wished /\ viewed' = viewed /\ marks' = marks
      /\ selected' \in {selected, None}
  BY DEF RoleAdded, Renamed, PermissionAdded, Refused, RowAgain, PageLists, Panel
<1>3. /\ shown' \in ShownType /\ shown'.fields \subseteq shown'.roles
      /\ shown'.roles = IF c.kind = "create role" /\ ~Refused(c)
                        THEN shown.roles \union {c.about} ELSE shown.roles
      /\ shown'.permissions = IF c.kind = "create permission" /\ ~Refused(c)
                              THEN shown.permissions \union {c.about} ELSE shown.permissions
  <2>1. CASE RoleAdded(c)
    <3>1. /\ c.kind = "create role" /\ ~Refused(c)
          /\ shown' = [shown EXCEPT !.roles = shown.roles \union {c.about}]
      BY <1>1, <2>1 DEF RoleAdded, Refused, PageTypes, ShownType
    <3> QED BY <1>1, <3>1 DEF PageTypes, ShownType, AboutOK, PageRoles
  <2>2. CASE PermissionAdded(c)
    <3>1. /\ c.kind = "create permission" /\ ~Refused(c)
          /\ shown' = [shown EXCEPT !.permissions = shown.permissions \union {c.about}]
      BY <1>1, <2>2 DEF PermissionAdded, Refused, PageTypes, ShownType
    <3> QED BY <1>1, <3>1 DEF PageTypes, ShownType, AboutOK, PagePermissions
  <2>3. CASE Renamed(c)
    <3>1. /\ c.kind = "rename"
          /\ shown' = [shown EXCEPT !.fields = shown.fields \ {c.about}]
      BY <1>1, <2>3 DEF Renamed, RowAgain, PageTypes, ShownType
    <3> QED BY <1>1, <3>1 DEF PageTypes, ShownType
  <2>4. CASE Refused(c)
    BY <1>1, <2>4 DEF Refused, PageLists, PageTypes
  <2> QED BY <2>1, <2>2, <2>3, <2>4
<1>4. PageTypes'
  BY <1>1, <1>2, <1>3 DEF PageTypes
<1>5. ASSUME Edited PROVE Edited'
  <2>1. ~Refused(c)
    <3>1. c.step # "refused"
      BY <1>1, <1>5 DEF Edited, CallsOK, OthersOK, RoleCallsOK, PermissionCallsOK, ListOK,
            DeletesOK, CreatesOK, CallType, CallKinds
    <3> QED BY <3>1 DEF Refused
  <2>2. CallsOK'
    <3>1. CASE RoleAdded(c)
      BY <1>1, <1>3, <1>5, <2>1, <3>1, DropRole DEF Edited, RoleAdded
    <3>2. CASE PermissionAdded(c)
      BY <1>1, <1>3, <1>5, <2>1, <3>2, DropPermission DEF Edited, PermissionAdded
    <3>3. CASE Renamed(c)
      BY <1>1, <1>3, <1>5, <3>3, DropOther DEF Edited, Renamed
    <3> QED BY <2>1, <3>1, <3>2, <3>3
  <2>3. ListsAreShown'
    BY <1>2, <1>3, <1>5, ListsStay DEF Edited
  <2> QED BY <1>2, <1>5, <2>2, <2>3 DEF Edited, GrantsAreListed
<1>6. ~Loading
  BY DEF Loading, RoleAdded, Renamed, PermissionAdded, Refused
<1> QED BY <1>4, <1>5, <1>6, QuestionGoesOn

LEMMA RoleRemovedInv ==
  ASSUME PageInv, saving = "editing", NEW c \in calls, RoleRemoved(c),
         kept' = kept, saving' = saving, strayed' = strayed, hurried' = hurried
  PROVE  PageInv'
<1>1. /\ PageTypes /\ AboutOK(c) /\ c \in CallType /\ calls' = calls \ {c}
      /\ c.kind = "delete role" /\ c.step = "done"
  BY DEF PageInv, PageTypes, RoleRemoved, Drop
<1>2. PICK x \in PageRoles : x = c.about
  BY <1>1 DEF AboutOK
<1>3. /\ shown' = [shown EXCEPT !.roles = shown.roles \ {x}, !.fields = shown.fields \ {x}]
      /\ assign' = [r \in DOMAIN assign \ {x} |-> assign[r]]
      /\ wished' = [wished EXCEPT ![x] = {}]
      /\ viewed' = None /\ selected' = (IF selected = x THEN None ELSE selected)
  BY <1>1, <1>2 DEF RoleRemoved, PageTypes, ShownType
<1>4. /\ shown' \in ShownType /\ shown'.roles = shown.roles \ {x}
      /\ shown'.fields \subseteq shown'.roles /\ shown'.permissions = shown.permissions
      /\ wished' \in [PageRoles -> SUBSET PagePermissions]
      /\ wished'[x] = {} /\ \A r \in PageRoles : r # x => wished'[r] = wished[r]
      /\ selected' \in PageRoles \union {None}
  BY <1>1, <1>2, <1>3 DEF PageTypes, ShownType
<1>5. PageTypes'
  BY <1>1, <1>3, <1>4 DEF PageTypes
<1>6. ASSUME Edited PROVE Edited'
  <2>1. CallsOK'
    BY <1>1, <1>2, <1>4, <1>6, DropRole DEF Edited
  <2>2. DOMAIN assign' = DOMAIN assign \ {x} /\ \A r \in DOMAIN assign' : assign'[r] = assign[r]
    BY <1>3
  <2>3. Given(x)' = {} /\ \A r : r # x => Given(r)' = Given(r)
    BY <2>2 DEF Given
  <2>4. ListsAreShown'
    <3>1. \A r \in Custom : wished'[r] = Given(r)' /\ Given(r)' \subseteq shown'.permissions
      BY <1>4, <1>6, <2>3 DEF Edited, ListsAreShown, PageRoles
    <3>2. DOMAIN assign' \subseteq shown'.roles /\ selected' \in shown'.roles \union {None}
      BY <1>3, <1>4, <1>6, <2>2 DEF Edited, ListsAreShown
    <3> QED BY <1>3, <3>1, <3>2, PageAssumption DEF ListsAreShown
  <2>5. x \notin kept.roles
    BY <1>1, <1>2, <1>6 DEF Edited, CallsOK, RoleCallsOK, ListOK, DeletesOK
  <2>6. GrantsAreListed'
    <3>1. \A g \in kept.grants : g[1] # x
      BY <1>1, <2>5, ShownFields
    <3> QED BY <1>6, <2>2, <3>1 DEF Edited, GrantsAreListed
  <2> QED BY <2>1, <2>4, <2>6 DEF Edited
<1>7. ~Loading
  BY <1>1 DEF Loading
<1> QED BY <1>5, <1>6, <1>7, QuestionGoesOn

LEMMA PermissionRemovedInv ==
  ASSUME PageInv, saving = "editing", NEW c \in calls, PermissionRemoved(c),
         kept' = kept, saving' = saving, strayed' = strayed, hurried' = hurried
  PROVE  PageInv'
<1>1. /\ PageTypes /\ AboutOK(c) /\ c \in CallType /\ calls' = calls \ {c}
      /\ c.kind = "delete permission" /\ c.step = "done"
  BY DEF PageInv, PageTypes, PermissionRemoved, Drop
<1>2. PICK q \in PagePermissions : q = c.about
  BY <1>1 DEF AboutOK
<1>3. /\ shown' = [shown EXCEPT !.permissions = shown.permissions \ {q}]
      /\ assign' = [r \in DOMAIN assign |-> assign[r] \ {q}]
      /\ wished' = [r \in PageRoles |-> wished[r] \ {q}]
      /\ viewed' = None /\ selected' = selected
  BY <1>1, <1>2 DEF PermissionRemoved, PageTypes, ShownType
<1>4. /\ shown' \in ShownType /\ shown'.roles = shown.roles
      /\ shown'.fields \subseteq shown'.roles /\ shown'.permissions = shown.permissions \ {q}
      /\ wished' \in [PageRoles -> SUBSET PagePermissions]
      /\ \A r \in PageRoles : wished'[r] = wished[r] \ {q}
  BY <1>1, <1>2, <1>3 DEF PageTypes, ShownType
<1>5. PageTypes'
  BY <1>1, <1>3, <1>4 DEF PageTypes
<1>6. ASSUME Edited PROVE Edited'
  <2>1. CallsOK'
    BY <1>1, <1>2, <1>4, <1>6, DropPermission DEF Edited
  <2>2. /\ DOMAIN assign' = DOMAIN assign
        /\ \A r \in DOMAIN assign' : assign'[r] = assign[r] \ {q}
    BY <1>3
  <2>3. \A r : Given(r)' = Given(r) \ {q}
    BY <2>2 DEF Given
  <2>4. ListsAreShown'
    <3>1. \A r \in Custom : wished'[r] = Given(r)' /\ Given(r)' \subseteq shown'.permissions
      BY <1>4, <1>6, <2>3 DEF Edited, ListsAreShown, PageRoles
    <3> QED BY <1>3, <1>4, <1>6, <2>2, <3>1, PageAssumption DEF Edited, ListsAreShown
  <2>5. GrantsAreListed'
    BY <1>6, <2>2 DEF Edited, GrantsAreListed
  <2> QED BY <2>1, <2>4, <2>5 DEF Edited
<1>7. ~Loading
  BY <1>1 DEF Loading
<1> QED BY <1>5, <1>6, <1>7, QuestionGoesOn

LEMMA AnswerCallInv ==
  ASSUME PageInv, AnswerCall
  PROVE  PageInv'
<1>1. /\ saving = "editing" /\ saving' = saving /\ kept' = kept
      /\ strayed' = strayed /\ hurried' = hurried
  BY DEF AnswerCall, ServerSide
<1>2. PICK c \in calls :
        \/ ParseValues(c) \/ RoleAdded(c) \/ Renamed(c) \/ RoleRemoved(c)
        \/ PermissionAdded(c) \/ PermissionRemoved(c) \/ Refused(c)
  BY DEF AnswerCall
<1> QED BY <1>1, <1>2, ParseInv, PlainAnswerInv, RoleRemovedInv, PermissionRemovedInv

(***************************************************************************)
(* The form.                                                               *)
(***************************************************************************)
LEMMA SubmitInv ==
  ASSUME PageInv, SubmitAssign
  PROVE  PageInv'
<1>1. /\ saving = "editing" /\ saving' = "sent" /\ body' = assign /\ kept' = kept
      /\ calls' = calls /\ shown' = shown /\ assign' = assign /\ wished' = wished
      /\ selected' = selected /\ viewed' = viewed /\ strayed' = strayed
      /\ hurried' = (hurried \/ calls # {})
  BY DEF SubmitAssign, PageLists, Panel
<1>2. PageTypes
  BY DEF PageInv
<1>3. hurried' \in BOOLEAN /\ (~hurried' => ~hurried /\ calls = {})
  <2>1. (calls # {}) \in BOOLEAN
    OBVIOUS
  <2>2. PICK b \in BOOLEAN : b = (calls # {})
    BY <2>1
  <2>3. hurried' = (hurried \/ b)
    BY <1>1, <2>2
  <2>4. hurried' \in BOOLEAN /\ (~hurried' => ~hurried /\ ~b)
    BY <1>2, <2>3 DEF PageTypes
  <2> QED BY <2>2, <2>4
<1>4. PageTypes'
  BY <1>1, <1>2, <1>3 DEF PageTypes
<1>5. ASSUME ~strayed', ~hurried' PROVE Submitted'
  <2>1. Edited /\ calls = {}
    BY <1>1, <1>2, <1>3, <1>5, LoadingQuiet DEF PageInv
  <2>2. ShownRoles \subseteq kept.roles /\ ShownPermissions \subseteq kept.permissions
    BY <2>1 DEF Edited, CallsOK, RoleCallsOK, PermissionCallsOK, ListOK, RowsKept
  <2>3. DOMAIN assign \ {InternalRole} \subseteq kept.roles
    BY <2>1, <2>2 DEF Edited, ListsAreShown, ShownRoles
  <2>4. \A r \in Custom : wished[r] = Given(r)
                          /\ Given(r) \subseteq kept.permissions \union {InternalPermission}
    BY <2>1, <2>2 DEF Edited, ListsAreShown, ShownPermissions
  <2>5. GrantsAreListed
    BY <2>1 DEF Edited
  <2> QED BY <1>1, <2>1, <2>3, <2>4, <2>5 DEF Submitted, GrantsAreListed, Given
<1> QED BY <1>1, <1>4, <1>5 DEF PageInv

LEMMA DestroyInv ==
  ASSUME PageInv, DestroyAssigned
  PROVE  PageInv'
<1>1. /\ saving = "sent" /\ saving' = (IF Named = {} THEN "saved" ELSE "destroyed")
      /\ body' = body /\ calls' = calls /\ shown' = shown /\ assign' = assign /\ wished' = wished
      /\ selected' = selected /\ viewed' = viewed /\ strayed' = strayed /\ hurried' = hurried
  BY DEF DestroyAssigned, Save, PageLists, Panel
<1>2. PageTypes
  BY DEF PageInv
<1>3. kept' = [kept EXCEPT !.grants = {g \in kept.grants : g[1] \notin Named}]
  BY <1>2 DEF DestroyAssigned, PageTypes, Kept
<1>4. /\ kept' \in Kept /\ kept'.roles = kept.roles /\ kept'.permissions = kept.permissions
      /\ kept'.grants = {g \in kept.grants : g[1] \notin Named}
  BY <1>2, <1>3 DEF PageTypes, Kept
<1>5. PageTypes'
  BY <1>1, <1>2, <1>4 DEF PageTypes
<1>6. ASSUME Submitted PROVE Submitted'
  <2>1. \A g \in kept.grants : g[1] \in Named
    <3>1. \A g \in kept.grants : g[1] \in Custom
      BY <1>2, ShownFields
    <3> QED BY <1>1, <1>6, <3>1, PageAssumption DEF Submitted, GrantsAreListed, Named
  <2>2. kept'.grants = {}
    BY <1>4, <2>1
  <2>3. ASSUME Named = {} PROVE \A r \in kept'.roles : Has(r)' = wished'[r]
    <3> SUFFICES ASSUME NEW r \in kept'.roles PROVE Has(r)' = wished'[r]
      OBVIOUS
    <3>1. r \in Custom
      BY <1>2, <1>4, ShownFields
    <3>2. r \notin DOMAIN assign
      BY <1>6, <2>3, <3>1, PageAssumption DEF Submitted, Named
    <3>3. Given(r) = {}
      BY <3>2 DEF Given
    <3>4. Has(r)' = {}
      BY <2>2 DEF Has
    <3> QED BY <1>1, <1>6, <3>1, <3>3, <3>4 DEF Submitted
  <2>4. /\ saving' # "failed" /\ saving' # "sent"
        /\ saving' = "saved" => Named = {}
    BY <1>1
  <2>5. \A r \in Custom : wished'[r] = Given(r)'
                /\ Given(r)' \subseteq kept'.permissions \union {InternalPermission}
    BY <1>1, <1>4, <1>6 DEF Submitted, Given
  <2> QED BY <1>1, <1>4, <1>6, <2>2, <2>3, <2>4, <2>5 DEF Submitted
<1>7. saving' \in {"saved", "destroyed"}
  BY <1>1
<1> QED BY <1>1, <1>5, <1>6, <1>7 DEF PageInv

LEMMA BulkCreateInv ==
  ASSUME PageInv, BulkCreateAssigned
  PROVE  PageInv'
<1> DEFINE all == UNION {{r} \X body[r] : r \in Named}
<1>1. /\ saving = "destroyed" /\ saving' \in {"saved", "failed"}
      /\ body' = body /\ calls' = calls /\ shown' = shown /\ assign' = assign /\ wished' = wished
      /\ selected' = selected /\ viewed' = viewed /\ strayed' = strayed /\ hurried' = hurried
  BY DEF BulkCreateAssigned, Save, PageLists, Panel
<1>2. /\ PageTypes /\ kept.roles \subseteq Custom /\ kept.permissions \subseteq Extra
      /\ kept.grants \subseteq kept.roles \X (kept.permissions \union {InternalPermission})
  BY ShownFields DEF PageInv
<1>3. \/ /\ all \subseteq kept.roles \X (kept.permissions \union {InternalPermission})
         /\ saving' = "saved" /\ kept' = [kept EXCEPT !.grants = kept.grants \union all]
      \/ /\ ~(all \subseteq kept.roles \X (kept.permissions \union {InternalPermission}))
         /\ kept' = kept
  BY <1>2 DEF BulkCreateAssigned, Save, PageTypes, Kept
<1> HIDE DEF all
<1>4. PageTypes'
  <2>1. CASE kept' = kept
    BY <1>1, <1>2, <2>1 DEF PageTypes
  <2>2. CASE /\ all \subseteq kept.roles \X (kept.permissions \union {InternalPermission})
             /\ kept' = [kept EXCEPT !.grants = kept.grants \union all]
    <3>1. kept.grants \union all \subseteq Custom \X PagePermissions
      BY <1>2, <2>2 DEF PagePermissions
    <3>2. /\ kept' \in Kept /\ kept'.roles = kept.roles /\ kept'.permissions = kept.permissions
          /\ kept'.grants = kept.grants \union all
      BY <1>2, <2>2, <3>1 DEF PageTypes, Kept
    <3> QED BY <1>1, <1>2, <2>2, <3>2 DEF PageTypes
  <2> QED BY <1>3, <2>1, <2>2
<1>5. ASSUME Submitted PROVE Submitted'
  <2>1. /\ body = assign /\ kept.grants = {} /\ DOMAIN assign \ {InternalRole} \subseteq kept.roles
        /\ \A r \in Custom : wished[r] = Given(r)
                         /\ Given(r) \subseteq kept.permissions \union {InternalPermission}
    BY <1>1, <1>5 DEF Submitted
  <2>2. \A g : g \in all <=> \E r \in Named : g \in {r} \X body[r]
    BY DEF all
  <2>3. \A r \in Named : r \in kept.roles /\ r \in Custom /\ body[r] = Given(r)
    BY <1>2, <2>1 DEF Named, Given
  <2>4. all \subseteq kept.roles \X (kept.permissions \union {InternalPermission})
    BY <2>1, <2>2, <2>3
  <2>5. saving' = "saved" /\ kept' = [kept EXCEPT !.grants = kept.grants \union all]
    BY <1>3, <2>4
  <2>6. /\ kept'.roles = kept.roles /\ kept'.permissions = kept.permissions
        /\ kept'.grants = all
    BY <1>2, <2>1, <2>5 DEF PageTypes, Kept
  <2>7. ASSUME NEW r \in kept.roles PROVE {g[2] : g \in {x \in all : x[1] = r}} = Given(r)
    <3>1. r \in Custom /\ r # InternalRole
      BY <1>2, PageAssumption
    <3>2. CASE r \in Named
      <4>1. \A q \in Given(r) : <<r, q>> \in all
        BY <2>2, <2>3, <3>2
      <4>2. \A g \in all : g[1] = r => g[2] \in Given(r)
        BY <2>2, <2>3
      <4>3. \A q \in Given(r) : q \in {g[2] : g \in {x \in all : x[1] = r}}
        <5> SUFFICES ASSUME NEW q \in Given(r)
                     PROVE  \E g \in {x \in all : x[1] = r} : g[2] = q
          OBVIOUS
        <5>1. <<r, q>> \in {x \in all : x[1] = r} /\ <<r, q>>[2] = q
          BY <4>1
        <5> QED BY <5>1
      <4> QED BY <4>2, <4>3
    <3>3. CASE r \notin Named
      <4>1. Given(r) = {}
        BY <2>1, <3>1, <3>3 DEF Named, Given
      <4>2. \A g \in all : g[1] # r
        BY <2>2, <3>3
      <4> QED BY <4>1, <4>2
    <3> QED BY <3>2, <3>3
  <2>8. \A r \in kept'.roles : Has(r)' = wished'[r]
    <3> SUFFICES ASSUME NEW r \in kept'.roles PROVE Has(r)' = wished'[r]
      OBVIOUS
    <3>1. Has(r)' = {g[2] : g \in {x \in all : x[1] = r}}
      BY <2>6 DEF Has
    <3>2. r \in kept.roles /\ r \in Custom
      BY <1>2, <2>6
    <3> QED BY <1>1, <2>1, <2>7, <3>1, <3>2
  <2>9. \A r \in Custom : wished'[r] = Given(r)'
                /\ Given(r)' \subseteq kept'.permissions \union {InternalPermission}
    BY <1>1, <2>1, <2>6 DEF Given
  <2> QED BY <1>1, <1>5, <2>1, <2>5, <2>6, <2>8, <2>9 DEF Submitted
<1> QED BY <1>1, <1>4, <1>5 DEF PageInv

LEMMA PageNext == PageInv /\ [PageStep]_pageVars => PageInv'
<1> SUFFICES ASSUME PageInv, [PageStep]_pageVars PROVE PageInv'
  OBVIOUS
<1>1. CASE UNCHANGED pageVars
  <2>1. /\ kept' = kept /\ calls' = calls /\ shown' = shown /\ assign' = assign
        /\ selected' = selected /\ viewed' = viewed /\ marks' = marks /\ saving' = saving
        /\ body' = body /\ wished' = wished /\ strayed' = strayed /\ hurried' = hurried
    BY <1>1 DEF pageVars
  <2>2. PageTypes'
    BY <2>1 DEF PageInv, PageTypes
  <2>3. Loading => Loading'
    BY <2>1 DEF Loading
  <2>4. Edited => Edited'
    BY <2>1, CallsStay, ListsStay DEF Edited, GrantsAreListed
  <2>5. Submitted => Submitted'
    BY <2>1 DEF Submitted, GrantsAreListed, Given, Has
  <2> QED BY <2>1, <2>2, <2>3, <2>4, <2>5 DEF PageInv
<1> QED BY <1>1, SelectInv, SendRequestInv, SelectPermissionInv, ServeInv, AnswerCallInv, SubmitInv,
      DestroyInv, BulkCreateInv DEF PageStep

LEMMA PageFirst == PageInit => PageInv
<1> SUFFICES ASSUME PageInit PROVE PageInv
  OBVIOUS
<1>1. PICK c : c = [kind |-> "load", about |-> None, step |-> "asked", read |-> Nobody]
  OBVIOUS
<1>2. /\ c \in CallType /\ c.kind = "load" /\ c.about = None /\ c.step = "asked" /\ AboutOK(c)
  BY <1>1 DEF CallType, CallKinds, AboutOK
<1>3. calls = {c} /\ kept \in Kept
      /\ kept.grants \subseteq kept.roles \X (kept.permissions \union {InternalPermission})
  BY <1>1, GrantsAssumption DEF PageInit
<1>4. PageTypes
  BY <1>2, <1>3 DEF PageInit, PageTypes, ShownType
<1>5. Loading
  BY <1>2, <1>3 DEF PageInit, Loading
<1> QED BY <1>4, <1>5 DEF PageInit, PageInv

\* What the form saves is, for every role of the application, what the page last showed for it
\* (role_permission_assign, parseValues, the handlers of the lists), for any roles, permissions
\* and grants, however the administrator's clicks and the server's answers interleave: unless a
\* click went to another role than the active one, or the form left with answers outstanding.
THEOREM PageSavesWhatItShowed == PageSpec => []GrantsAreWhatThePageShowed
<1>1. PageInv => GrantsAreWhatThePageShowed
  BY DEF PageInv, Submitted, GrantsAreWhatThePageShowed
<1> QED BY <1>1, PageFirst, PageNext, PTL DEF PageSpec

\* What is filed, and what the panel shows, are permissions.
FiledOK ==
    /\ \A r \in DOMAIN assign : r \in PageRoles \union {None} /\ assign[r] \subseteq PagePermissions
    /\ marks \subseteq PagePermissions

LEMMA PanelTyped ==
  ASSUME PageTypes, FiledOK, NEW r, ShowPermissions(r)
  PROVE  marks' \subseteq PagePermissions
<1>1. shown.permissions \subseteq PagePermissions
  BY ShownFields
<1>2. Given(r) \subseteq PagePermissions
  BY DEF FiledOK, Given
<1> QED BY <1>1, <1>2 DEF FiledOK, ShowPermissions

LEMMA FiledStays ==
  PageInv /\ FiledOK /\ [PageStep]_pageVars => FiledOK'
<1> SUFFICES ASSUME PageInv, PageTypes, FiledOK, [PageStep]_pageVars
             PROVE  FiledOK'
  BY DEF PageInv
<1>1. CASE UNCHANGED <<assign, marks>>
  BY <1>1 DEF FiledOK
<1>2. ASSUME assign' = assign, marks' \subseteq PagePermissions
      PROVE  FiledOK'
  BY <1>2 DEF FiledOK
<1>3. CASE SelectRole \/ EditRole \/ DeleteRole
  <2>1. assign' = assign /\ \E r : ShowPermissions(r)
    BY <1>3 DEF SelectRole, EditRole, DeleteRole, PageLists
  <2> QED BY <1>2, <2>1, PanelTyped
<1>4. CASE SelectPermission
  <2>1. PICK q \in IF viewed = InternalRole THEN {InternalPermission} ELSE shown.permissions :
          IF selected = InternalRole THEN UNCHANGED <<assign, marks, wished>>
          ELSE /\ assign' = Assigned(selected, IF q \in marks THEN Given(selected) \ {q}
                                                              ELSE Given(selected) \union {q})
               /\ marks' = IF q \in marks THEN marks \ {q} ELSE marks \union {q}
    BY <1>4 DEF SelectPermission
  <2>2. q \in PagePermissions
    BY <2>1, ShownFields DEF PagePermissions
  <2>3. PICK ps : ps = IF q \in marks THEN Given(selected) \ {q} ELSE Given(selected) \union {q}
    OBVIOUS
  <2>4. ps \subseteq PagePermissions
    BY <2>2, <2>3 DEF FiledOK, Given
  <2>5. CASE selected = InternalRole
    BY <1>1, <2>1, <2>5
  <2>6. CASE selected # InternalRole
    <3>1. assign' = Assigned(selected, ps)
      BY <2>1, <2>3, <2>6
    <3>2. \A r \in DOMAIN assign' :
            r \in PageRoles \union {None} /\ assign'[r] \subseteq PagePermissions
      BY <2>4, <3>1 DEF Assigned, PageTypes, FiledOK
    <3>3. marks' \subseteq PagePermissions
      BY <2>1, <2>2, <2>6 DEF FiledOK
    <3> QED BY <3>2, <3>3 DEF FiledOK
  <2> QED BY <2>5, <2>6
<1>5. CASE AnswerCall
  <2>1. PICK c \in calls :
          \/ ParseValues(c) \/ RoleAdded(c) \/ Renamed(c) \/ RoleRemoved(c)
          \/ PermissionAdded(c) \/ PermissionRemoved(c) \/ Refused(c)
    BY <1>5 DEF AnswerCall
  <2>2. CASE RoleAdded(c) \/ Renamed(c) \/ PermissionAdded(c) \/ Refused(c)
    BY <1>1, <2>2 DEF RoleAdded, Renamed, PermissionAdded, Refused, RowAgain, Panel, PageLists
  <2>3. CASE RoleRemoved(c)
    BY <2>3 DEF RoleRemoved, FiledOK
  <2>4. CASE PermissionRemoved(c)
    BY <2>4 DEF PermissionRemoved, FiledOK
  <2>5. CASE ParseValues(c)
    <3>1. c.read \in Kept
      BY <2>1, <2>5 DEF ParseValues, PageTypes, AboutOK
    <3>2. c.read.grants \subseteq Custom \X PagePermissions
      BY <3>1 DEF Kept
    <3> DEFINE of == [r \in PageRoles |-> {g[2] : g \in {x \in c.read.grants : x[1] = r}}]
    <3>3. /\ assign' = [r \in {x \in Custom : of[x] # {}} \union {InternalRole} |->
                          IF r = InternalRole THEN {InternalPermission} ELSE of[r]]
          /\ marks' = marks
      BY <2>5 DEF ParseValues, Panel
    <3>4. \A r \in PageRoles : of[r] \subseteq PagePermissions
      BY <3>2
    <3> HIDE DEF of
    <3> QED BY <3>3, <3>4 DEF FiledOK, PageRoles, PagePermissions
  <2> QED BY <2>1, <2>2, <2>3, <2>4, <2>5
<1>6. CASE CancelEdit \/ Rename \/ CreateRole \/ CreatePermission \/ DeletePermission
           \/ Serve \/ SubmitAssign \/ DestroyAssigned \/ BulkCreateAssigned
           \/ UNCHANGED pageVars
  BY <1>1, <1>6 DEF CancelEdit, RowAgain, Rename, CreateRole, CreatePermission, DeletePermission,
     Serve, SubmitAssign, DestroyAssigned, BulkCreateAssigned, Save, PageLists, Panel, pageVars
<1> QED BY <1>3, <1>4, <1>5, <1>6 DEF PageStep

\* What the page shows, marks and files are roles and permissions that there are, and the tables
\* hold grants of their own roles and permissions (AccessControlPage), even when a permission is
\* clicked with no role active.
THEOREM PagesAreTyped == PageSpec => []PageTypeOK
<1>1. PageInit => FiledOK
  BY DEF PageInit, FiledOK, Nobody
<1>2. PageInv /\ FiledOK => PageTypeOK
  <2> SUFFICES ASSUME PageInv, PageTypes, FiledOK PROVE PageTypeOK
    BY DEF PageInv
  <2>1. \A c \in calls : c.kind \in CallKinds /\ c.step \in {"asked", "done", "refused"}
    BY CallFields
  <2> QED BY <2>1, ShownFields DEF PageInv, PageTypes, FiledOK, PageTypeOK
<1> QED BY <1>1, <1>2, PageFirst, PageNext, FiledStays, PTL DEF PageSpec

(***************************************************************************)
(* Dialogs.  As long as no click comes while a row is fading and no list   *)
(* comes to rows that are there already, at most the row that the          *)
(* handlers' variable holds is fading, a subject has one row, and the list *)
(* and the counts are those of the rows that stay.                         *)
(***************************************************************************)
WithCounts == {"users", "organizations"}
Gentle == ~hasty /\ ~reopened

\* The subjects and marks of the pairs in o whose row is in v.
PairsOf(o, v) == {<<x[1][1], x[2]>> : x \in {y \in o : y[1] \in v}}
OneRowEach(v) == \A r, q \in v : r[1] = q[1] => r = q

FadesOK ==
    /\ fading \subseteq rows
    /\ \A r \in fading : row = <<"row", r>> /\ r[1] \in fades
    /\ row[1] = "row" => row[2] \in fading
RowsOK == on \subseteq rows \X Marks[dialog] /\ OneRowEach(rows)
ListFits ==
    /\ dialog = "members" =>
        list = PairsOf(on, Visible) /\ \A x, y \in on : x[1] = y[1] => x = y
    /\ dialog \in WithCounts /\ open /\ asked.list = 0 => list = PairsOf(on, Visible)
CountFits(c, o, v, roles) ==
    /\ \A s \in DOMAIN c : \E r \in v : r[1] = s
    /\ \A r \in v : /\ r[1] \in DOMAIN c
                    /\ c[r[1]] = Cardinality({m \in roles : <<r, m>> \in o})
CountsFit == dialog \in WithCounts => CountFits(count, on, Visible, Marks[dialog])
ColumnOK == FadesOK /\ RowsOK /\ ListFits /\ CountsFit
DialogInv ==
    /\ dialog \in DialogKinds /\ asked \in [list: Nat, search: Nat]
    /\ hasty \in BOOLEAN /\ reopened \in BOOLEAN /\ sent.done \in BOOLEAN
    /\ Gentle => ColumnOK
    /\ DialogSendsWhatItShows

\* A pair that a set of marks shows, by the row that shows it.
LEMMA InPairs ==
    ASSUME NEW o, NEW v, NEW x
    PROVE  x \in PairsOf(o, v) <=> \E y \in o : y[1] \in v /\ x = <<y[1][1], y[2]>>
BY DEF PairsOf

\* A mark put on a row, or a subject's on the list; a mark taken off; all of them.
Plus(p, k, m) == p \union {<<k, m>>}
Minus(p, k, m) == p \ {<<k, m>>}
Sparing(p, k) == {x \in p : x[1] # k}
Paired(o, v) == \A x \in o : x = <<x[1], x[2]>> /\ x[1] \in v

\* Showing one mark more on a row adds one pair.
LEMMA PairsAdd ==
    ASSUME NEW o, NEW v, NEW r \in v, NEW m
    PROVE  PairsOf(Plus(o, r, m), v) = Plus(PairsOf(o, v), r[1], m)
<1> DEFINE y == <<r, m>>
<1>1. y[1] = r /\ y[2] = m
  OBVIOUS
<1>2. ASSUME NEW x
      PROVE  x \in PairsOf(o \union {y}, v) <=> x \in PairsOf(o, v) \/ x = <<r[1], m>>
  <2>1. x \in PairsOf(o \union {y}, v) <=>
          \E z \in o \union {y} : z[1] \in v /\ x = <<z[1][1], z[2]>>
    BY InPairs
  <2>2. x \in PairsOf(o, v) <=> \E z \in o : z[1] \in v /\ x = <<z[1][1], z[2]>>
    BY InPairs
  <2> HIDE DEF y
  <2> QED
    BY <1>1, <2>1, <2>2
<1> QED
  BY <1>2 DEF Plus

\* A mark taken off the only row of a subject takes its pair away.
LEMMA PairsDrop ==
    ASSUME NEW o, NEW v, Paired(o, v), OneRowEach(v), NEW r \in v, NEW m
    PROVE  PairsOf(Minus(o, r, m), v) = Minus(PairsOf(o, v), r[1], m)
<1>1. ASSUME NEW x \in o
      PROVE  x = <<x[1], x[2]>> /\ x[1] \in v
  BY DEF Paired
<1>2. ASSUME NEW x \in o
      PROVE  <<x[1][1], x[2]>> = <<r[1], m>> <=> x = <<r, m>>
  BY <1>1 DEF OneRowEach
<1> QED
  BY <1>1, <1>2 DEF PairsOf, Minus

\* All marks of a subject's only row taken off.
LEMMA PairsSpared ==
    ASSUME NEW o, NEW v, Paired(o, v), OneRowEach(v), NEW r \in v
    PROVE  PairsOf(Sparing(o, r), v) = Sparing(PairsOf(o, v), r[1])
<1>1. ASSUME NEW x \in o
      PROVE  x[1] \in v /\ (x[1] = r <=> x[1][1] = r[1])
  BY DEF OneRowEach, Paired
<1> QED
  BY <1>1 DEF PairsOf, Sparing

\* The row itself taken away.
LEMMA PairsDropRow ==
    ASSUME NEW o, NEW v, Paired(o, v), OneRowEach(v), NEW r \in v
    PROVE  PairsOf(o, v \ {r}) = Sparing(PairsOf(o, v), r[1])
<1>1. ASSUME NEW x \in o
      PROVE  x[1] \in v /\ (x[1] = r <=> x[1][1] = r[1])
  BY DEF OneRowEach, Paired
<1> QED
  BY <1>1 DEF PairsOf, Sparing

\* Rows without marks show nothing.
LEMMA PairsOfRows ==
    ASSUME NEW o, NEW v, NEW w, \A x \in o : x[1] \in v <=> x[1] \in w
    PROVE  PairsOf(o, v) = PairsOf(o, w)
BY DEF PairsOf

\* Marks on rows that are not looked at show nothing.
LEMMA PairsOfMarks ==
    ASSUME NEW o, NEW v, NEW f, v \intersect f = {}
    PROVE  PairsOf({x \in o : x[1] \notin f}, v) = PairsOf(o, v)
BY DEF PairsOf

\* What counting does: a mark more, a mark less, a row more, a row less.
LEMMA CountMarks ==
    ASSUME NEW c, NEW o, NEW v, NEW roles, IsFiniteSet(roles), CountFits(c, o, v, roles),
           OneRowEach(v), NEW r \in v, NEW m \in roles, NEW d,
           d = [x \in DOMAIN c \union {r[1]} |->
                  IF x = r[1] THEN c[r[1]] + (IF <<r, m>> \in o THEN -1 ELSE 1) ELSE c[x]]
    PROVE  /\ r[1] \in DOMAIN c /\ c[r[1]] \in Nat
           /\ <<r, m>> \in o => CountFits(d, o \ {<<r, m>>}, v, roles)
           /\ <<r, m>> \notin o => CountFits(d, o \union {<<r, m>>}, v, roles)
<1> DEFINE Of(q, p) == {n \in roles : <<q, n>> \in p}
<1>1. r[1] \in DOMAIN c /\ c[r[1]] = Cardinality(Of(r, o)) /\ DOMAIN d = DOMAIN c
  BY DEF CountFits
<1>2. IsFiniteSet(Of(r, o)) /\ Cardinality(Of(r, o)) \in Nat
  <2>1. Of(r, o) \in SUBSET roles
    OBVIOUS
  <2>2. IsFiniteSet(Of(r, o))
    BY <2>1, FS_Subset
  <2> QED
    BY <2>2, FS_CardinalityType
<1>3. ASSUME NEW q \in v, q # r
      PROVE  /\ q[1] # r[1] /\ q[1] \in DOMAIN c /\ d[q[1]] = c[q[1]]
             /\ c[q[1]] = Cardinality(Of(q, o))
             /\ Of(q, o \ {<<r, m>>}) = Of(q, o)
             /\ Of(q, o \union {<<r, m>>}) = Of(q, o)
  BY <1>1, <1>3 DEF CountFits, OneRowEach
<1>4. ASSUME <<r, m>> \in o
      PROVE  Of(r, o \ {<<r, m>>}) = Of(r, o) \ {m} /\ m \in Of(r, o)
  BY <1>4
<1>5. ASSUME <<r, m>> \notin o
      PROVE  Of(r, o \union {<<r, m>>}) = Of(r, o) \union {m} /\ m \notin Of(r, o)
  BY <1>5
<1>6. ASSUME <<r, m>> \in o
      PROVE  d[r[1]] = Cardinality(Of(r, o \ {<<r, m>>}))
  <2>1. Cardinality(Of(r, o) \ {m}) = Cardinality(Of(r, o)) - 1
    BY <1>2, <1>4, <1>6, FS_RemoveElement
  <2>2. d[r[1]] = c[r[1]] + (-1)
    BY <1>6
  <2> HIDE DEF Of
  <2> QED
    BY <1>1, <1>2, <1>4, <1>6, <2>1, <2>2
<1>7. ASSUME <<r, m>> \notin o
      PROVE  d[r[1]] = Cardinality(Of(r, o \union {<<r, m>>}))
  <2>1. Cardinality(Of(r, o) \union {m}) = Cardinality(Of(r, o)) + 1
    BY <1>2, <1>5, <1>7, FS_AddElement
  <2>2. d[r[1]] = c[r[1]] + 1
    BY <1>7
  <2> HIDE DEF Of
  <2> QED
    BY <1>1, <1>2, <1>5, <1>7, <2>1, <2>2
<1>8. \A s \in DOMAIN d : \E q \in v : q[1] = s
  BY <1>1 DEF CountFits
<1>9. ASSUME <<r, m>> \in o, NEW q \in v
      PROVE  q[1] \in DOMAIN d /\ d[q[1]] = Cardinality(Of(q, o \ {<<r, m>>}))
  <2>1. CASE q = r
    BY <1>1, <1>6, <1>9, <2>1
  <2>2. CASE q # r
    <3> HIDE DEF Of
    <3> QED
      BY <1>1, <1>3, <2>2
  <2> QED
    BY <2>1, <2>2
<1>10. ASSUME <<r, m>> \notin o, NEW q \in v
       PROVE  q[1] \in DOMAIN d /\ d[q[1]] = Cardinality(Of(q, o \union {<<r, m>>}))
  <2>1. CASE q = r
    BY <1>1, <1>7, <1>10, <2>1
  <2>2. CASE q # r
    <3> HIDE DEF Of
    <3> QED
      BY <1>1, <1>3, <2>2
  <2> QED
    BY <2>1, <2>2
<1>11. c[r[1]] \in Nat
  <2> HIDE DEF Of
  <2> QED
    BY <1>1, <1>2
<1>12. <<r, m>> \in o => CountFits(d, o \ {<<r, m>>}, v, roles)
  BY <1>8, <1>9 DEF CountFits
<1>13. <<r, m>> \notin o => CountFits(d, o \union {<<r, m>>}, v, roles)
  BY <1>8, <1>10 DEF CountFits
<1> QED
  BY <1>1, <1>11, <1>12, <1>13

LEMMA CountNatural ==
    ASSUME NEW c, NEW o, NEW v, NEW roles, IsFiniteSet(roles), CountFits(c, o, v, roles),
           NEW r \in v
    PROVE  c[r[1]] \in Nat
<1>1. {m \in roles : <<r, m>> \in o} \in SUBSET roles
  OBVIOUS
<1>2. IsFiniteSet({m \in roles : <<r, m>> \in o})
  BY <1>1, FS_Subset
<1>3. Cardinality({m \in roles : <<r, m>> \in o}) \in Nat
  BY <1>2, FS_CardinalityType
<1> QED
  BY <1>3 DEF CountFits

LEMMA CountRow ==
    ASSUME NEW c, NEW o, NEW v, NEW roles, CountFits(c, o, v, roles), NEW n,
           \A x \in o : x[1] # n, \A r \in v : r[1] # n[1]
    PROVE  /\ n[1] \notin DOMAIN c
           /\ CountFits([x \in DOMAIN c \union {n[1]} |-> IF x = n[1] THEN 0 ELSE c[x]],
                        o, v \union {n}, roles)
<1> DEFINE d == [x \in DOMAIN c \union {n[1]} |-> IF x = n[1] THEN 0 ELSE c[x]]
<1>1. n[1] \notin DOMAIN c
  BY DEF CountFits
<1>2. {m \in roles : <<n, m>> \in o} = {}
  <2>1. ASSUME NEW m \in roles, <<n, m>> \in o
        PROVE  FALSE
    <3>1. <<n, m>>[1] = n
      OBVIOUS
    <3> QED
      BY <2>1, <3>1
  <2> QED
    BY <2>1
<1>3. Cardinality({m \in roles : <<n, m>> \in o}) = 0
  BY <1>2, FS_EmptySet
<1>4. ASSUME NEW q \in v \union {n}
      PROVE  q[1] \in DOMAIN d /\ d[q[1]] = Cardinality({m \in roles : <<q, m>> \in o})
  <2>1. CASE q = n
    BY <1>3, <2>1
  <2>2. CASE q # n
    BY <1>4, <2>2 DEF CountFits
  <2> QED
    BY <2>1, <2>2
<1>5. \A s \in DOMAIN d : \E q \in v \union {n} : q[1] = s
  BY DEF CountFits
<1> QED
  BY <1>1, <1>4, <1>5 DEF CountFits

LEMMA CountWithout ==
    ASSUME NEW c, NEW o, NEW v, NEW roles, CountFits(c, o, v, roles), OneRowEach(v),
           NEW r \in v
    PROVE  CountFits([x \in DOMAIN c \ {r[1]} |-> c[x]], o, v \ {r}, roles)
<1> DEFINE d == [x \in DOMAIN c \ {r[1]} |-> c[x]]
<1>1. ASSUME NEW q \in v \ {r}
      PROVE  q[1] # r[1]
  BY DEF OneRowEach
<1>2. \A q \in v \ {r} :
        q[1] \in DOMAIN d /\ d[q[1]] = Cardinality({m \in roles : <<q, m>> \in o})
  BY <1>1 DEF CountFits
<1>3. \A s \in DOMAIN d : \E q \in v \ {r} : q[1] = s
  BY DEF CountFits
<1> QED
  BY <1>2, <1>3 DEF CountFits

LEMMA CountGone ==
    ASSUME NEW c, NEW o, NEW v, NEW roles, CountFits(c, o, v, roles), NEW f,
           v \intersect f = {}
    PROVE  CountFits(c, {x \in o : x[1] \notin f}, v, roles)
<1>1. ASSUME NEW r \in v
      PROVE  {m \in roles : <<r, m>> \in {x \in o : x[1] \notin f}}
               = {m \in roles : <<r, m>> \in o}
  OBVIOUS
<1> QED
  BY <1>1 DEF CountFits

\* The counts of an answer that comes to an empty column.
Entries(answer, s) == {a \in answer : a[1] = s}
MarksFor(answer, s, roles) == {m \in roles : <<s, m>> \in answer}
LEMMA CountAnswer ==
    ASSUME NEW answer, NEW subjects, NEW roles, IsFiniteSet(roles),
           answer \subseteq subjects \X roles, NEW s
    PROVE  /\ Cardinality(Entries(answer, s)) = Cardinality(MarksFor(answer, s, roles))
           /\ Cardinality(MarksFor(answer, s, roles)) \in Nat
<1> DEFINE S == {m \in roles : <<s, m>> \in answer}
           T == {a \in answer : a[1] = s}
           f == [m \in S |-> <<s, m>>]
<1>1. f \in [S -> T]
  OBVIOUS
<1>2. f \in Injection(S, T)
  BY <1>1 DEF Injection, IsInjective
<1>3. ASSUME NEW a \in T
      PROVE  \E m \in S : f[m] = a
  <2>1. a = <<s, a[2]>> /\ a[2] \in roles
    OBVIOUS
  <2>2. a[2] \in S /\ f[a[2]] = a
    BY <2>1
  <2> QED
    BY <2>2
<1>4. f \in Surjection(S, T)
  BY <1>1, <1>3 DEF Surjection
<1>5. ExistsBijection(S, T)
  BY <1>2, <1>4 DEF ExistsBijection, Bijection
<1>6. IsFiniteSet(S)
  <2>1. S \in SUBSET roles
    OBVIOUS
  <2> QED
    BY <2>1, FS_Subset
<1>7. Cardinality(T) = Cardinality(S) /\ Cardinality(S) \in Nat
  BY <1>5, <1>6, FS_Bijection, FS_CardinalityType
<1> QED
  BY <1>7 DEF Entries, MarksFor

\* A step that sends nothing breaks no promise about what is sent.
LEMMA NothingSent ==
    ASSUME sent.done = FALSE, sent' = sent
    PROVE  sent'.done = FALSE /\ DialogSendsWhatItShows'
BY DEF DialogSendsWhatItShows

\* A step that leaves the column as it is.
LEMMA ColumnStays ==
    ASSUME ColumnOK, dialog' = dialog, UNCHANGED <<rows, fading, fades, on, list, count>>,
           row' = row \/ (row[1] # "row" /\ row'[1] # "row"),
           dialog \in WithCounts /\ open' /\ asked'.list = 0 => open /\ asked.list = 0
    PROVE  ColumnOK'
<1>1. FadesOK'
  <2>1. CASE row' = row
    BY <2>1 DEF ColumnOK, FadesOK
  <2>2. CASE row[1] # "row" /\ row'[1] # "row"
    <3>1. ASSUME NEW r \in fading
          PROVE  FALSE
      <4>1. row = <<"row", r>>
        BY DEF ColumnOK, FadesOK
      <4> QED
        BY <2>2, <4>1
    <3> QED
      BY <2>2, <3>1 DEF ColumnOK, FadesOK
  <2> QED
    BY <2>1, <2>2
<1>2. RowsOK'
  BY DEF ColumnOK, RowsOK, OneRowEach
<1>3. Visible' = Visible
  BY DEF Visible
<1>4. ListFits'
  BY <1>3 DEF ColumnOK, ListFits
<1>5. CountsFit'
  BY <1>3 DEF ColumnOK, CountsFit
<1> QED
  BY <1>1, <1>2, <1>4, <1>5 DEF ColumnOK

\* A column that is put back.
LEMMA ColumnEmptied ==
    ASSUME dialog' = dialog, Exit, open' = FALSE
    PROVE  ColumnOK'
<1>1. Emptied
  BY DEF Exit, ExitUsers, ExitOrganizations, ExitMembers, ExitAdministrators, ExitTrusted
<1>2. FadesOK'
  BY <1>1 DEF Emptied, FadesOK, NoRow
<1>3. RowsOK'
  BY <1>1 DEF Emptied, RowsOK, OneRowEach
<1>4. PairsOf(on', Visible') = {}
  BY <1>1 DEF Emptied, PairsOf
<1>5. ListFits'
  <2>1. dialog = "members" => list' = {}
    BY DEF Exit, ExitUsers, ExitOrganizations, ExitMembers, ExitAdministrators, ExitTrusted
  <2> QED
    BY <1>1, <1>4, <2>1 DEF Emptied, ListFits
<1>6. CountsFit'
  <2>1. dialog \in WithCounts => count' = [s \in {} |-> 0]
    BY DEF Exit, ExitUsers, ExitOrganizations, ExitMembers, ExitAdministrators, ExitTrusted,
           WithCounts
  <2>2. Visible' = {}
    BY <1>1 DEF Emptied, Visible
  <2> QED
    BY <2>1, <2>2 DEF CountsFit, CountFits
<1> QED
  BY <1>2, <1>3, <1>5, <1>6 DEF ColumnOK

\* Rows that are there when none is fading.
LEMMA NoneFades ==
    ASSUME ColumnOK, fades = {}
    PROVE  fading = {} /\ row[1] # "row" /\ Visible = rows
BY DEF ColumnOK, FadesOK, Visible

\* An empty column has no marks, no list and no counts.
LEMMA NoRows ==
    ASSUME ColumnOK, rows = {}
    PROVE  /\ fading = {} /\ on = {} /\ row[1] # "row"
           /\ dialog = "members" => list = {}
           /\ dialog \in WithCounts => DOMAIN count = {}
<1>1. fading = {} /\ on = {} /\ row[1] # "row"
  BY DEF ColumnOK, FadesOK, RowsOK
<1>2. PairsOf(on, Visible) = {}
  BY <1>1 DEF PairsOf
<1>3. Visible = {}
  BY DEF Visible
<1> QED
  BY <1>1, <1>2, <1>3 DEF ColumnOK, ListFits, CountsFit, CountFits

\* The rows that an answer adds to an empty column.
LEMMA RowsShown ==
    ASSUME ColumnOK, rows = {}, dialog' = dialog, NEW subjects, AddRows(subjects),
           UNCHANGED <<fading, fades, row>>
    PROVE  /\ FadesOK' /\ OneRowEach(rows') /\ Visible' = rows'
           /\ \A s \in subjects : FreshRow(s) \in rows' /\ FreshRow(s)[1] = s
           /\ \A r \in rows' : r = FreshRow(r[1]) /\ r[1] \in subjects
<1>1. fading = {} /\ row[1] # "row"
  BY NoRows
<1>2. \A s : FreshRow(s)[1] = s
  BY DEF FreshRow
<1>3. rows' = {FreshRow(s) : s \in subjects}
  BY DEF AddRows
<1>4. \A r \in rows' : r = FreshRow(r[1]) /\ r[1] \in subjects
  BY <1>2, <1>3
<1>5. OneRowEach(rows')
  BY <1>4 DEF OneRowEach
<1>6. FadesOK' /\ Visible' = rows'
  BY <1>1 DEF FadesOK, Visible
<1> QED
  BY <1>2, <1>3, <1>4, <1>5, <1>6

\* The list of roles comes to an empty column.
LEMMA RolesShown ==
    ASSUME dialog \in DialogKinds, dialog \in WithCounts, ColumnOK, rows = {}, dialog' = dialog,
           UNCHANGED <<fading, fades, row>>, NEW answer \in Lists[dialog], ShowRoles(answer)
    PROVE  ColumnOK'
<1> DEFINE subjects == {s \in {a[1] : a \in answer} : RowsOf(s) = {}}
           roles == Marks[dialog]
           marked == {x \in rows' \X roles : <<x[1][1], x[2]>> \in answer}
<1>1. answer \subseteq Subjects \X roles /\ IsFiniteSet(roles)
  BY DialogAssumption DEF WithCounts, WithRoles
<1>2. on = {} /\ DOMAIN count = {}
  BY NoRows
<1>3. AddRows(subjects) /\ on' = on \union marked /\ list' = answer /\ count' = Tally(answer)
  BY DEF ShowRoles
<1>4. subjects = {a[1] : a \in answer}
  BY DEF RowsOf
<1>5. /\ FadesOK' /\ OneRowEach(rows') /\ Visible' = rows'
      /\ \A s \in subjects : FreshRow(s) \in rows' /\ FreshRow(s)[1] = s
      /\ \A r \in rows' : r = FreshRow(r[1]) /\ r[1] \in subjects
  <2> HIDE DEF subjects
  <2> QED
    BY <1>3, RowsShown
<1>6. on' = marked
  BY <1>2, <1>3
<1>7. RowsOK'
  BY <1>5, <1>6 DEF RowsOK
<1>8. PairsOf(on', Visible') = list'
  <2>1. ASSUME NEW x \in answer
        PROVE  x \in PairsOf(on', Visible')
    <3>1. x[1] \in subjects /\ x[2] \in roles /\ x = <<x[1], x[2]>>
      BY <1>1, <1>4
    <3>2. PICK r \in rows' : r[1] = x[1]
      BY <1>5, <3>1
    <3>3. <<r, x[2]>> \in on'
      BY <1>6, <3>1, <3>2
    <3>4. \E y \in on' : y[1] \in Visible' /\ x = <<y[1][1], y[2]>>
      <4> WITNESS <<r, x[2]>> \in on'
      <4> QED
        BY <1>5, <3>1, <3>2
    <3> QED
      BY <3>4, InPairs
  <2>2. ASSUME NEW x \in PairsOf(on', Visible')
        PROVE  x \in answer
    <3>1. PICK y \in on' : x = <<y[1][1], y[2]>>
      BY InPairs
    <3> QED
      BY <1>6, <3>1
  <2> QED
    BY <1>3, <2>1, <2>2
<1>9. ListFits'
  BY <1>8 DEF ListFits, WithCounts
<1>10. CountsFit'
  <2>1. ASSUME NEW r \in rows'
        PROVE  /\ r[1] \in DOMAIN count'
               /\ count'[r[1]] = Cardinality({m \in roles : <<r, m>> \in on'})
    <3>1. r[1] \in subjects
      BY <1>5
    <3>2. {a \in answer : a[1] = r[1]} # {}
      BY <1>4, <3>1
    <3>3. r[1] \in {a[1] : a \in answer}
      BY <1>4, <3>1
    <3>4. Started(r[1]) = 0
      BY <1>2 DEF Started, CountOf
    <3>5. r[1] \in DOMAIN count' /\ count'[r[1]] = 0 + Cardinality({a \in answer : a[1] = r[1]})
      BY <1>3, <3>2, <3>3, <3>4 DEF Tally
    <3>6. /\ Cardinality(Entries(answer, r[1])) = Cardinality(MarksFor(answer, r[1], roles))
          /\ Cardinality(MarksFor(answer, r[1], roles)) \in Nat
      <4>1. IsFiniteSet(roles) /\ answer \subseteq Subjects \X roles
        BY <1>1
      <4> HIDE DEF roles, subjects, marked
      <4> QED
        BY <4>1, CountAnswer
    <3>7. {m \in roles : <<r, m>> \in on'} = MarksFor(answer, r[1], roles)
      BY <1>6 DEF MarksFor
    <3>8. count'[r[1]] = 0 + Cardinality(Entries(answer, r[1]))
      BY <3>5 DEF Entries
    <3>9. Cardinality({m \in roles : <<r, m>> \in on'}) = Cardinality(MarksFor(answer, r[1], roles))
      BY <3>7
    <3> HIDE DEF roles, subjects, marked
    <3> QED
      BY <3>5, <3>6, <3>8, <3>9
  <2>2. ASSUME NEW s \in DOMAIN count'
        PROVE  \E r \in rows' : r[1] = s
    <3>1. s \in subjects
      BY <1>2, <1>3, <1>4 DEF Tally
    <3> QED
      BY <1>5, <3>1
  <2> QED
    BY <1>5, <2>1, <2>2 DEF CountsFit, CountFits
<1> QED
  BY <1>5, <1>7, <1>9, <1>10 DEF ColumnOK

\* The list of members comes to an empty column.
LEMMA MembersShown ==
    ASSUME dialog \in DialogKinds, ColumnOK, rows = {}, dialog' = dialog, ShowMembers
    PROVE  ColumnOK'
<1>1. dialog = "members" /\ UNCHANGED <<fading, fades, row>>
  BY DEF ShowMembers, Shown
<1>2. list = {} /\ on = {}
  BY <1>1, NoRows
<1>3. PICK answer \in Lists[dialog] :
        \E new \in SUBSET {a \in answer : \A x \in list : x[1] # a[1]} :
            /\ \A a, b \in new : a[1] = b[1] => a = b
            /\ AddRows({a[1] : a \in new})
            /\ on' = on \union {<<FreshRow(a[1]), a[2]>> : a \in new}
            /\ list' = list \union new
  BY DEF ShowMembers
<1>4. PICK new \in SUBSET answer :
        /\ \A a, b \in new : a[1] = b[1] => a = b
        /\ AddRows({a[1] : a \in new})
        /\ on' = {<<FreshRow(a[1]), a[2]>> : a \in new}
        /\ list' = new
  BY <1>2, <1>3
<1>5. new \subseteq Subjects \X Marks[dialog]
  BY <1>1, DialogAssumption DEF WithRoles
<1> DEFINE subjects == {a[1] : a \in new}
<1>6. /\ FadesOK' /\ OneRowEach(rows') /\ Visible' = rows'
      /\ \A s \in subjects : FreshRow(s) \in rows' /\ FreshRow(s)[1] = s
      /\ \A r \in rows' : r = FreshRow(r[1]) /\ r[1] \in subjects
  <2>1. AddRows(subjects)
    BY <1>4
  <2> HIDE DEF subjects
  <2> QED
    BY <1>1, <2>1, RowsShown
<1>7. ASSUME NEW a \in new
      PROVE  /\ FreshRow(a[1]) \in rows' /\ FreshRow(a[1])[1] = a[1]
             /\ a[2] \in Marks[dialog] /\ a = <<a[1], a[2]>>
  BY <1>5, <1>6
<1>8. ASSUME NEW y \in on'
      PROVE  \E a \in new : y = <<FreshRow(a[1]), a[2]>>
  BY <1>4
<1>9. RowsOK'
  BY <1>1, <1>6, <1>7, <1>8 DEF RowsOK
<1>10. PairsOf(on', Visible') = list'
  <2>1. ASSUME NEW x \in new
        PROVE  x \in PairsOf(on', Visible')
    <3> DEFINE y == <<FreshRow(x[1]), x[2]>>
    <3>1. y \in on'
      BY <1>4
    <3>2. y[1] \in Visible' /\ x = <<y[1][1], y[2]>>
      BY <1>6, <1>7
    <3> QED
      BY <3>1, <3>2, InPairs
  <2>2. ASSUME NEW x \in PairsOf(on', Visible')
        PROVE  x \in new
    <3>1. PICK y \in on' : x = <<y[1][1], y[2]>>
      BY InPairs
    <3>2. PICK a \in new : y = <<FreshRow(a[1]), a[2]>>
      BY <1>8
    <3> QED
      BY <1>7, <3>1, <3>2
  <2> QED
    BY <1>4, <2>1, <2>2
<1>11. ASSUME NEW x \in on', NEW y \in on', x[1] = y[1]
       PROVE  x = y
  <2>1. PICK a \in new : x = <<FreshRow(a[1]), a[2]>>
    BY <1>8
  <2>2. PICK b \in new : y = <<FreshRow(b[1]), b[2]>>
    BY <1>8
  <2>3. a[1] = b[1]
    BY <1>7, <1>11, <2>1, <2>2
  <2> QED
    BY <1>4, <2>1, <2>2, <2>3
<1>12. ListFits'
  BY <1>1, <1>10, <1>11 DEF ListFits, WithCounts
<1>13. CountsFit'
  BY <1>1 DEF CountsFit, WithCounts
<1> QED
  BY <1>6, <1>9, <1>12, <1>13 DEF ColumnOK

\* A list without roles comes to an empty column.
LEMMA SubjectsShown ==
    ASSUME ColumnOK, rows = {}, dialog' = dialog, dialog \notin WithCounts \union {"members"},
           NEW subjects, ShowAgain(subjects)
    PROVE  ColumnOK'
<1>1. AddRows(subjects) /\ UNCHANGED <<fading, fades, row, on>>
  BY DEF ShowAgain, Shown
<1>2. FadesOK' /\ OneRowEach(rows')
  BY <1>1, RowsShown
<1>3. on' = {}
  BY <1>1, NoRows
<1>4. RowsOK'
  BY <1>2, <1>3 DEF RowsOK
<1> QED
  BY <1>2, <1>4 DEF ColumnOK, ListFits, CountsFit

\* A row that a pick adds is its subject's only one, and nothing is marked on it yet.
LEMMA RowPicked ==
    ASSUME ColumnOK, fades = {}, dialog' = dialog, NEW s, RowsOf(s) = {}, AddRows({s}),
           row' = <<"found", s>>, UNCHANGED <<fading, fades>>
    PROVE  /\ FadesOK' /\ OneRowEach(rows') /\ Visible' = Visible \union {FreshRow(s)}
           /\ FreshRow(s)[1] = s /\ FreshRow(s) \in rows' /\ rows \subseteq rows'
           /\ \A x \in on : x[1] # FreshRow(s)
           /\ \A r \in Visible : r[1] # s
           /\ PairsOf(on, Visible \union {FreshRow(s)}) = PairsOf(on, Visible)
<1>1. fading = {} /\ Visible = rows
  BY NoneFades
<1>2. FreshRow(s)[1] = s
  BY DEF FreshRow
<1>3. \A r \in rows : r[1] # s
  BY DEF RowsOf
<1>4. rows' = rows \union {FreshRow(s)}
  BY DEF AddRows
<1>5. OneRowEach(rows')
  BY <1>2, <1>3, <1>4 DEF ColumnOK, RowsOK, OneRowEach
<1>6. ASSUME NEW x \in on
      PROVE  x[1] \in rows /\ x[1] # FreshRow(s)
  BY <1>2, <1>3 DEF ColumnOK, RowsOK
<1>7. row'[1] # "row"
  OBVIOUS
<1>8. FadesOK' /\ Visible' = rows'
  BY <1>1, <1>7 DEF FadesOK, Visible
<1>9. PairsOf(on, rows') = PairsOf(on, rows)
  BY <1>4, <1>6, PairsOfRows
<1> QED
  BY <1>1, <1>2, <1>3, <1>4, <1>5, <1>6, <1>8, <1>9

LEMMA WithoutRolesPicked ==
    ASSUME ColumnOK, fades = {}, dialog' = dialog, open' = open, asked' = asked,
           dialog # "members", NEW s, RowsOf(s) = {}, AddRows({s}), row' = <<"found", s>>,
           UNCHANGED <<fading, fades, on, list>>,
           dialog \in WithCounts => count' = WithCount(s, Started(s))
    PROVE  ColumnOK'
<1>1. /\ FadesOK' /\ OneRowEach(rows') /\ Visible' = Visible \union {FreshRow(s)}
      /\ FreshRow(s)[1] = s /\ FreshRow(s) \in rows' /\ rows \subseteq rows'
      /\ \A x \in on : x[1] # FreshRow(s)
      /\ \A r \in Visible : r[1] # s
      /\ PairsOf(on, Visible \union {FreshRow(s)}) = PairsOf(on, Visible)
  BY RowPicked
<1>2. RowsOK'
  BY <1>1 DEF ColumnOK, RowsOK
<1>3. ListFits'
  BY <1>1 DEF ColumnOK, ListFits
<1>4. CountsFit'
  <2>1. SUFFICES ASSUME dialog \in WithCounts
                 PROVE  CountFits(count', on, Visible \union {FreshRow(s)}, Marks[dialog])
    BY <1>1 DEF CountsFit
  <2>2. PICK n : n = FreshRow(s)
    OBVIOUS
  <2>3. CountFits(count, on, Visible, Marks[dialog])
    BY <2>1 DEF ColumnOK, CountsFit
  <2>4. n[1] = s /\ (\A x \in on : x[1] # n) /\ (\A r \in Visible : r[1] # n[1])
    BY <1>1, <2>2
  <2>5. /\ n[1] \notin DOMAIN count
        /\ CountFits([x \in DOMAIN count \union {n[1]} |-> IF x = n[1] THEN 0 ELSE count[x]],
                     on, Visible \union {n}, Marks[dialog])
    BY <2>3, <2>4, CountRow
  <2>6. Started(s) = 0
    BY <2>4, <2>5 DEF Started, CountOf
  <2>7. count' = [x \in DOMAIN count \union {n[1]} |-> IF x = n[1] THEN 0 ELSE count[x]]
    BY <2>1, <2>4, <2>6 DEF WithCount
  <2> QED
    BY <2>2, <2>5, <2>7
<1> QED
  BY <1>1, <1>2, <1>3, <1>4 DEF ColumnOK

LEMMA MemberPicked ==
    ASSUME dialog \in DialogKinds, ColumnOK, fades = {}, dialog' = dialog, dialog = "members",
           NEW s, RowsOf(s) = {}, AddRows({s}), row' = <<"found", s>>,
           UNCHANGED <<fading, fades>>,
           on' = on \union {<<FreshRow(s), "member">>},
           list' = list \union {<<s, "member">>}
    PROVE  ColumnOK'
<1>1. PICK n : n = FreshRow(s)
  OBVIOUS
<1>2. /\ FadesOK' /\ OneRowEach(rows') /\ Visible' = Visible \union {n}
      /\ n[1] = s /\ n \in rows' /\ rows \subseteq rows'
      /\ \A x \in on : x[1] # n
      /\ PairsOf(on, Visible \union {n}) = PairsOf(on, Visible)
  BY <1>1, RowPicked
<1>3. "member" \in Marks[dialog]
  BY DialogAssumption
<1>4. RowsOK'
  BY <1>1, <1>2, <1>3 DEF ColumnOK, RowsOK
<1>5. PairsOf(Plus(on, n, "member"), Visible \union {n})
        = Plus(PairsOf(on, Visible \union {n}), n[1], "member")
  <2>1. PICK v : v = Visible \union {n}
    OBVIOUS
  <2>2. n \in v
    BY <2>1
  <2>3. PairsOf(Plus(on, n, "member"), v) = Plus(PairsOf(on, v), n[1], "member")
    BY <2>2, PairsAdd
  <2> QED
    BY <2>1, <2>3
<1>6. list = PairsOf(on, Visible) /\ \A x, y \in on : x[1] = y[1] => x = y
  BY DEF ColumnOK, ListFits
<1>7. PairsOf(on', Visible') = list'
  <2>1. on' = Plus(on, n, "member") /\ list' = Plus(list, n[1], "member")
    BY <1>1, <1>2 DEF Plus
  <2> QED
    BY <1>2, <1>5, <1>6, <2>1
<1>8. ASSUME NEW x \in on', NEW y \in on', x[1] = y[1]
      PROVE  x = y
  <2>1. <<n, "member">>[1] = n
    OBVIOUS
  <2> QED
    BY <1>1, <1>2, <1>6, <1>8, <2>1
<1>9. ListFits'
  BY <1>7, <1>8 DEF ListFits, WithCounts
<1>10. CountsFit'
  BY DEF CountsFit, WithCounts
<1> QED
  BY <1>2, <1>4, <1>9, <1>10 DEF ColumnOK

\* The row of a subject that is taken off the list.
LEMMA RowRemoved ==
    ASSUME ColumnOK, fades = {}, dialog' = dialog, open' = open, asked' = asked,
           NEW r \in Visible, Fade(r),
           dialog \in WithCounts \union {"members"} => list' = {x \in list : x[1] # r[1]},
           dialog \in WithCounts => count' = Without(r[1])
    PROVE  ColumnOK'
<1>1. fading = {} /\ Visible = rows
  BY NoneFades
<1>2. row' = <<"row", r>> /\ fading' = {r} /\ fades' = {r[1]} /\ UNCHANGED <<rows, on>>
  BY <1>1 DEF Fade
<1>3. row'[2] = r
  BY <1>2
<1>4. FadesOK'
  BY <1>1, <1>2, <1>3 DEF FadesOK
<1>5. RowsOK'
  BY <1>2 DEF ColumnOK, RowsOK
<1>6. Visible' = rows \ {r}
  BY <1>2 DEF Visible
<1>7. Paired(on, rows) /\ OneRowEach(rows)
  BY DEF ColumnOK, RowsOK, Paired
<1>8. PairsOf(on, rows \ {r}) = Sparing(PairsOf(on, rows), r[1])
  BY <1>1, <1>7, PairsDropRow
<1>9. ListFits'
  BY <1>1, <1>2, <1>6, <1>8 DEF ColumnOK, ListFits, Sparing
<1>10. CountsFit'
  <2>1. SUFFICES ASSUME dialog \in WithCounts
                 PROVE  CountFits(count', on, rows \ {r}, Marks[dialog])
    BY <1>2, <1>6 DEF CountsFit
  <2>2. CountFits(count, on, rows, Marks[dialog])
    BY <1>1, <2>1 DEF ColumnOK, CountsFit
  <2>3. count' = [x \in DOMAIN count \ {r[1]} |-> count[x]]
    BY <2>1 DEF Without
  <2> QED
    BY <1>1, <1>7, <2>2, <2>3, CountWithout
<1> QED
  BY <1>4, <1>5, <1>9, <1>10 DEF ColumnOK

\* The row that goes at the end of a row's fading is the one that was fading.
LEMMA RowGone ==
    ASSUME ColumnOK, dialog' = dialog, FadedOut
    PROVE  ColumnOK'
<1> DEFINE taken == IF row[1] = "row" THEN {row[2]} ELSE {}
<1>1. taken = fading
  <2>1. ASSUME NEW r \in fading
        PROVE  r \in taken
    <3>1. row = <<"row", r>>
      BY DEF ColumnOK, FadesOK
    <3> QED
      BY <3>1
  <2> QED
    BY <2>1 DEF ColumnOK, FadesOK
<1>2. /\ rows' = rows \ taken /\ fading' = fading \ taken
      /\ on' = {x \in on : x[1] \notin taken} /\ row' = NoRow
      /\ UNCHANGED <<open, asked, list, count>>
  BY DEF FadedOut
<1>3. fading' = {} /\ rows' = Visible /\ Visible' = Visible /\ Visible \intersect fading = {}
  <2> HIDE DEF taken
  <2> QED
    BY <1>1, <1>2 DEF Visible
<1>4. FadesOK'
  BY <1>2, <1>3 DEF FadesOK, NoRow
<1>5. on' = {x \in on : x[1] \notin fading}
  <2> HIDE DEF taken
  <2> QED
    BY <1>1, <1>2
<1>6. RowsOK'
  BY <1>3, <1>5 DEF ColumnOK, RowsOK, OneRowEach, Visible
<1>7. PairsOf(on', Visible) = PairsOf(on, Visible)
  <2>1. PICK o : o = {x \in on : x[1] \notin fading}
    OBVIOUS
  <2>2. PairsOf(o, Visible) = PairsOf(on, Visible)
    BY <1>3, <2>1 DEF PairsOf
  <2> QED
    BY <1>5, <2>1, <2>2
<1>8. ListFits'
  <2>1. on' \subseteq on
    BY <1>5
  <2> QED
    BY <1>2, <1>3, <1>7, <2>1 DEF ColumnOK, ListFits
<1>9. CountsFit'
  <2>1. SUFFICES ASSUME dialog \in WithCounts
                 PROVE  CountFits(count, on', Visible, Marks[dialog])
    BY <1>2, <1>3 DEF CountsFit
  <2>2. CountFits(count, on, Visible, Marks[dialog])
    BY <2>1 DEF ColumnOK, CountsFit
  <2>3. \A r \in Visible : {m \in Marks[dialog] : <<r, m>> \in on'}
                            = {m \in Marks[dialog] : <<r, m>> \in on}
    BY <1>3, <1>5
  <2> QED
    BY <2>2, <2>3 DEF CountFits
<1> QED
  BY <1>4, <1>6, <1>8, <1>9 DEF ColumnOK

\* A role of a row in a column with counts is put on or taken off.
LEMMA MarkToggled ==
    ASSUME dialog \in DialogKinds, dialog \in WithCounts, ColumnOK, fades = {},
           dialog' = dialog, ToggleMark
    PROVE  ColumnOK'
<1>1. PICK r \in rows, m \in Marks[dialog] :
        IF <<r, m>> \in on
        THEN /\ on' = Minus(on, r, m) /\ list' = Minus(list, r[1], m)
             /\ count' = WithCount(r[1], Counted(r[1], -1))
        ELSE /\ on' = Plus(on, r, m) /\ list' = Plus(list, r[1], m)
             /\ count' = WithCount(r[1], Counted(r[1], 1))
  BY DEF ToggleMark, Plus, Minus
<1>2. UNCHANGED <<open, asked, rows, fading, fades, row>>
  BY DEF ToggleMark, Page
<1>3. fading = {} /\ Visible = rows /\ Visible' = rows
  BY <1>2, NoneFades DEF Visible
<1>4. FadesOK'
  BY <1>2 DEF ColumnOK, FadesOK
<1>5. /\ on \subseteq rows \X Marks[dialog] /\ OneRowEach(rows) /\ Paired(on, rows)
      /\ CountFits(count, on, rows, Marks[dialog]) /\ IsFiniteSet(Marks[dialog])
  BY <1>3, DialogAssumption DEF ColumnOK, RowsOK, CountsFit, Paired, WithCounts, WithRoles
<1>6. open /\ asked.list = 0 => list = PairsOf(on, rows)
  BY <1>3 DEF ColumnOK, ListFits
<1> DEFINE change == IF <<r, m>> \in on THEN -1 ELSE 1
<1>7. count' = [x \in DOMAIN count \union {r[1]} |->
                  IF x = r[1] THEN count[r[1]] + change ELSE count[x]]
  <2>1. r[1] \in DOMAIN count
    BY <1>5 DEF CountFits
  <2>2. count[r[1]] \in Nat
    BY <1>5, CountNatural
  <2>3. Counted(r[1], change) = count[r[1]] + change
    BY <2>1, <2>2 DEF Counted, CountOf, NaN
  <2>4. count' = WithCount(r[1], Counted(r[1], change))
    BY <1>1
  <2> HIDE DEF change
  <2> QED
    BY <2>3, <2>4 DEF WithCount
<1>8. CASE <<r, m>> \in on
  <2>1. on' = Minus(on, r, m) /\ list' = Minus(list, r[1], m)
    BY <1>1, <1>8
  <2>2. RowsOK'
    BY <1>2, <1>5, <2>1 DEF RowsOK, Minus
  <2>3. PairsOf(Minus(on, r, m), rows) = Minus(PairsOf(on, rows), r[1], m)
    BY <1>5, PairsDrop
  <2>4. ListFits'
    BY <1>2, <1>3, <1>6, <2>1, <2>3 DEF ListFits, WithCounts
  <2>5. CountFits(count', on \ {<<r, m>>}, rows, Marks[dialog])
    BY <1>5, <1>7, <1>8, CountMarks
  <2>6. CountsFit'
    BY <1>3, <2>1, <2>5 DEF CountsFit, Minus
  <2> QED
    BY <1>4, <2>2, <2>4, <2>6 DEF ColumnOK
<1>9. CASE <<r, m>> \notin on
  <2>1. on' = Plus(on, r, m) /\ list' = Plus(list, r[1], m)
    BY <1>1, <1>9
  <2>2. RowsOK'
    BY <1>2, <1>5, <2>1 DEF RowsOK, Plus
  <2>3. PairsOf(Plus(on, r, m), rows) = Plus(PairsOf(on, rows), r[1], m)
    BY <1>5, PairsAdd
  <2>4. ListFits'
    BY <1>2, <1>3, <1>6, <2>1, <2>3 DEF ListFits, WithCounts
  <2>5. CountFits(count', on \union {<<r, m>>}, rows, Marks[dialog])
    BY <1>5, <1>7, <1>9, CountMarks
  <2>6. CountsFit'
    BY <1>3, <2>1, <2>5 DEF CountsFit, Plus
  <2> QED
    BY <1>4, <2>2, <2>4, <2>6 DEF ColumnOK
<1> QED
  BY <1>8, <1>9

\* A role of a member is put on, in place of another, or taken off.
LEMMA MemberAssigned ==
    ASSUME ColumnOK, fades = {}, dialog' = dialog, AssignMember
    PROVE  ColumnOK'
<1>1. PICK r \in rows, m \in Marks[dialog] :
        IF <<r, m>> \in on
        THEN /\ on' = Minus(on, r, m)
             /\ IF Sparing(list, r[1]) # list \/ list = {} THEN list' = Sparing(list, r[1])
                ELSE \E x \in list : list' = list \ {x}
        ELSE on' = Plus(Sparing(on, r), r, m) /\ list' = Plus(Sparing(list, r[1]), r[1], m)
  BY DEF AssignMember, Plus, Minus, Sparing
<1>2. UNCHANGED <<rows, fading, fades, row>> /\ dialog = "members"
  BY DEF AssignMember
<1>3. fading = {} /\ Visible = rows /\ Visible' = rows
  BY <1>2, NoneFades DEF Visible
<1>4. FadesOK'
  BY <1>2 DEF ColumnOK, FadesOK
<1>5. on \subseteq rows \X Marks[dialog] /\ OneRowEach(rows) /\ Paired(on, rows)
  BY DEF ColumnOK, RowsOK, Paired
<1>6. list = PairsOf(on, rows) /\ \A x, y \in on : x[1] = y[1] => x = y
  BY <1>2, <1>3 DEF ColumnOK, ListFits
<1>7. CountsFit'
  BY <1>2 DEF CountsFit, WithCounts
<1>8. PairsOf(Sparing(on, r), rows) = Sparing(list, r[1])
  <2>1. PairsOf(Sparing(on, r), rows) = Sparing(PairsOf(on, rows), r[1])
    BY <1>5, PairsSpared
  <2> QED
    BY <1>6, <2>1
<1>9. <<r, m>>[1] = r
  OBVIOUS
<1>10. CASE <<r, m>> \in on
  <2>1. on' = Sparing(on, r)
    <3>1. on' = Minus(on, r, m)
      BY <1>1, <1>10
    <3>2. ASSUME NEW x \in on
          PROVE  x[1] # r <=> x # <<r, m>>
      BY <1>6, <1>9, <1>10
    <3> QED
      BY <3>1, <3>2 DEF Minus, Sparing
  <2>2. Sparing(list, r[1]) # list
    <3>1. \E y \in on : y[1] \in rows /\ <<r[1], m>> = <<y[1][1], y[2]>>
      BY <1>10
    <3>2. <<r[1], m>> \in list
      BY <1>6, <3>1, InPairs
    <3>3. <<r[1], m>> \notin Sparing(list, r[1])
      BY DEF Sparing
    <3> QED
      BY <3>2, <3>3
  <2>3. list' = Sparing(list, r[1])
    BY <1>1, <1>10, <2>2
  <2>4. RowsOK'
    BY <1>2, <1>5, <2>1 DEF RowsOK, Sparing
  <2>5. ListFits'
    BY <1>2, <1>3, <1>6, <1>8, <2>1, <2>3 DEF ListFits, WithCounts, Sparing
  <2> QED
    BY <1>4, <1>7, <2>4, <2>5 DEF ColumnOK
<1>11. CASE <<r, m>> \notin on
  <2>1. on' = Plus(Sparing(on, r), r, m) /\ list' = Plus(Sparing(list, r[1]), r[1], m)
    BY <1>1, <1>11
  <2>2. RowsOK'
    BY <1>2, <1>5, <2>1 DEF RowsOK, Sparing, Plus
  <2>3. PairsOf(Plus(Sparing(on, r), r, m), rows) = Plus(PairsOf(Sparing(on, r), rows), r[1], m)
    BY PairsAdd
  <2>4. PairsOf(on', rows) = list'
    BY <1>8, <2>1, <2>3
  <2>5. ASSUME NEW x \in on', NEW y \in on', x[1] = y[1]
        PROVE  x = y
    BY <1>6, <1>9, <2>1, <2>5 DEF Plus, Sparing
  <2>6. ListFits'
    BY <1>2, <1>3, <2>4, <2>5 DEF ListFits, WithCounts
  <2> QED
    BY <1>4, <1>7, <2>2, <2>6 DEF ColumnOK
<1> QED
  BY <1>10, <1>11

\* What every step keeps, and that a page once gentle was gentle before.
LEMMA StepsOfDialogs ==
    ASSUME DialogInv, DialogStep
    PROVE  /\ sent.done = FALSE /\ dialog' = dialog /\ asked' \in [list: Nat, search: Nat]
           /\ hasty' \in BOOLEAN /\ reopened' \in BOOLEAN
           /\ Gentle' => Gentle
<1> USE DEF Acts, Waits, Click, Page
<1>1. dialog' = dialog /\ ~sent.done
  BY DEF DialogStep, Open, Answered, Cancel, Dismiss, Type, Filter, FadedOut,
         AvailableUsers, AvailableOrganizations, AvailableApplications, Searches,
         PickUser, PickOrganization, PickMember, PickAdministrator, PickTrusted,
         PickWithoutRoles, PickRow, RemoveUser, RemoveOrganization, RemoveMember,
         RemoveAdministrator, RemoveTrustedRow, RemoveCounted, RemoveRow,
         AssignRole, AssignOrganizationRole, AssignMember, ToggleMark,
         SubmitUsers, SubmitOrganizations, SubmitMembers, SubmitAdministrators,
         SubmitTrusted, SubmitCounted, SubmitRows
<1>2. hasty' = hasty \/ hasty' = (hasty \/ fades # {})
  BY DEF DialogStep, Open, Answered, Cancel, Dismiss, Type, Filter, FadedOut,
         AvailableUsers, AvailableOrganizations, AvailableApplications, Searches,
         SearchStarts, SearchEnds,
         PickUser, PickOrganization, PickMember, PickAdministrator, PickTrusted,
         PickWithoutRoles, PickRow, RemoveUser, RemoveOrganization, RemoveMember,
         RemoveAdministrator, RemoveTrustedRow, RemoveCounted, RemoveRow,
         AssignRole, AssignOrganizationRole, AssignMember, ToggleMark,
         SubmitUsers, SubmitOrganizations, SubmitMembers, SubmitAdministrators,
         SubmitTrusted, SubmitCounted, SubmitRows
<1>3. \/ reopened' = reopened
      \/ reopened' = (reopened \/ rows # {})
      \/ reopened' = (reopened \/ ~open)
  BY DEF DialogStep, Open, Answered, Cancel, Dismiss, Type, Filter, FadedOut,
         Show, ShowUsers, ShowOrganizations, ShowMembers, ShowAdministrators, ShowTrusted,
         ShowAgain, Shown,
         AvailableUsers, AvailableOrganizations, AvailableApplications, Searches,
         SearchStarts, SearchEnds, Pick,
         PickUser, PickOrganization, PickMember, PickAdministrator, PickTrusted,
         PickWithoutRoles, PickRow, RemoveUser, RemoveOrganization, RemoveMember,
         RemoveAdministrator, RemoveTrustedRow, RemoveCounted, RemoveRow, Fade,
         AssignRole, AssignOrganizationRole, AssignMember, ToggleMark,
         SubmitUsers, SubmitOrganizations, SubmitMembers, SubmitAdministrators,
         SubmitTrusted, SubmitCounted, SubmitRows, AskOrSend
<1>4. \/ asked' = asked
      \/ asked' = [asked EXCEPT !.search = @ + 1]
      \/ asked' = [asked EXCEPT !.search = @ - 1] /\ asked.search > 0
      \/ asked' = [asked EXCEPT !.list = @ + 1]
      \/ asked' = [asked EXCEPT !.list = @ - 1] /\ asked.list > 0
  BY DEF DialogStep, Open, Answered, Cancel, Dismiss, Type, Filter, FadedOut,
         AvailableUsers, AvailableOrganizations, AvailableApplications, Searches,
         SearchStarts, SearchEnds, Pick,
         PickUser, PickOrganization, PickMember, PickAdministrator, PickTrusted,
         PickWithoutRoles, PickRow, RemoveUser, RemoveOrganization, RemoveMember,
         RemoveAdministrator, RemoveTrustedRow, RemoveCounted, RemoveRow, Fade,
         AssignRole, AssignOrganizationRole, AssignMember, ToggleMark,
         SubmitUsers, SubmitOrganizations, SubmitMembers, SubmitAdministrators,
         SubmitTrusted, SubmitCounted, SubmitRows, AskOrSend
<1>5. asked' \in [list: Nat, search: Nat]
  <2>1. asked \in [list: Nat, search: Nat]
    BY DEF DialogInv
  <2>2. PICK q : q = asked
    OBVIOUS
  <2>3. PICK n : n = asked'
    OBVIOUS
  <2> QED
    BY <1>4, <2>1, <2>2, <2>3
<1>6. hasty' \in BOOLEAN /\ (~hasty' => ~hasty)
  BY <1>2 DEF DialogInv
<1>7. reopened' \in BOOLEAN /\ (~reopened' => ~reopened)
  BY <1>3 DEF DialogInv
<1> QED
  BY <1>1, <1>5, <1>6, <1>7 DEF DialogInv, Gentle

\* What has to be shown of a step that sends nothing.
LEMMA NothingSentStep ==
    ASSUME DialogInv, DialogStep, sent' = sent,
           Gentle /\ Gentle' /\ ColumnOK => ColumnOK'
    PROVE  DialogInv'
<1>1. /\ sent.done = FALSE /\ dialog' = dialog /\ asked' \in [list: Nat, search: Nat]
      /\ hasty' \in BOOLEAN /\ reopened' \in BOOLEAN /\ (Gentle' => Gentle)
  BY StepsOfDialogs
<1>2. sent'.done = FALSE /\ DialogSendsWhatItShows'
  BY <1>1, NothingSent
<1> QED
  BY <1>1, <1>2 DEF DialogInv

LEMMA OpenStep == DialogInv /\ Open => DialogInv'
<1> SUFFICES ASSUME DialogInv, Open
             PROVE  DialogInv'
  OBVIOUS
<1>1. DialogStep
  BY DEF DialogStep
<1>2. sent' = sent /\ dialog' = dialog
  BY DEF Open, Acts
<1>3. ASSUME Gentle, Gentle', ColumnOK
      PROVE  ColumnOK'
  <2>1. CASE dialog = "trusted"
    <3>1. PICK answer \in Lists[dialog] : ShowAgain(answer)
      BY <2>1 DEF Open, ShowTrusted
    <3>2. rows = {}
      BY <1>3, <3>1 DEF ShowAgain, Shown, Gentle
    <3> QED
      BY <1>2, <1>3, <2>1, <3>1, <3>2, SubjectsShown DEF WithCounts
  <2>2. CASE dialog # "trusted"
    <3>1. /\ asked' = [asked EXCEPT !.list = @ + 1]
          /\ UNCHANGED <<rows, fading, fades, row, on, list, count>>
      BY <2>2 DEF Open, Column
    <3>2. asked'.list # 0
      BY <3>1 DEF DialogInv
    <3> QED
      BY <1>2, <1>3, <3>1, <3>2, ColumnStays
  <2> QED
    BY <2>1, <2>2
<1> QED
  BY <1>1, <1>2, <1>3, NothingSentStep

LEMMA AnsweredStep == DialogInv /\ Answered => DialogInv'
<1> SUFFICES ASSUME DialogInv, Answered
             PROVE  DialogInv'
  OBVIOUS
<1>1. DialogStep
  BY DEF DialogStep
<1>2. sent' = sent /\ dialog' = dialog
  BY DEF Answered, Waits
<1>3. ASSUME Gentle, Gentle', ColumnOK
      PROVE  ColumnOK'
  <2>1. CASE Show
    <3>1. Shown
      BY <2>1 DEF Show, ShowUsers, ShowOrganizations, ShowMembers, ShowAdministrators,
                  ShowAgain
    <3>2. rows = {} /\ UNCHANGED <<fading, fades, row>>
      BY <1>3, <3>1 DEF Shown, Gentle
    <3>3. CASE ShowUsers \/ ShowOrganizations
      <4>1. PICK answer \in Lists[dialog] : ShowRoles(answer)
        BY <3>3 DEF ShowUsers, ShowOrganizations
      <4>2. dialog \in WithCounts
        BY <3>3 DEF ShowUsers, ShowOrganizations, WithCounts
      <4> QED
        BY <1>2, <1>3, <3>2, <4>1, <4>2, RolesShown DEF DialogInv
    <3>4. CASE ShowMembers
      BY <1>2, <1>3, <3>2, <3>4, MembersShown DEF DialogInv
    <3>5. CASE ShowAdministrators
      <4>1. PICK answer \in Lists[dialog] : ShowAgain(answer)
        BY <3>5 DEF ShowAdministrators
      <4>2. dialog \notin WithCounts \union {"members"}
        BY <3>5 DEF ShowAdministrators, WithCounts
      <4> QED
        BY <1>2, <1>3, <3>2, <4>1, <4>2, SubjectsShown
    <3> QED
      BY <2>1, <3>3, <3>4, <3>5 DEF Show
  <2>2. CASE Exit /\ open' = ~open /\ reopened' = (reopened \/ ~open)
    <3>1. open' = FALSE
      BY <1>3, <2>2 DEF Gentle
    <3> QED
      BY <1>2, <2>2, <3>1, ColumnEmptied
  <2> QED
    BY <2>1, <2>2 DEF Answered
<1> QED
  BY <1>1, <1>2, <1>3, NothingSentStep

LEMMA CancelStep == DialogInv /\ Cancel => DialogInv'
<1> SUFFICES ASSUME DialogInv, Cancel
             PROVE  DialogInv'
  OBVIOUS
<1>1. DialogStep
  BY DEF DialogStep
<1>2. sent' = sent /\ dialog' = dialog /\ Exit /\ open' = FALSE
  BY DEF Cancel, Acts
<1>3. ColumnOK'
  BY <1>2, ColumnEmptied
<1> QED
  BY <1>1, <1>2, <1>3, NothingSentStep

\* Steps that leave the rows and the list alone.
LEMMA QuietSteps ==
    DialogInv /\ (Dismiss \/ Type \/ Filter \/ AvailableUsers \/ AvailableOrganizations
                  \/ AvailableApplications) => DialogInv'
<1> SUFFICES ASSUME DialogInv, Dismiss \/ Type \/ Filter \/ Searches,
                    DialogStep
             PROVE  DialogInv'
  BY DEF DialogStep, AvailableUsers, AvailableOrganizations, AvailableApplications
<1>1. sent' = sent
  BY DEF Dismiss, Type, Filter, Searches, SearchStarts, SearchEnds, Page
<1>2. dialog' = dialog
  BY StepsOfDialogs
<1>3. UNCHANGED <<rows, fades, on, list, count>>
  BY DEF Dismiss, Type, Filter, Searches, SearchStarts, SearchEnds, Column
<1>4. row' = row \/ (row[1] # "row" /\ row'[1] # "row")
  <2>1. row' = row \/ row' = Detached(row)
    BY DEF Dismiss, Type, Filter, Searches, SearchStarts, SearchEnds, Column
  <2> QED
    BY <2>1 DEF Detached, NoRow
<1>5. ASSUME ColumnOK
      PROVE  fading' = fading
  <2>1. fading' = fading \/ fading' = {r \in fading : r[1] \in fades}
    BY DEF Dismiss, Type, Filter, Searches, SearchStarts, SearchEnds, Column
  <2> QED
    BY <1>5, <2>1 DEF ColumnOK, FadesOK
<1>6. open' /\ asked'.list = 0 => open /\ asked.list = 0
  <2>1. CASE Dismiss
    BY <2>1 DEF Dismiss
  <2>2. CASE Type \/ Filter
    BY <2>2 DEF Type, Filter, Page
  <2>3. CASE Searches
    <3>1. open' = open
      BY <2>3 DEF Searches, SearchStarts, SearchEnds
    <3>2. \/ asked' = asked \/ asked' = [asked EXCEPT !.search = @ + 1]
          \/ asked' = [asked EXCEPT !.search = @ - 1]
      BY <2>3 DEF Searches, SearchStarts, SearchEnds
    <3>3. asked'.list = asked.list
      BY <3>2 DEF DialogInv
    <3> QED
      BY <3>1, <3>3
  <2> QED
    BY <2>1, <2>2, <2>3
<1>7. ASSUME ColumnOK
      PROVE  ColumnOK'
  BY <1>2, <1>3, <1>4, <1>5, <1>6, <1>7, ColumnStays
<1> QED
  BY <1>1, <1>7, NothingSentStep

LEMMA FadedOutStep == DialogInv /\ FadedOut => DialogInv'
<1> SUFFICES ASSUME DialogInv, FadedOut
             PROVE  DialogInv'
  OBVIOUS
<1>1. DialogStep
  BY DEF DialogStep
<1>2. sent' = sent /\ dialog' = dialog
  BY DEF FadedOut, Waits
<1>3. ColumnOK => ColumnOK'
  BY <1>2, RowGone
<1> QED
  BY <1>1, <1>2, <1>3, NothingSentStep

\* No click of a gentle page came while a row was fading.
LEMMA GentleClick ==
    ASSUME DialogInv, Click, Gentle'
    PROVE  fades = {}
<1>1. hasty' = (hasty \/ fades # {})
  BY DEF Click
<1> QED
  BY <1>1 DEF Gentle

LEMMA PickSteps ==
    DialogInv /\ (PickUser \/ PickOrganization \/ PickMember \/ PickAdministrator
                  \/ PickTrusted) => DialogInv'
<1> SUFFICES ASSUME DialogInv, DialogStep,
                    PickUser \/ PickOrganization \/ PickMember \/ PickAdministrator
                    \/ PickTrusted
             PROVE  DialogInv'
  BY DEF DialogStep
<1>1. PICK s \in found :
        /\ Pick(s)
        /\ \/ AlreadyAdded(s)
           \/ /\ dialog = "members" /\ Added(s)
              /\ on' = on \union {<<FreshRow(s), "member">>}
              /\ list' = list \union {<<s, "member">>}
           \/ /\ dialog # "members" /\ Added(s) /\ UNCHANGED <<on, list>>
              /\ dialog \in WithCounts => count' = WithCount(s, Started(s))
  BY DEF PickUser, PickOrganization, PickMember, PickAdministrator, PickTrusted,
         PickWithoutRoles, PickRow, WithCounts
<1>2. Click
  BY DEF PickUser, PickOrganization, PickMember, PickAdministrator, PickTrusted,
         PickWithoutRoles, PickRow
<1>3. row' = <<"found", s>> /\ UNCHANGED <<open, asked, sent, fading, fades>>
  BY <1>1 DEF Pick, Page
<1>4. dialog' = dialog /\ dialog \in DialogKinds
  BY StepsOfDialogs DEF DialogInv
<1>5. ASSUME Gentle', ColumnOK
      PROVE  ColumnOK'
  <2>1. fades = {}
    BY <1>2, <1>5, GentleClick
  <2>2. CASE AlreadyAdded(s)
    <3>1. UNCHANGED <<rows, on, list, count>>
      BY <2>2 DEF AlreadyAdded
    <3>2. row[1] # "row"
      BY <1>5, <2>1, NoneFades
    <3>3. row'[1] # "row"
      BY <1>3
    <3> QED
      BY <1>3, <1>4, <1>5, <3>1, <3>2, <3>3, ColumnStays
  <2>3. CASE /\ dialog = "members" /\ Added(s)
             /\ on' = on \union {<<FreshRow(s), "member">>}
             /\ list' = list \union {<<s, "member">>}
    BY <1>3, <1>4, <1>5, <2>1, <2>3, MemberPicked DEF Added
  <2>4. CASE /\ dialog # "members" /\ Added(s) /\ UNCHANGED <<on, list>>
             /\ dialog \in WithCounts => count' = WithCount(s, Started(s))
    BY <1>3, <1>4, <1>5, <2>1, <2>4, WithoutRolesPicked DEF Added
  <2> QED
    BY <1>1, <2>2, <2>3, <2>4
<1> QED
  BY <1>3, <1>5, NothingSentStep

LEMMA RemoveSteps ==
    DialogInv /\ (RemoveUser \/ RemoveOrganization \/ RemoveMember \/ RemoveAdministrator
                  \/ RemoveTrustedRow) => DialogInv'
<1> SUFFICES ASSUME DialogInv, DialogStep,
                    RemoveUser \/ RemoveOrganization \/ RemoveMember
                    \/ RemoveAdministrator \/ RemoveTrustedRow
             PROVE  DialogInv'
  BY DEF DialogStep
<1>1. PICK r \in Visible :
        /\ Fade(r)
        /\ dialog \in WithCounts \union {"members"} => list' = {x \in list : x[1] # r[1]}
        /\ dialog \in WithCounts => count' = Without(r[1])
  BY DEF RemoveUser, RemoveOrganization, RemoveMember, RemoveAdministrator,
         RemoveTrustedRow, RemoveCounted, RemoveRow, WithCounts
<1>2. Click
  BY DEF RemoveUser, RemoveOrganization, RemoveMember, RemoveAdministrator,
         RemoveTrustedRow, RemoveCounted, RemoveRow
<1>3. UNCHANGED <<open, asked, sent>>
  BY <1>1 DEF Fade, Page
<1>4. dialog' = dialog
  BY StepsOfDialogs
<1>5. ASSUME Gentle', ColumnOK
      PROVE  ColumnOK'
  <2>1. fades = {}
    BY <1>2, <1>5, GentleClick
  <2> QED
    BY <1>1, <1>3, <1>4, <1>5, <2>1, RowRemoved
<1> QED
  BY <1>3, <1>5, NothingSentStep

LEMMA AssignSteps ==
    DialogInv /\ (AssignRole \/ AssignOrganizationRole \/ AssignMember) => DialogInv'
<1> SUFFICES ASSUME DialogInv, DialogStep,
                    AssignRole \/ AssignOrganizationRole \/ AssignMember
             PROVE  DialogInv'
  BY DEF DialogStep
<1>1. Click /\ sent' = sent
  BY DEF AssignRole, AssignOrganizationRole, AssignMember, ToggleMark, Page
<1>2. dialog' = dialog /\ dialog \in DialogKinds
  BY StepsOfDialogs DEF DialogInv
<1>3. ASSUME Gentle', ColumnOK
      PROVE  ColumnOK'
  <2>1. fades = {}
    BY <1>1, <1>3, GentleClick
  <2>2. CASE AssignMember
    BY <1>2, <1>3, <2>1, <2>2, MemberAssigned
  <2>3. CASE AssignRole \/ AssignOrganizationRole
    <3>1. dialog \in WithCounts /\ ToggleMark
      BY <2>3 DEF AssignRole, AssignOrganizationRole, WithCounts
    <3> QED
      BY <1>2, <1>3, <2>1, <3>1, MarkToggled
  <2> QED
    BY <2>2, <2>3
<1> QED
  BY <1>1, <1>3, NothingSentStep

\* What is sent when the column is as it should be.
LEMMA SubmitSteps ==
    DialogInv /\ (SubmitUsers \/ SubmitOrganizations \/ SubmitMembers
                  \/ SubmitAdministrators \/ SubmitTrusted) => DialogInv'
<1> SUFFICES ASSUME DialogInv, DialogStep,
                    SubmitUsers \/ SubmitOrganizations \/ SubmitMembers
                    \/ SubmitAdministrators \/ SubmitTrusted
             PROVE  DialogInv'
  BY DEF DialogStep
<1> DEFINE what == IF dialog \in WithRoles THEN list ELSE {r[1] : r \in rows}
<1>1. /\ Click
      /\ AskOrSend(what)
      /\ dialog \in WithCounts =>
          doubtful' = doubtful \union {r \in rows : r[1] \in DOMAIN count /\ count[r[1]] = 0}
      /\ dialog = "members" => doubtful' = {r \in rows : MarksOf(r) = {}}
  BY DEF SubmitUsers, SubmitOrganizations, SubmitMembers, SubmitAdministrators,
         SubmitTrusted, SubmitCounted, SubmitRows, WithCounts, WithRoles
<1>2. /\ UNCHANGED <<open, asked, reopened, rows, fading, fades, row, on, list, count>>
      /\ IF doubtful' = {} \/ confirm
         THEN sent' = [done |-> TRUE, list |-> what] /\ confirm' = confirm
         ELSE sent' = sent
  BY <1>1 DEF AskOrSend, SendForm
<1>3. /\ dialog' = dialog /\ dialog \in DialogKinds /\ asked' \in [list: Nat, search: Nat]
      /\ hasty' \in BOOLEAN /\ reopened' \in BOOLEAN /\ (Gentle' => Gentle)
      /\ sent.done = FALSE
  BY StepsOfDialogs DEF DialogInv
<1>4. ASSUME ColumnOK
      PROVE  ColumnOK'
  BY <1>2, <1>3, <1>4, ColumnStays
<1>5. CASE sent' = sent
  BY <1>4, <1>5, NothingSentStep
<1>6. CASE sent' = [done |-> TRUE, list |-> what] /\ confirm' = confirm
           /\ (doubtful' = {} \/ confirm)
  <2>1. sent'.done = TRUE /\ sent'.list = what
    BY <1>6
  <2>2. SUFFICES ASSUME asked'.list = 0, Gentle'
                 PROVE  /\ sent'.list = IF dialog \in WithRoles THEN PairsOf(on, Visible)
                                       ELSE {r[1] : r \in Visible}
                        /\ dialog \in WithRoles =>
                            confirm \/ \A r \in Visible : MarksOf(r) # {}
    <3>1. Visible' = Visible /\ \A r : MarksOf(r)' = MarksOf(r)
      BY <1>2, <1>3 DEF Visible, MarksOf
    <3>2. DialogSendsWhatItShows'
      BY <1>2, <1>3, <1>6, <2>2, <3>1 DEF DialogSendsWhatItShows, PairsOf, Gentle
    <3> QED
      BY <1>3, <1>4, <2>1, <3>2 DEF DialogInv
  <2>3. ColumnOK /\ fades = {}
    BY <1>1, <1>3, <2>2, GentleClick DEF DialogInv
  <2>4. Visible = rows
    BY <2>3, NoneFades
  <2>5. open /\ asked.list = 0
    BY <1>1, <1>2, <2>2 DEF Click
  <2>6. dialog \in WithRoles => list = PairsOf(on, Visible)
    BY <2>3, <2>5 DEF ColumnOK, ListFits, WithRoles, WithCounts
  <2>7. CASE dialog \notin WithRoles
    BY <2>1, <2>4, <2>7
  <2>8. CASE dialog = "members"
    <3>1. confirm \/ \A r \in Visible : MarksOf(r) # {}
      BY <1>1, <1>6, <2>4, <2>8
    <3> QED
      BY <2>1, <2>6, <2>8, <3>1 DEF WithRoles
  <2>9. CASE dialog \in WithCounts
    <3>1. CountFits(count, on, rows, Marks[dialog])
      BY <2>3, <2>4, <2>9 DEF ColumnOK, CountsFit
    <3>2. ASSUME NEW r \in rows, doubtful' = {}
          PROVE  MarksOf(r) # {}
      <4>1. r[1] \in DOMAIN count /\ count[r[1]] # 0
        BY <1>1, <2>9, <3>1, <3>2 DEF CountFits
      <4>2. count[r[1]] = Cardinality(MarksOf(r))
        BY <3>1 DEF CountFits, MarksOf
      <4> QED
        BY <4>1, <4>2, FS_EmptySet
    <3>3. dialog \in WithRoles
      BY <2>9 DEF WithRoles, WithCounts
    <3> QED
      BY <1>6, <2>1, <2>4, <2>6, <3>2, <3>3
  <2> QED
    BY <2>7, <2>8, <2>9 DEF WithRoles, WithCounts
<1> QED
  BY <1>2, <1>5, <1>6

\* Dialogs.  The form that a dialog sends holds the list that the dialog shows, whatever
\* was searched for, picked, marked, removed and left before, and no row without a mark is
\* sent without asking: of every dialog whose list has come, in which nobody clicks while a
\* row is fading, and to whose rows no second list has come.
THEOREM DialogsSendWhatTheyShow == DialogSpec => []DialogSendsWhatItShows
<1>1. DialogInit => DialogInv
  <2> SUFFICES ASSUME DialogInit
               PROVE  DialogInv
    OBVIOUS
  <2>1. /\ dialog \in DialogKinds /\ asked \in [list: Nat, search: Nat]
        /\ hasty \in BOOLEAN /\ reopened \in BOOLEAN /\ sent.done = FALSE
    BY DEF DialogInit, Unsent
  <2>2. FadesOK /\ RowsOK /\ Visible = {} /\ on = {} /\ list = {} /\ open = FALSE
    BY DEF DialogInit, FadesOK, RowsOK, OneRowEach, Visible, NoRow
  <2>3. ListFits
    BY <2>2 DEF ListFits, PairsOf
  <2>4. CountsFit
    BY <2>2 DEF DialogInit, CountsFit, CountFits
  <2> QED
    BY <2>1, <2>2, <2>3, <2>4 DEF DialogInv, ColumnOK, DialogSendsWhatItShows
<1>2. DialogInv /\ [DialogStep]_dialogVars => DialogInv'
  <2>1. DialogInv /\ UNCHANGED dialogVars => DialogInv'
    BY DEF DialogInv, dialogVars, Gentle, ColumnOK, FadesOK, RowsOK, OneRowEach, ListFits,
           CountsFit, CountFits, PairsOf, Visible, DialogSendsWhatItShows, MarksOf
  <2> QED
    BY <2>1, OpenStep, AnsweredStep, CancelStep, QuietSteps, FadedOutStep, PickSteps,
       RemoveSteps, AssignSteps, SubmitSteps DEF DialogStep
<1>3. DialogInv => DialogSendsWhatItShows
  BY DEF DialogInv
<1> QED
  BY <1>1, <1>2, <1>3, PTL DEF DialogSpec

(***************************************************************************)
(* Dialogs: types, which hold however a dialog is used.                    *)
(***************************************************************************)
LEMMA DialogTypeStays ==
  ASSUME DialogTypeOK, UNCHANGED <<dialog, rows, fading, fades, on, list, found, doubtful>>,
         DOMAIN count' \subseteq Subjects
  PROVE  DialogTypeOK'
BY DEF DialogTypeOK

\* A row that is added is one of its subject.
LEMMA FreshRowTyped ==
  ASSUME NEW s \in Subjects, \E n \in Copies : <<s, n>> \notin rows
  PROVE  FreshRow(s) \in DialogRow
BY DEF FreshRow, DialogRow

LEMMA RowsAddedTyped ==
  ASSUME DialogTypeOK, NEW subjects, subjects \subseteq Subjects, RoomFor(subjects),
         AddRows(subjects)
  PROVE  /\ rows \subseteq rows' /\ rows' \subseteq DialogRow
         /\ \A s \in subjects : FreshRow(s) \in rows'
<1>1. \A s \in subjects : FreshRow(s) \in DialogRow
  BY FreshRowTyped DEF RoomFor
<1> QED BY <1>1 DEF AddRows, DialogTypeOK

LEMMA RolesShownTyped ==
  ASSUME DialogTypeOK, dialog' = dialog, NEW answer, answer \subseteq Subjects \X Marks[dialog],
         ShowRoles(answer), UNCHANGED <<fading, fades, doubtful, found>>
  PROVE  DialogTypeOK'
<1> DEFINE all == {a[1] : a \in answer}   new == {s \in all : RowsOf(s) = {}}
<1>1. all \subseteq Subjects /\ new \subseteq Subjects
  OBVIOUS
<1>2. RoomFor(new) /\ AddRows(new)
  BY DEF ShowRoles
<1>3. rows \subseteq rows' /\ rows' \subseteq DialogRow
  <2> HIDE DEF new
  <2> QED BY <1>1, <1>2, RowsAddedTyped
<1>4. on' \subseteq rows' \X Marks[dialog]
  BY <1>3 DEF ShowRoles, DialogTypeOK
<1>5. DOMAIN count' \subseteq Subjects
  BY <1>1 DEF ShowRoles, Tally, DialogTypeOK
<1>6. list' \subseteq Subjects \X Marks[dialog]
  BY DEF ShowRoles
<1> QED BY <1>3, <1>4, <1>5, <1>6 DEF DialogTypeOK

LEMMA MembersShownTyped ==
  ASSUME DialogTypeOK, dialog' = dialog, ShowMembers
  PROVE  DialogTypeOK'
<1>1. PICK answer \in Lists[dialog] :
        \E new \in SUBSET {a \in answer : \A x \in list : x[1] # a[1]} :
          /\ RoomFor({a[1] : a \in new}) /\ AddRows({a[1] : a \in new})
          /\ on' = on \union {<<FreshRow(a[1]), a[2]>> : a \in new}
          /\ list' = list \union new
  BY DEF ShowMembers
<1>2. PICK new \in SUBSET {a \in answer : \A x \in list : x[1] # a[1]} :
          /\ RoomFor({a[1] : a \in new}) /\ AddRows({a[1] : a \in new})
          /\ on' = on \union {<<FreshRow(a[1]), a[2]>> : a \in new}
          /\ list' = list \union new
  BY <1>1
<1>3. answer \subseteq Subjects \X Marks[dialog]
  BY <1>1, DialogAssumption DEF ShowMembers, DialogTypeOK, WithRoles
<1>4. new \subseteq Subjects \X Marks[dialog] /\ {a[1] : a \in new} \subseteq Subjects
  BY <1>2, <1>3
<1>5. /\ rows \subseteq rows' /\ rows' \subseteq DialogRow
      /\ \A s \in {a[1] : a \in new} : FreshRow(s) \in rows'
  BY <1>2, <1>4, RowsAddedTyped
<1>6. on' \subseteq rows' \X Marks[dialog] /\ list' \subseteq Subjects \X Marks[dialog]
  BY <1>2, <1>4, <1>5 DEF DialogTypeOK
<1>7. UNCHANGED <<fading, fades, doubtful, found, count>>
  BY DEF ShowMembers, Shown
<1> QED BY <1>5, <1>6, <1>7 DEF DialogTypeOK

LEMMA SubjectsShownTyped ==
  ASSUME DialogTypeOK, dialog' = dialog, ShowAdministrators \/ ShowTrusted
  PROVE  DialogTypeOK'
<1>1. PICK answer \in Lists[dialog] : ShowAgain(answer)
  BY DEF ShowAdministrators, ShowTrusted
<1>2. answer \subseteq Subjects
  BY <1>1, DialogAssumption DEF ShowAdministrators, ShowTrusted, DialogTypeOK, WithRoles
<1>3. rows \subseteq rows' /\ rows' \subseteq DialogRow
  BY <1>1, <1>2, RowsAddedTyped DEF ShowAgain
<1>4. UNCHANGED <<fading, fades, doubtful, found, on, list, count>>
  BY <1>1 DEF ShowAgain, Shown
<1> QED BY <1>3, <1>4 DEF DialogTypeOK

LEMMA ListShownTyped ==
  ASSUME DialogTypeOK, dialog' = dialog, Show \/ ShowTrusted
  PROVE  DialogTypeOK'
<1>1. CASE ShowUsers \/ ShowOrganizations
  <2>1. PICK answer \in Lists[dialog] : ShowRoles(answer)
    BY <1>1 DEF ShowUsers, ShowOrganizations
  <2>2. answer \subseteq Subjects \X Marks[dialog]
    BY <1>1, <2>1, DialogAssumption DEF ShowUsers, ShowOrganizations, DialogTypeOK, WithRoles
  <2>3. UNCHANGED <<fading, fades, doubtful, found>>
    BY <1>1 DEF ShowUsers, ShowOrganizations, Shown
  <2> QED BY <2>1, <2>2, <2>3, RolesShownTyped
<1> QED BY <1>1, MembersShownTyped, SubjectsShownTyped DEF Show

LEMMA ExitTyped ==
  ASSUME DialogTypeOK, dialog' = dialog, fades' = fades, Exit
  PROVE  DialogTypeOK'
BY DEF DialogTypeOK, Exit, ExitUsers, ExitOrganizations, ExitMembers, ExitAdministrators,
   ExitTrusted, Emptied

LEMMA PickedTyped ==
  ASSUME DialogTypeOK, dialog' = dialog, NEW s \in found, Pick(s),
         \/ AlreadyAdded(s)
         \/ Added(s) /\ \/ count' = WithCount(s, Started(s)) /\ UNCHANGED <<on, list>>
                        \/ UNCHANGED <<on, list, count>>
                        \/ /\ dialog = "members" /\ UNCHANGED count
                           /\ on' = on \union {<<FreshRow(s), "member">>}
                           /\ list' = list \union {<<s, "member">>}
  PROVE  DialogTypeOK'
<1>1. UNCHANGED <<fading, fades, doubtful, found>> /\ s \in Subjects
  BY DEF Pick, Page, DialogTypeOK
<1>2. CASE AlreadyAdded(s)
  BY <1>1, <1>2, DialogTypeStays DEF AlreadyAdded, DialogTypeOK
<1>3. CASE Added(s)
  <2>1. \E n \in Copies : <<s, n>> \notin rows
    BY <1>3, DialogAssumption DEF Added, RowsOf
  <2>2. RoomFor({s}) /\ AddRows({s})
    BY <1>3, <2>1 DEF Added, RoomFor
  <2>3. rows \subseteq rows' /\ rows' \subseteq DialogRow /\ FreshRow(s) \in rows'
    BY <1>1, <2>2, RowsAddedTyped
  <2>4. CASE UNCHANGED <<on, list>> /\ (count' = WithCount(s, Started(s)) \/ count' = count)
    <3>1. DOMAIN count' \subseteq Subjects
      BY <1>1, <2>4 DEF WithCount, DialogTypeOK
    <3> QED BY <1>1, <2>3, <2>4, <3>1 DEF DialogTypeOK
  <2>5. CASE /\ dialog = "members" /\ UNCHANGED count
             /\ on' = on \union {<<FreshRow(s), "member">>}
             /\ list' = list \union {<<s, "member">>}
    <3>1. "member" \in Marks[dialog]
      BY <2>5, DialogAssumption DEF DialogTypeOK
    <3>2. on' \subseteq rows' \X Marks[dialog] /\ list' \subseteq Subjects \X Marks[dialog]
      BY <1>1, <2>3, <2>5, <3>1 DEF DialogTypeOK
    <3> QED BY <1>1, <2>3, <2>5, <3>2 DEF DialogTypeOK
  <2>6. \/ UNCHANGED <<on, list>> /\ (count' = WithCount(s, Started(s)) \/ count' = count)
        \/ /\ dialog = "members" /\ UNCHANGED count
           /\ on' = on \union {<<FreshRow(s), "member">>}
           /\ list' = list \union {<<s, "member">>}
    BY <1>3 DEF Added, AlreadyAdded
  <2> QED BY <2>4, <2>5, <2>6
<1> QED BY <1>2, <1>3

LEMMA PicksTyped ==
  ASSUME DialogTypeOK, dialog' = dialog,
         PickUser \/ PickOrganization \/ PickMember \/ PickAdministrator \/ PickTrusted
  PROVE  DialogTypeOK'
BY PickedTyped DEF PickUser, PickOrganization, PickMember, PickAdministrator, PickTrusted,
   PickWithoutRoles, PickRow

LEMMA RemovalsTyped ==
  ASSUME DialogTypeOK, dialog' = dialog,
         RemoveUser \/ RemoveOrganization \/ RemoveMember \/ RemoveAdministrator
         \/ RemoveTrustedRow
  PROVE  DialogTypeOK'
<1>1. PICK r \in Visible :
        /\ Fade(r)
        /\ list' = {x \in list : x[1] # r[1]} \/ list' = list
        /\ count' = Without(r[1]) \/ count' = count
  BY DEF RemoveUser, RemoveOrganization, RemoveMember, RemoveAdministrator, RemoveTrustedRow,
     RemoveCounted, RemoveRow
<1>2. r \in rows /\ r[1] \in Subjects
  BY <1>1 DEF Visible, DialogTypeOK, DialogRow
<1>3. UNCHANGED <<rows, on, doubtful, found>> /\ fading' \subseteq rows /\ fades' \subseteq Subjects
  BY <1>1, <1>2 DEF Fade, Page, DialogTypeOK
<1>4. DOMAIN count' \subseteq Subjects
  BY <1>1 DEF Without, DialogTypeOK
<1> QED BY <1>1, <1>3, <1>4 DEF DialogTypeOK

LEMMA TogglesTyped ==
  ASSUME DialogTypeOK, dialog' = dialog, AssignRole \/ AssignOrganizationRole
  PROVE  DialogTypeOK'
<1>1. PICK r \in rows, m \in Marks[dialog] :
        \/ /\ on' = on \ {<<r, m>>} /\ list' = list \ {<<r[1], m>>}
           /\ count' = WithCount(r[1], Counted(r[1], -1))
        \/ /\ on' = on \union {<<r, m>>} /\ list' = list \union {<<r[1], m>>}
           /\ count' = WithCount(r[1], Counted(r[1], 1))
  BY DEF AssignRole, AssignOrganizationRole, ToggleMark
<1>2. UNCHANGED <<rows, fading, fades, doubtful, found>>
  BY DEF AssignRole, AssignOrganizationRole, ToggleMark, Page
<1>3. r[1] \in Subjects
  BY DEF DialogTypeOK, DialogRow
<1>4. DOMAIN count' \subseteq Subjects
  BY <1>1, <1>3 DEF WithCount, DialogTypeOK
<1>5. on' \subseteq rows \X Marks[dialog] /\ list' \subseteq Subjects \X Marks[dialog]
  BY <1>1, <1>3 DEF DialogTypeOK
<1> QED BY <1>2, <1>4, <1>5 DEF DialogTypeOK

LEMMA AssignMemberTyped ==
  ASSUME DialogTypeOK, dialog' = dialog, AssignMember
  PROVE  DialogTypeOK'
<1>1. PICK r \in rows, m \in Marks[dialog] :
        LET others == {x \in list : x[1] # r[1]} IN
        IF <<r, m>> \in on
        THEN /\ on' = on \ {<<r, m>>}
             /\ IF others # list \/ list = {} THEN list' = others
                ELSE \E x \in list : list' = list \ {x}
        ELSE /\ on' = {x \in on : x[1] # r} \union {<<r, m>>}
             /\ list' = others \union {<<r[1], m>>}
  BY DEF AssignMember
<1>2. UNCHANGED <<rows, fading, fades, doubtful, found, count>>
  BY DEF AssignMember, Page
<1>3. r[1] \in Subjects
  BY DEF DialogTypeOK, DialogRow
<1>4. on' \subseteq rows \X Marks[dialog] /\ list' \subseteq Subjects \X Marks[dialog]
  BY <1>1, <1>3 DEF DialogTypeOK
<1> QED BY <1>2, <1>4 DEF DialogTypeOK

LEMMA FadedOutTyped ==
  ASSUME DialogTypeOK, dialog' = dialog, FadedOut
  PROVE  DialogTypeOK'
<1>1. PICK taken : /\ rows' = rows \ taken /\ fading' = fading \ taken
                   /\ doubtful' = doubtful \ taken /\ on' = {x \in on : x[1] \notin taken}
  BY DEF FadedOut
<1>2. fades' \subseteq fades /\ found' \subseteq found /\ UNCHANGED <<list, count>>
  BY DEF FadedOut
<1>3. \A x \in on' : x \in rows' \X Marks[dialog]
  BY <1>1 DEF DialogTypeOK
<1> QED BY <1>1, <1>2, <1>3 DEF DialogTypeOK

LEMMA SearchesTyped ==
  ASSUME DialogTypeOK, dialog' = dialog, Searches
  PROVE  DialogTypeOK'
<1>1. UNCHANGED <<rows, fading, fades, on, list, count, doubtful>> /\ found' \subseteq Subjects
  BY DEF Searches, SearchStarts, SearchEnds, Column, DialogTypeOK
<1> QED BY <1>1 DEF DialogTypeOK

LEMMA SubmitsTyped ==
  ASSUME DialogTypeOK, dialog' = dialog,
         SubmitUsers \/ SubmitOrganizations \/ SubmitMembers \/ SubmitAdministrators
         \/ SubmitTrusted
  PROVE  DialogTypeOK'
<1>1. /\ UNCHANGED <<found, rows, fading, fades, on, list, count>>
      /\ doubtful' \subseteq doubtful \union rows
  BY DEF SubmitUsers, SubmitOrganizations, SubmitMembers, SubmitAdministrators, SubmitTrusted,
     SubmitCounted, SubmitRows, AskOrSend
<1> QED BY <1>1 DEF DialogTypeOK

LEMMA DialogKindStays ==
  ASSUME DialogStep
  PROVE  dialog' = dialog
BY DEF DialogStep, Open, Answered, Cancel, Dismiss, Type, Filter, FadedOut, Acts, Waits, Click,
   AvailableUsers, AvailableOrganizations, AvailableApplications, Searches, PickUser,
   PickOrganization, PickMember, PickAdministrator, PickTrusted, PickWithoutRoles, PickRow,
   RemoveUser, RemoveOrganization, RemoveMember, RemoveAdministrator, RemoveTrustedRow,
   RemoveCounted, RemoveRow, AssignRole, AssignOrganizationRole, AssignMember, ToggleMark,
   SubmitUsers, SubmitOrganizations, SubmitMembers, SubmitAdministrators, SubmitTrusted,
   SubmitCounted, SubmitRows

LEMMA DialogTypeNext ==
  DialogTypeOK /\ [DialogStep]_dialogVars => DialogTypeOK'
<1> SUFFICES ASSUME DialogTypeOK, [DialogStep]_dialogVars
             PROVE  DialogTypeOK'
  OBVIOUS
<1>1. CASE UNCHANGED dialogVars
  BY <1>1, DialogTypeStays DEF dialogVars, DialogTypeOK
<1>2. CASE DialogStep
  <2>1. dialog' = dialog
    BY <1>2, DialogKindStays
  <2>2. CASE Open
    <3>1. CASE dialog = "trusted"
      BY <2>1, <2>2, <3>1, ListShownTyped DEF Open
    <3>2. CASE dialog # "trusted"
      BY <2>1, <2>2, <3>2, DialogTypeStays DEF Open, Column, DialogTypeOK
    <3> QED BY <3>1, <3>2
  <2>3. CASE Answered
    BY <2>1, <2>3, ListShownTyped, ExitTyped DEF Answered
  <2>4. CASE Cancel
    BY <2>1, <2>4, ExitTyped DEF Cancel
  <2>5. CASE Dismiss \/ Type
    BY <2>1, <2>5, DialogTypeStays DEF Dismiss, Type, Column, DialogTypeOK
  <2>6. CASE Filter
    <3>1. fading' \subseteq fading /\ UNCHANGED <<found, rows, fades, on, list, count, doubtful>>
      BY <2>6 DEF Filter, Page
    <3> QED BY <2>1, <3>1 DEF DialogTypeOK
  <2>7. CASE AvailableUsers \/ AvailableOrganizations \/ AvailableApplications
    BY <2>1, <2>7, SearchesTyped DEF AvailableUsers, AvailableOrganizations,
       AvailableApplications
  <2> QED BY <1>2, <2>1, <2>2, <2>3, <2>4, <2>5, <2>6, <2>7, PicksTyped, RemovalsTyped,
         TogglesTyped, AssignMemberTyped, FadedOutTyped, SubmitsTyped DEF DialogStep
<1> QED BY <1>1, <1>2

\* The rows, marks, lists and warnings of a dialog are of subjects and marks that it has, and a
\* mark, a warning or a fading is of a row on the page (Dialogs): also when a user clicks while a
\* row is fading or comes back to a dialog that was left in the middle.
THEOREM DialogsAreTyped == DialogSpec => []DialogTypeOK
<1>1. DialogInit => DialogTypeOK
  BY DEF DialogInit, DialogTypeOK
<1> QED BY <1>1, DialogTypeNext, PTL DEF DialogSpec
=============================================================================
