----------------------- MODULE OAuthCredentialProofs -----------------------
(***************************************************************************)
(* Where the values of OAuthTokens are kept: a drawn value has one place   *)
(* at a time (a request, a statement not yet executed, a row, a signed     *)
(* token), from which follow what a refresh token has bought and what a    *)
(* spent grant can still buy.  Then what becomes of them: the server       *)
(* implements CredentialLifecycle, delivered tokens keep their rows, and   *)
(* acknowledged revocations hold.                                          *)
(***************************************************************************)
EXTENDS OAuthTokensProofs

\* What a request knows of its grant and has drawn, at each program counter.
Seeded(q) ==
    /\ q.grant # None => q.grant \in Ids /\ ledger[q.grant].held
    /\ q.pc \in {"consentCheck", "enable", "saveCode"} => q.grant = None
    /\ q.pc = "grant" /\ q.kind = "password" => q.grant = None
    /\ q.pc \notin Storing => q.a = None
    /\ q.pc = "ishareStore" => q.r = None
    /\ q.pc \in {"storeRefresh", "storeAccess"} => "jwt" \notin q.form
    /\ q.pc \in Storing /\ q.grant # None => Owns(q.grant, q.client, q.user)

\* The requests, statements and rows that keep a refresh token; those that keep
\* an access token; and the requests that will store an access token of a
\* refresh token.
BearsRefresh(q, x) == q.r = x /\ q.pc \in {"jwt", "storeRefresh"}
BearsAccess(q, x) ==
    /\ q.a = x
    /\ \/ q.pc \in {"jwt", "storeRefresh", "storeAccess", "ishareStore"}
       \/ q.pc = "storeConsent" /\ "jwt" \in q.form
Lends(q, x) == q.r = x /\ q.pc \in {"storeRefresh", "storeAccess"}
Sent == {w.row : w \in {v \in writes : v.op = "refresh"}}

Unique(rows) == \A a, b \in rows : a.id = b.id => a = b
CodePlaces == Unique(codes)
RefreshPlaces ==
    /\ Unique(refresh)
    /\ Unique(Sent)
    /\ \A a \in refresh, b \in Sent : a.id # b.id
    /\ \A p \in Requests, row \in refresh \union Sent : ~BearsRefresh(req[p], row.id)
    /\ \A p, o \in Requests, x \in Refreshes :
          BearsRefresh(req[p], x) /\ BearsRefresh(req[o], x) => p = o
AccessPlaces ==
    /\ Unique(access)
    /\ \A p \in Requests, row \in access \union jwts : ~BearsAccess(req[p], row.id)
    /\ \A p, o \in Requests, x \in Accesses :
          BearsAccess(req[p], x) /\ BearsAccess(req[o], x) => p = o
Loans ==
    /\ OneAccessPerRefresh
    /\ \A p \in Requests, row \in access :
          row.refresh # None => ~Lends(req[p], row.refresh)
    /\ \A p, o \in Requests, x \in Refreshes :
          Lends(req[p], x) /\ Lends(req[o], x) => p = o

\* What is handed over, signed or referred to has been drawn.
Known == /\ \A x \in Ids : ledger[x].held => ledger[x].client # None
         /\ \A j \in jwts : ledger[j.id].client # None
         /\ \A row \in access : row.refresh # None => ledger[row.refresh].client # None

AllSeeded == \A p \in Requests : Seeded(req[p])
Places == CodePlaces /\ RefreshPlaces /\ AccessPlaces /\ Loans

\* The inductive invariant of this module, beside IInv.
PInv == AllSeeded /\ Known /\ Places

(***************************************************************************)
(* The ledger only grows.                                                  *)
(***************************************************************************)
LedgerGrows == \A x \in Ids : ledger[x].client # None =>
                  /\ ledger'[x].client = ledger[x].client
                  /\ ledger'[x].user = ledger[x].user
                  /\ ledger'[x].from = ledger[x].from
                  /\ ledger[x].held => ledger'[x].held
HeldIsDrawn == \A x \in Ids : ledger[x].held => ledger[x].client # None

LEMMA SameGrows ==
  ASSUME HeldIsDrawn, ledger' = ledger
  PROVE  LedgerGrows /\ HeldIsDrawn'
  BY DEF LedgerGrows, HeldIsDrawn

LEMMA DrawnGrows ==
  ASSUME TypeOK, HeldIsDrawn, NEW q \in Request, q.client \in Clients, NEW xs,
         NEW delivered \in BOOLEAN, \A x \in xs \intersect Ids : ledger[x].client = None,
         ledger' = Drawn(q, xs, delivered)
  PROVE  /\ LedgerGrows /\ HeldIsDrawn'
         /\ \A x \in xs \intersect Ids : ledger'[x].client = q.client
<1>1. \A x \in Ids : IF x \in xs
                     THEN ledger'[x] = [client |-> q.client, user |-> q.user,
                                        from |-> q.grant, held |-> delivered]
                     ELSE ledger'[x] = ledger[x]
  BY DEF Drawn
<1>2. q.client # None
  BY NoneAssumption
<1> QED BY <1>1, <1>2 DEF LedgerGrows, HeldIsDrawn

LEMMA DeliveredGrows ==
  ASSUME TypeOK, HeldIsDrawn, NEW xs,
         \A x \in xs \intersect Ids : ledger[x].client # None, ledger' = Delivered(xs)
  PROVE  LedgerGrows /\ HeldIsDrawn'
<1>1. \A x \in Ids : /\ ledger'[x].client = ledger[x].client
                     /\ ledger'[x].user = ledger[x].user
                     /\ ledger'[x].from = ledger[x].from
                     /\ ledger'[x].held = (x \in xs \/ ledger[x].held)
  BY DEF TypeOK, Delivered, Entry
<1> QED BY <1>1 DEF LedgerGrows, HeldIsDrawn

\* The requests that draw, and what they draw.
LEMMA SaveTokenDraws ==
  ASSUME IInv, NEW p \in Requests, SaveToken(p)
  PROVE  \E a \in Fresh(Accesses), r \in OrNone(Fresh(Refreshes)), q \in Request :
            /\ q = [req[p] EXCEPT !.a = a, !.r = r,
                                  !.pc = IF "jwt" \in req[p].form THEN "jwt"
                                         ELSE IF r # None THEN "storeRefresh"
                                         ELSE "storeAccess"]
            /\ Become(p, q)
            /\ ledger' = Drawn(req[p], {a, r}, FALSE)
            /\ \A x \in {a, r} \intersect Ids : ledger[x].client = None
<1>1. PICK a \in Fresh(Accesses), r \in NewRefreshes(p) :
        /\ ledger' = Drawn(req[p], {a, r}, FALSE)
        /\ Become(p, [req[p] EXCEPT !.a = a, !.r = r,
                                    !.pc = IF "jwt" \in req[p].form THEN "jwt"
                                           ELSE IF r # None THEN "storeRefresh"
                                           ELSE "storeAccess"])
  BY DEF SaveToken
<1>2. r \in OrNone(Fresh(Refreshes))
  BY DEF NewRefreshes, OrNone
<1>3. [req[p] EXCEPT !.a = a, !.r = r,
                     !.pc = IF "jwt" \in req[p].form THEN "jwt"
                            ELSE IF r # None THEN "storeRefresh"
                            ELSE "storeAccess"] \in Request
  <2>1. req[p] \in Request /\ a \in Accesses /\ r \in OrNone(Refreshes)
    BY <1>2 DEF IInv, TypeOK, Fresh, OrNone
  <2> QED BY <2>1 DEF Request, Steps, OrNone
<1>4. \A x \in {a, r} \intersect Ids : ledger[x].client = None
  BY <1>2, NoneAssumption DEF Fresh, OrNone
<1> QED BY <1>1, <1>2, <1>3, <1>4

LEMMA IshareReadDraws ==
  ASSUME IInv, NEW p \in Requests, IshareReadCode(p)
  PROVE  \/ Finish(p) /\ UNCHANGED <<writes, ledger>>
         \/ \E row \in ValidCode(p), a \in Fresh(Accesses), q \in Request :
               /\ q = [req[p] EXCEPT !.pc = "ishareStore", !.a = a, !.user = row.user]
               /\ Become(p, q)
               /\ ledger' = Drawn(q, {a}, FALSE)
               /\ writes' = writes \union {Invalidate(row.id)}
<1>1. ASSUME NEW row \in ValidCode(p), NEW a \in Fresh(Accesses)
      PROVE  [req[p] EXCEPT !.pc = "ishareStore", !.a = a, !.user = row.user] \in Request
  <2>1. req[p] \in Request /\ a \in Accesses /\ row \in CodeRow
    BY DEF IInv, TypeOK, Fresh, ValidCode, Presented
  <2> QED BY <2>1 DEF Request, Steps, OrNone, CodeRow
<1> QED BY <1>1 DEF IshareReadCode

LEMMA NextGrows ==
  ASSUME IInv, HeldIsDrawn, [Next]_vars
  PROVE  LedgerGrows /\ HeldIsDrawn'
<1>0. TypeOK /\ Reqs
  BY DEF IInv, TypeOK, Reqs
<1>1. ASSUME NEW p \in Requests, Arrive(p) PROVE ledger' = ledger
  BY <1>0, <1>1, ArriveStep DEF history
<1>2. ASSUME NEW p \in Requests, SaveAuthorizationCode(p), ledger' # ledger
      PROVE  LedgerGrows /\ HeldIsDrawn'
  <2>1. PICK k \in Fresh(Codes) : ledger' = Drawn(req[p], {k}, TRUE)
    BY <1>2 DEF SaveAuthorizationCode
  <2>2. req[p] \in Request /\ req[p].client \in Clients
    BY <1>0, <1>2 DEF TypeOK, SaveAuthorizationCode, At, IInv, ReqOK, WellFormed
  <2>3. \A x \in {k} \intersect Ids : ledger[x].client = None
    BY DEF Fresh
  <2> QED BY <1>0, <2>1, <2>2, <2>3, DrawnGrows
<1>3. ASSUME NEW p \in Requests, SaveToken(p)
      PROVE  LedgerGrows /\ HeldIsDrawn'
  <2>2. req[p] \in Request /\ req[p].client \in Clients
    BY <1>0, <1>3 DEF TypeOK, SaveToken, At, IInv, ReqOK, WellFormed
  <2> QED BY <1>0, <1>3, <2>2, SaveTokenDraws, DrawnGrows
<1>4. ASSUME NEW p \in Requests, RespondToken(p), ledger' # ledger
      PROVE  LedgerGrows /\ HeldIsDrawn'
  <2>1. /\ ledger' = Delivered({req[p].a, req[p].r})
        /\ req[p].pc = "storeConsent"
    BY <1>4 DEF RespondToken, At
  <2>2. /\ ledger[req[p].a].client \in Clients
        /\ req[p].r # None => ledger[req[p].r].client \in Clients
    BY <2>1 DEF IInv, ReqOK, Ownership, WellFormed, Entitled, Storing, Owns
  <2>3. \A x \in {req[p].a, req[p].r} \intersect Ids : ledger[x].client # None
    BY <2>2, NoneAssumption
  <2> QED BY <1>0, <2>1, <2>3, DeliveredGrows
<1>5. ASSUME NEW p \in Requests, IshareReadCode(p), ledger' # ledger
      PROVE  LedgerGrows /\ HeldIsDrawn'
  <2>1. PICK a \in Fresh(Accesses), q \in Request :
           /\ ledger' = Drawn(q, {a}, FALSE)
           /\ \E u : q = [req[p] EXCEPT !.pc = "ishareStore", !.a = a, !.user = u]
    BY <1>5, IshareReadDraws
  <2>2. q.client \in Clients
    BY <1>0, <1>5, <2>1 DEF TypeOK, IshareReadCode, At, IInv, ReqOK, WellFormed, Request
  <2>3. \A x \in {a} \intersect Ids : ledger[x].client = None
    BY DEF Fresh
  <2> QED BY <1>0, <2>1, <2>2, <2>3, DrawnGrows
<1>6. ASSUME NEW p \in Requests, IshareStoreToken(p), ledger' # ledger
      PROVE  LedgerGrows /\ HeldIsDrawn'
  <2>1. ledger' = Delivered({req[p].a}) /\ req[p].pc = "ishareStore"
    BY <1>6 DEF IshareStoreToken, At
  <2>2. ledger[req[p].a].client \in Clients
    BY <2>1 DEF IInv, ReqOK, Ownership, WellFormed, Entitled, Storing, Owns
  <2>3. \A x \in {req[p].a} \intersect Ids : ledger[x].client # None
    BY <2>2, NoneAssumption
  <2> QED BY <1>0, <2>1, <2>3, DeliveredGrows
<1>7. ASSUME NEW p \in Requests, Handle(p), ledger' # ledger
      PROVE  \/ SaveAuthorizationCode(p) \/ SaveToken(p) \/ RespondToken(p)
             \/ IshareReadCode(p) \/ IshareStoreToken(p)
  BY <1>7 DEF Handle, CheckUserAuthorizedApplication, EnableApp, GetAuthorizationCode,
     GetRefreshToken, GetIdentity, RevokeAuthorizationCode, RevokeRefreshToken,
     RevokeAccessToken, GenerateJwtToken, StoreRefresh, StoreAccess, history
<1>8. Execute \/ Environment \/ UNCHANGED vars => ledger' = ledger
  BY DEF Execute, ExecuteInvalidate, ExecuteRefresh, ExecuteConsent, Environment,
     DeleteUser, DeleteClient, DeleteThirdPartyApplication, ProcessDies,
     StatementFails, history, vars
<1> QED BY <1>1, <1>2, <1>3, <1>4, <1>5, <1>6, <1>7, <1>8, SameGrows DEF Next

(***************************************************************************)
(* What becomes of a request that draws and stores nothing in a step.      *)
(***************************************************************************)
\* A request that saw the grant good and has not drawn its tokens yet.
Redeems(q, g) ==
    /\ q.grant = g
    /\ q.a = None
    /\ \/ q.pc \in {"revokeCode", "save"}
       \/ q.pc = "revokeRefresh" /\ q.kind = "refresh"
ValidIn(rows, g) == \E row \in rows : row.id = g /\ row.valid
Hopes(q, n) == \A g \in Ids : Redeems(n, g) =>
                  Redeems(q, g) \/ ValidIn(codes, g) \/ ValidIn(refresh, g)

\* A request that has nothing to store, after the step.
Turn(q, n) == n.pc \notin Storing /\ Seeded(n) /\ Hopes(q, n)

LEMMA IdleTurn ==
  ASSUME NEW q PROVE Idle.pc \notin Storing /\ Seeded(Idle) /\ Hopes(q, Idle)
  BY DEF Idle, Storing, Seeded, Hopes, Redeems

LEMMA GotoTurn ==
  ASSUME IInv, AllSeeded, NEW p \in Requests, NEW pc \in Steps,
         pc \notin Storing, req[p].pc \notin Storing,
         pc \in {"consentCheck", "enable", "saveCode"} => req[p].grant = None,
         pc # "grant",
         pc \in {"save", "revokeCode"} => req[p].grant = None \/ Redeems(req[p], req[p].grant),
         pc = "revokeRefresh" => req[p].kind # "refresh"
  PROVE  Turn(req[p], [req[p] EXCEPT !.pc = pc])
<1>q. PICK q : q = req[p]
  OBVIOUS
<1>1. q \in Request /\ Seeded(q)
  BY <1>q DEF IInv, TypeOK, AllSeeded
<1>n. PICK n : n = [q EXCEPT !.pc = pc]
  OBVIOUS
<1>2. /\ n.pc = pc /\ n.grant = q.grant /\ n.a = q.a /\ n.kind = q.kind
      /\ n.r = q.r /\ n.client = q.client /\ n.user = q.user
  BY <1>1, <1>n DEF Request
<1>3. Seeded(n)
  BY <1>1, <1>2, <1>q DEF Seeded, Storing
<1>4. Hopes(q, n)
  <2> SUFFICES ASSUME NEW g \in Ids, Redeems(n, g) PROVE Redeems(q, g)
    BY DEF Hopes
  <2> QED BY <1>2, <1>q, NoneAssumption DEF Redeems
<1> QED BY <1>2, <1>3, <1>4, <1>n, <1>q DEF Turn

LEMMA ArriveTurn ==
  ASSUME IInv, NEW p \in Requests, Arrive(p)
  PROVE  \E n \in Request : Become(p, n) /\ Turn(req[p], n)
<1>0. /\ clients \subseteq Clients /\ Idle \in Request
      /\ \A x \in Held(Ids) : x \in Ids /\ ledger[x].held
      /\ Held(Codes) \subseteq Held(Ids)
      /\ Held(Refreshes) \subseteq Held(Ids)
      /\ Held(Refreshes \union Accesses) \subseteq Held(Ids)
  BY IdleType DEF IInv, TypeOK, Held, Ids
<1>1. PICK n \in GoodRequest : Become(p, n)
  BY ArriveStep DEF IInv
<1>2. \A m : Become(p, m) => m = n
  BY <1>1 DEF Become, IInv, TypeOK
<1>3. ASSUME LoadApplication(p) \/ TokenRequest(p) \/ IshareTokenRequest(p) \/ RevokeRequest(p)
      PROVE  Turn(req[p], n)
  <2>1. CASE LoadApplication(p)
    <3>1. PICK kind \in {"authorize", "implicit"}, pc \in {"consentCheck", "enable"},
               u \in Users, c \in clients :
             \E form \in SUBSET TokenTypes[c] :
                Become(p, [Idle EXCEPT !.pc = pc, !.kind = kind, !.client = c,
                                       !.user = u, !.form = form])
      BY <2>1 DEF LoadApplication, Start
    <3>2. n.pc \in {"consentCheck", "enable"} /\ n.grant = None /\ n.a = None
      BY <1>2, <3>1 DEF Idle
    <3> QED BY <3>2 DEF Turn, Seeded, Hopes, Redeems, Storing
  <2>2. CASE TokenRequest(p)
    <3>1. \/ \E c : \E k \in Held(Codes) :
                Become(p, [Idle EXCEPT !.pc = "grant", !.kind = "code",
                                       !.client = c, !.grant = k])
          \/ \E c, form : \E t \in Held(Refreshes) :
                Become(p, [Idle EXCEPT !.pc = "grant", !.kind = "refresh",
                                       !.client = c, !.grant = t, !.form = form])
          \/ \E c, u, form :
                Become(p, [Idle EXCEPT !.pc = "grant", !.kind = "password",
                                       !.client = c, !.user = u, !.form = form])
          \/ \E c, form :
                Become(p, [Idle EXCEPT !.pc = "save", !.kind = "client",
                                       !.client = c, !.form = form])
      BY <2>2 DEF TokenRequest, Start
    <3>2. /\ n.a = None
          /\ \/ /\ n.pc = "grant" /\ n.kind \in {"code", "refresh"}
                /\ n.grant \in Held(Ids)
             \/ n.pc \in {"grant", "save"} /\ n.grant = None
      BY <1>0, <1>2, <3>1 DEF Idle
    <3> QED BY <1>0, <3>2, NoneAssumption DEF Turn, Seeded, Hopes, Redeems, Storing
  <2>3. CASE IshareTokenRequest(p)
    <3>1. PICK c \in Clients, k \in Held(Codes) :
             Become(p, [Idle EXCEPT !.pc = "ishareCode", !.kind = "ishare",
                                    !.client = c, !.grant = k])
      BY <2>3 DEF IshareTokenRequest, Start
    <3>2. n.pc = "ishareCode" /\ n.grant \in Held(Ids) /\ n.a = None
      BY <1>0, <1>2, <3>1 DEF Idle
    <3> QED BY <1>0, <3>2 DEF Turn, Seeded, Hopes, Redeems, Storing
  <2>4. CASE RevokeRequest(p)
    <3>1. PICK c \in clients, t \in Held(Refreshes \union Accesses) :
             Become(p, [Idle EXCEPT !.pc = IF t \in Refreshes THEN "revokeRefresh"
                                                              ELSE "revokeAccess",
                                    !.kind = "revoke", !.client = c, !.grant = t])
      BY <2>4 DEF RevokeRequest, Start
    <3>2. /\ n.pc \in {"revokeRefresh", "revokeAccess"} /\ n.kind = "revoke"
          /\ n.grant \in Held(Ids) /\ n.a = None
      BY <1>0, <1>2, <3>1 DEF Idle
    <3> QED BY <1>0, <3>2 DEF Turn, Seeded, Hopes, Redeems, Storing
  <2> QED BY <1>3, <2>1, <2>2, <2>3, <2>4
<1> QED BY <1>1, <1>3 DEF Arrive, GoodRequest

\* The handlers' steps up to the drawing of tokens, and all that only revoke.
Prelude(p) ==
    \/ CheckUserAuthorizedApplication(p) \/ EnableApp(p) \/ SaveAuthorizationCode(p)
    \/ GetAuthorizationCode(p) \/ GetRefreshToken(p) \/ GetIdentity(p)
    \/ RevokeAuthorizationCode(p) \/ RevokeRefreshToken(p) \/ RevokeAccessToken(p)

LEMMA PreludeTurn ==
  ASSUME IInv, AllSeeded, NEW p \in Requests, Prelude(p)
  PROVE  \E n \in Request : Become(p, n) /\ Turn(req[p], n)
<1>q. PICK q : q = req[p]
  OBVIOUS
<1>0. q \in Request /\ Seeded(q)
  BY <1>q DEF IInv, TypeOK, AllSeeded
<1>f. CASE Finish(p)
  BY <1>f, IdleTurn, IdleType DEF Finish, Turn
<1>g. ASSUME NEW pc \in Steps, Goto(p, pc), pc \notin Storing, q.pc \notin Storing,
             pc \in {"consentCheck", "enable", "saveCode"} => q.grant = None,
             pc # "grant",
             pc \in {"save", "revokeCode"} => q.grant = None \/ Redeems(q, q.grant),
             pc = "revokeRefresh" => q.kind # "refresh"
      PROVE  \E n \in Request : Become(p, n) /\ Turn(req[p], n)
  <2>1. Turn(req[p], [req[p] EXCEPT !.pc = pc])
    BY <1>g, <1>q, GotoTurn
  <2>2. [req[p] EXCEPT !.pc = pc] \in Request
    BY <1>0, <1>q DEF Request
  <2> QED BY <1>g, <2>1, <2>2 DEF Goto
<1>1. CASE CheckUserAuthorizedApplication(p) \/ EnableApp(p)
  <2>1. q.pc \in {"consentCheck", "enable"} /\ q.grant = None
    BY <1>0, <1>1, <1>q DEF CheckUserAuthorizedApplication, EnableApp, At, Seeded
  <2>2. Finish(p) \/ Goto(p, "saveCode") \/ Goto(p, "save")
    BY <1>1 DEF CheckUserAuthorizedApplication, EnableApp, AfterConsent
  <2> QED BY <1>f, <1>g, <2>1, <2>2 DEF Steps, Storing
<1>3. CASE SaveAuthorizationCode(p)
  BY <1>3, <1>f DEF SaveAuthorizationCode
<1>4. CASE GetAuthorizationCode(p)
  <2>0. q.pc = "grant" /\ q.kind = "code"
    BY <1>4, <1>q DEF GetAuthorizationCode, At
  <2>1. ASSUME NEW row \in ValidCode(p), NEW n,
               n = [q EXCEPT !.pc = "revokeCode", !.user = row.user, !.form = row.form]
        PROVE  n \in Request /\ Turn(q, n)
    <3>1. row \in codes /\ row.id = q.grant /\ row.valid /\ row \in CodeRow
      BY <1>q DEF ValidCode, Presented, IInv, TypeOK
    <3>2. n \in Request
      BY <1>0, <2>1, <3>1 DEF CodeRow, Request, Steps, OrNone
    <3>3. n.pc = "revokeCode" /\ n.grant = q.grant /\ n.a = q.a /\ n.kind = q.kind
      BY <1>0, <2>1 DEF Request
    <3>4. Seeded(n)
      BY <1>0, <2>0, <3>3 DEF Seeded, Storing
    <3>5. Hopes(q, n)
      BY <3>1, <3>3 DEF Hopes, Redeems, ValidIn
    <3> QED BY <3>2, <3>3, <3>4, <3>5 DEF Turn, Storing
  <2> QED BY <1>4, <1>f, <1>g, <1>q, <2>0, <2>1 DEF GetAuthorizationCode, Steps, Storing
<1>5. CASE GetRefreshToken(p)
  <2>0. q.pc = "grant" /\ q.kind = "refresh"
    BY <1>5, <1>q DEF GetRefreshToken, At
  <2>1. ASSUME NEW row \in ValidRefresh(p), NEW n,
               n = [q EXCEPT !.pc = "revokeRefresh", !.user = row.user]
        PROVE  n \in Request /\ Turn(q, n)
    <3>1. row \in refresh /\ row.id = q.grant /\ row.valid /\ row \in RefreshRow
      BY <1>q DEF ValidRefresh, Presented, IInv, TypeOK
    <3>2. n \in Request
      BY <1>0, <2>1, <3>1 DEF RefreshRow, Request, Steps
    <3>3. n.pc = "revokeRefresh" /\ n.grant = q.grant /\ n.a = q.a /\ n.kind = q.kind
      BY <1>0, <2>1 DEF Request
    <3>4. Seeded(n)
      BY <1>0, <2>0, <3>3 DEF Seeded, Storing
    <3>5. Hopes(q, n)
      BY <3>1, <3>3 DEF Hopes, Redeems, ValidIn
    <3> QED BY <3>2, <3>3, <3>4, <3>5 DEF Turn, Storing
  <2> QED BY <1>5, <1>f, <1>q, <2>1 DEF GetRefreshToken
<1>6. CASE GetIdentity(p)
  <2>1. q.pc = "grant" /\ q.grant = None
    BY <1>0, <1>6, <1>q DEF GetIdentity, At, Seeded
  <2> QED BY <1>6, <1>f, <1>g, <2>1 DEF GetIdentity, Steps, Storing
<1>7. CASE RevokeAuthorizationCode(p)
  <2>1. q.pc = "revokeCode" /\ q.a = None
    BY <1>0, <1>7, <1>q DEF RevokeAuthorizationCode, At, Seeded, Storing
  <2>2. Redeems(q, q.grant)
    BY <2>1 DEF Redeems
  <2> QED BY <1>7, <1>g, <2>1, <2>2 DEF RevokeAuthorizationCode, Steps, Storing
<1>8. CASE RevokeRefreshToken(p)
  <2>0. q.pc = "revokeRefresh" /\ q.a = None
    BY <1>0, <1>8, <1>q DEF RevokeRefreshToken, At, Seeded, Storing
  <2>1. q.kind = "refresh" => Redeems(q, q.grant)
    BY <2>0 DEF Redeems
  <2>2. ASSUME NEW row \in RefreshMatches(p), NEW n,
               n = [q EXCEPT !.pc = "revokeAccess", !.r = row.id]
        PROVE  n \in Request /\ Turn(q, n)
    <3>1. row \in RefreshRow
      BY DEF RefreshMatches, IInv, TypeOK
    <3>2. n \in Request
      BY <1>0, <2>2, <3>1 DEF RefreshRow, Request, Steps, OrNone
    <3>3. n.pc = "revokeAccess" /\ n.grant = q.grant /\ n.a = q.a
      BY <1>0, <2>2 DEF Request
    <3> QED BY <1>0, <2>0, <3>2, <3>3 DEF Seeded, Storing, Hopes, Redeems, Turn
  <2>3. \/ q.kind = "refresh" /\ Goto(p, "save")
        \/ \E row \in RefreshMatches(p) :
              Become(p, [q EXCEPT !.pc = "revokeAccess", !.r = row.id])
        \/ Goto(p, "revokeAccess")
        \/ Finish(p)
    BY <1>8, <1>q DEF RevokeRefreshToken
  <2> QED BY <1>f, <1>g, <1>q, <2>0, <2>1, <2>2, <2>3 DEF Steps, Storing
<1>9. CASE RevokeAccessToken(p)
  BY <1>9, <1>f DEF RevokeAccessToken
<1> QED BY <1>1, <1>3, <1>4, <1>5, <1>6, <1>7, <1>8, <1>9 DEF Prelude

(***************************************************************************)
(* Requests stay seeded.                                                   *)
(***************************************************************************)
LEMMA SeededKept ==
  ASSUME LedgerGrows, HeldIsDrawn, NEW q, Seeded(q)
  PROVE  Seeded(q)'
<1>1. q.grant # None => /\ q.grant \in Ids /\ ledger[q.grant].client # None
                        /\ ledger'[q.grant].held
  BY DEF Seeded, HeldIsDrawn, LedgerGrows
<1>2. q.grant # None /\ Owns(q.grant, q.client, q.user) => Owns(q.grant, q.client, q.user)'
  BY <1>1 DEF Owns, LedgerGrows
<1> QED BY <1>1, <1>2 DEF Seeded, Storing

LEMMA SeededTurn ==
  ASSUME IInv, AllSeeded, LedgerGrows, HeldIsDrawn, NEW p \in Requests, NEW n,
         Become(p, n), Seeded(n)
  PROVE  AllSeeded'
<1>1. /\ req'[p] = n /\ \A o \in Requests \ {p} : req'[o] = req[o]
  BY DEF Become, IInv, TypeOK
<1>2. \A o \in Requests : Seeded(req[o])
  BY DEF AllSeeded
<1>3. ASSUME NEW o \in Requests PROVE Seeded(req[o])'
  <2>1. PICK m : m = req'[o]
    OBVIOUS
  <2>2. Seeded(m)'
    BY <1>1, <1>2, <2>1, SeededKept
  <2> QED BY <2>1, <2>2 DEF Seeded, Owns, Storing
<1> QED BY <1>3 DEF AllSeeded

LEMMA SeededSame ==
  ASSUME AllSeeded, LedgerGrows, HeldIsDrawn, req' = req
  PROVE  AllSeeded'
<1>1. ASSUME NEW o \in Requests PROVE Seeded(req[o])'
  <2>1. PICK m : m = req[o]
    OBVIOUS
  <2>2. Seeded(m)'
    BY <2>1, SeededKept DEF AllSeeded
  <2> QED BY <2>1, <2>2 DEF Seeded, Owns, Storing
<1> QED BY <1>1 DEF AllSeeded

LEMMA SeededDie ==
  ASSUME Die PROVE AllSeeded'
<1>1. ASSUME NEW o \in Requests PROVE Seeded(req[o])'
  <2>1. req'[o] = Idle
    BY DEF Die
  <2> QED BY <2>1 DEF Seeded, Idle, Storing
<1> QED BY <1>1 DEF AllSeeded

\* A request that goes on from one storing step to the next.
LEMMA SeededOn ==
  ASSUME NEW q \in Request, Seeded(q), q.pc \in Storing, NEW pc \in {"storeAccess", "storeConsent"},
         pc = "storeAccess" => q.pc = "storeRefresh"
  PROVE  Seeded([q EXCEPT !.pc = pc])
<1>1. PICK n : n = [q EXCEPT !.pc = pc]
  OBVIOUS
<1>2. /\ n.pc = pc /\ n.grant = q.grant /\ n.a = q.a /\ n.r = q.r
      /\ n.client = q.client /\ n.user = q.user /\ n.form = q.form
  BY <1>1 DEF Request
<1> QED BY <1>1, <1>2 DEF Seeded, Storing

LEMMA HandleSeeded ==
  ASSUME IInv, AllSeeded, HeldIsDrawn, LedgerGrows, NEW p \in Requests, Handle(p)
  PROVE  AllSeeded'
<1>q. PICK q : q = req[p]
  OBVIOUS
<1>0. q \in Request /\ Seeded(q) /\ Entitled(q) /\ WellFormed(q)
  BY <1>q DEF IInv, TypeOK, AllSeeded, ReqOK, Ownership
<1>f. CASE Finish(p)
  BY <1>f, IdleTurn, SeededTurn DEF Finish
<1>d. CASE Die
  BY <1>d, SeededDie
<1>o. ASSUME NEW pc \in {"storeAccess", "storeConsent"}, Goto(p, pc), q.pc \in Storing,
             pc = "storeAccess" => q.pc = "storeRefresh"
      PROVE  AllSeeded'
  BY <1>0, <1>o, <1>q, SeededOn, SeededTurn DEF Goto
<1>1. CASE Prelude(p)
  BY <1>1, PreludeTurn, SeededTurn DEF Turn
<1>2. CASE SaveToken(p)
  <2>1. PICK a \in Fresh(Accesses), r \in OrNone(Fresh(Refreshes)), n \in Request :
           /\ Become(p, n)
           /\ n = [q EXCEPT !.a = a, !.r = r,
                            !.pc = IF "jwt" \in q.form THEN "jwt"
                                   ELSE IF r # None THEN "storeRefresh"
                                   ELSE "storeAccess"]
    <3>1. \E a \in Fresh(Accesses), r \in OrNone(Fresh(Refreshes)), n \in Request :
             /\ n = [req[p] EXCEPT !.a = a, !.r = r,
                                   !.pc = IF "jwt" \in req[p].form THEN "jwt"
                                          ELSE IF r # None THEN "storeRefresh"
                                          ELSE "storeAccess"]
             /\ Become(p, n)
      BY <1>2, SaveTokenDraws
    <3> QED BY <1>q, <3>1
  <2>2. /\ n.pc \in {"jwt", "storeRefresh", "storeAccess"} /\ n.grant = q.grant
        /\ n.client = q.client /\ n.user = q.user
        /\ n.pc # "jwt" => "jwt" \notin n.form
    BY <1>0, <2>1 DEF Request
  <2>3. q.grant # None => Owns(q.grant, q.client, q.user)
    BY <1>0, <1>2, <1>q DEF SaveToken, At, Entitled, Buying
  <2>4. Seeded(n)
    BY <1>0, <2>2, <2>3 DEF Seeded, Storing
  <2> QED BY <2>1, <2>4, SeededTurn
<1>3. CASE GenerateJwtToken(p)
  BY <1>3, <1>o, <1>q DEF GenerateJwtToken, At, Storing
<1>4. CASE StoreRefresh(p)
  BY <1>4, <1>f, <1>o, <1>q DEF StoreRefresh, Reject, At, Storing
<1>5. CASE StoreAccess(p)
  BY <1>5, <1>f, <1>o, <1>q DEF StoreAccess, Reject, At, Storing
<1>6. CASE RespondToken(p)
  BY <1>6, <1>f DEF RespondToken
<1>7. CASE IshareReadCode(p)
  <2>1. ASSUME NEW row \in ValidCode(p), NEW a \in Fresh(Accesses), NEW n,
               n = [q EXCEPT !.pc = "ishareStore", !.a = a, !.user = row.user],
               Become(p, n)
        PROVE  AllSeeded'
    <3>1. row \in codes /\ row.id = q.grant /\ row.client = q.client
      BY <1>q DEF ValidCode, Presented
    <3>2. Owns(q.grant, q.client, row.user)
      BY <3>1 DEF IInv, Ownership, RowsOwned, Owned
    <3>3. /\ n.pc = "ishareStore" /\ n.grant = q.grant /\ n.r = q.r
          /\ n.client = q.client /\ n.user = row.user
      BY <1>0, <2>1 DEF Request
    <3>4. q.r = None
      BY <1>0, <1>7, <1>q DEF IshareReadCode, At, WellFormed
    <3>5. Seeded(n)
      BY <1>0, <3>2, <3>3, <3>4 DEF Seeded, Storing
    <3> QED BY <2>1, <3>5, SeededTurn
  <2> QED BY <1>7, <1>f, <1>q, <2>1, IshareReadDraws
<1>8. CASE IshareStoreToken(p)
  BY <1>8, <1>d, <1>f DEF IshareStoreToken
<1> QED BY <1>1, <1>2, <1>3, <1>4, <1>5, <1>6, <1>7, <1>8 DEF Handle, Prelude

LEMMA NextSeeded ==
  ASSUME IInv, AllSeeded, HeldIsDrawn, [Next]_vars
  PROVE  AllSeeded'
<1>0. LedgerGrows
  BY NextGrows
<1>1. ASSUME NEW p \in Requests, Arrive(p) PROVE AllSeeded'
  BY <1>0, <1>1, ArriveTurn, SeededTurn DEF Turn
<1>2. ASSUME NEW p \in Requests, Handle(p) PROVE AllSeeded'
  BY <1>0, <1>2, HandleSeeded
<1>3. ASSUME NEW w \in writes, ExecuteInvalidate(w) \/ ExecuteRefresh(w) \/ ExecuteConsent(w)
      PROVE  AllSeeded'
  <2>1. CASE Die
    BY <2>1, SeededDie
  <2>2. CASE req' = req
    BY <1>0, <2>2, SeededSame
  <2>3. CASE w \in ConsentWrite /\ w.by # None
             /\ Become(w.by, [req[w.by] EXCEPT !.failed = TRUE])
    <3>1. w.by \in Requests
      BY <2>3 DEF ConsentWrite, OrNone
    <3>2. PICK q : q = req[w.by]
      OBVIOUS
    <3>3. q \in Request /\ Seeded(q)
      BY <3>1, <3>2 DEF IInv, TypeOK, AllSeeded
    <3>4. Seeded([q EXCEPT !.failed = TRUE])
      BY <3>3 DEF Seeded, Request, Storing
    <3> QED BY <1>0, <2>3, <3>1, <3>2, <3>4, SeededTurn
  <2>4. w.op = "consent" => w \in ConsentWrite
    BY DEF IInv, TypeOK, ConsentWrite, RefreshWrite, InvalidateWrite
  <2> QED BY <1>3, <2>1, <2>2, <2>3, <2>4
          DEF ExecuteInvalidate, ExecuteRefresh, ExecuteConsent
<1>4. CASE Environment
  <2>1. ASSUME NEW p \in Requests, StatementFails(p) PROVE AllSeeded'
    <3>1. CASE Finish(p)
      BY <1>0, <3>1, IdleTurn, SeededTurn DEF Finish
    <3> QED BY <2>1, <3>1, SeededDie DEF StatementFails, Reject
  <2> QED BY <1>0, <1>4, <2>1, SeededDie, SeededSame DEF Environment, DeleteUser,
          DeleteClient, DeleteThirdPartyApplication, ProcessDies
<1>5. CASE UNCHANGED vars
  BY <1>0, <1>5, SeededSame DEF vars
<1> QED BY <1>1, <1>2, <1>3, <1>4, <1>5 DEF Next, Execute

(***************************************************************************)
(* Steps that bring nothing to a new place.                                *)
(***************************************************************************)
Lighter(q, n) == \/ n.pc \notin Storing
                 \/ n.pc = q.pc /\ n.r = q.r /\ n.a = q.a /\ n.form = q.form
Aged(old, new) == new \subseteq old \/ \E x : new = Invalidated(old, x)
CalmRequests == \A p \in Requests : Lighter(req[p], req'[p])
CalmTables == /\ Sent' \subseteq Sent
              /\ Aged(codes, codes') /\ Aged(refresh, refresh') /\ Aged(access, access')
              /\ jwts' = jwts

LEMMA LighterBears ==
  ASSUME NEW q, NEW n, Lighter(q, n), NEW x
  PROVE  /\ BearsRefresh(n, x) => BearsRefresh(q, x)
         /\ BearsAccess(n, x) => BearsAccess(q, x)
         /\ Lends(n, x) => Lends(q, x)
  BY DEF Lighter, BearsRefresh, BearsAccess, Lends, Storing

\* Rows that were invalidated or deleted say the same of everything but "valid".
LEMMA AgedRows ==
  ASSUME NEW old, NEW new, Aged(old, new),
         old \subseteq CodeRow \/ old \subseteq RefreshRow \/ old \subseteq AccessRow
  PROVE  /\ \A row \in new : \E o \in old :
               /\ row.id = o.id /\ row.client = o.client /\ row.user = o.user
               /\ row.valid => o.valid
         /\ old \subseteq AccessRow =>
               \A row \in new : \E o \in old : row.id = o.id /\ row.refresh = o.refresh
         /\ Unique(old) => Unique(new)
<1>1. CASE new \subseteq old
  BY <1>1 DEF Unique
<1>2. ASSUME NEW x, new = Invalidated(old, x)
      PROVE  /\ \A row \in new : \E o \in old :
                   /\ row.id = o.id /\ row.client = o.client /\ row.user = o.user
                   /\ row.valid => o.valid
             /\ old \subseteq AccessRow =>
                   \A row \in new : \E o \in old : row.id = o.id /\ row.refresh = o.refresh
             /\ Unique(old) => Unique(new)
  <2>1. \A row \in new : \E o \in old :
           row = IF o.id = x THEN [o EXCEPT !.valid = FALSE] ELSE o
    BY <1>2 DEF Invalidated
  <2>2. ASSUME NEW o \in old
        PROVE  /\ [o EXCEPT !.valid = FALSE].id = o.id
               /\ [o EXCEPT !.valid = FALSE].client = o.client
               /\ [o EXCEPT !.valid = FALSE].user = o.user
               /\ [o EXCEPT !.valid = FALSE].valid = FALSE
               /\ old \subseteq AccessRow => [o EXCEPT !.valid = FALSE].refresh = o.refresh
    BY DEF CodeRow, RefreshRow, AccessRow
  <2>3. ASSUME Unique(old) PROVE Unique(new)
    <3>1. ASSUME NEW a \in new, NEW b \in new, a.id = b.id PROVE a = b
      <4>1. PICK o \in old : a = IF o.id = x THEN [o EXCEPT !.valid = FALSE] ELSE o
        BY <2>1
      <4>2. PICK m \in old : b = IF m.id = x THEN [m EXCEPT !.valid = FALSE] ELSE m
        BY <2>1
      <4>3. o.id = m.id
        BY <2>2, <3>1, <4>1, <4>2
      <4> QED BY <2>3, <4>1, <4>2, <4>3 DEF Unique
    <3> QED BY <3>1 DEF Unique
  <2>4. \A row \in new : \E o \in old :
           /\ row.id = o.id /\ row.client = o.client /\ row.user = o.user
           /\ row.valid => o.valid
           /\ old \subseteq AccessRow => row.refresh = o.refresh
    BY <2>1, <2>2
  <2> QED BY <2>3, <2>4
<1> QED BY <1>1, <1>2 DEF Aged

LEMMA AgedLoans ==
  ASSUME TypeOK, OneAccessPerRefresh, Aged(access, access')
  PROVE  OneAccessPerRefresh'
<1>1. CASE access' \subseteq access
  BY <1>1 DEF OneAccessPerRefresh
<1>2. ASSUME NEW x, access' = Invalidated(access, x) PROVE OneAccessPerRefresh'
  <2>1. \A row \in access' : \E o \in access :
           row = IF o.id = x THEN [o EXCEPT !.valid = FALSE] ELSE o
    BY <1>2 DEF Invalidated
  <2>2. \A o \in access : [o EXCEPT !.valid = FALSE].refresh = o.refresh
    BY DEF TypeOK, AccessRow
  <2>3. ASSUME NEW a \in access', NEW b \in access', a.refresh # None, a.refresh = b.refresh
        PROVE  a = b
    <3>1. PICK o \in access : a = IF o.id = x THEN [o EXCEPT !.valid = FALSE] ELSE o
      BY <2>1
    <3>2. PICK m \in access : b = IF m.id = x THEN [m EXCEPT !.valid = FALSE] ELSE m
      BY <2>1
    <3>3. o.refresh = a.refresh /\ m.refresh = b.refresh
      BY <2>2, <3>1, <3>2
    <3>4. o = m
      BY <2>3, <3>3 DEF OneAccessPerRefresh
    <3> QED BY <3>1, <3>2, <3>4
  <2> QED BY <2>3 DEF OneAccessPerRefresh
<1> QED BY <1>1, <1>2 DEF Aged

\* No request keeps, or is about to use, more than before.
FewerRefreshes == \A p \in Requests, x \in Refreshes :
                     BearsRefresh(req'[p], x) => BearsRefresh(req[p], x)
FewerAccesses == \A p \in Requests, x \in Accesses :
                     BearsAccess(req'[p], x) => BearsAccess(req[p], x)
FewerLoans == \A p \in Requests, x \in Refreshes :
                     Lends(req'[p], x) => Lends(req[p], x)

LEMMA CodesCalm ==
  ASSUME TypeOK, CodePlaces, Aged(codes, codes')
  PROVE  CodePlaces'
<1>1. Unique(codes')
  BY AgedRows DEF TypeOK, CodePlaces
<1> QED BY <1>1 DEF CodePlaces, Unique

LEMMA RefreshesCalm ==
  ASSUME TypeOK, RefreshPlaces, Sent' \subseteq Sent, Aged(refresh, refresh'),
         FewerRefreshes
  PROVE  RefreshPlaces'
<1>1. Unique(refresh') /\ \A row \in refresh' : \E o \in refresh : row.id = o.id
  BY AgedRows DEF TypeOK, RefreshPlaces
<1>2. Unique(Sent')
  BY DEF RefreshPlaces, Unique
<1>3. \A a \in refresh', b \in Sent' : a.id # b.id
  BY <1>1 DEF RefreshPlaces
<1>4. \A row \in refresh \union Sent : row.id \in Refreshes
  BY DEF TypeOK, Sent, RefreshRow, RefreshWrite, ConsentWrite, InvalidateWrite
<1>5. \A p \in Requests, row \in refresh' \union Sent' : ~BearsRefresh(req'[p], row.id)
  BY <1>1, <1>4 DEF RefreshPlaces, FewerRefreshes
<1>6. \A p, o \in Requests, x \in Refreshes :
         BearsRefresh(req'[p], x) /\ BearsRefresh(req'[o], x) => p = o
  BY DEF RefreshPlaces, FewerRefreshes
<1> QED BY <1>1, <1>2, <1>3, <1>5, <1>6 DEF RefreshPlaces, Unique, BearsRefresh

LEMMA AccessesCalm ==
  ASSUME TypeOK, AccessPlaces, Aged(access, access'), jwts' = jwts, FewerAccesses
  PROVE  AccessPlaces'
<1>1. Unique(access') /\ \A row \in access' : \E o \in access : row.id = o.id
  BY AgedRows DEF TypeOK, AccessPlaces
<1>2. \A row \in access \union jwts : row.id \in Accesses
  BY DEF TypeOK, AccessRow, Jwt
<1>3. \A p \in Requests, row \in access' \union jwts' : ~BearsAccess(req'[p], row.id)
  BY <1>1, <1>2 DEF AccessPlaces, FewerAccesses
<1>4. \A p, o \in Requests, x \in Accesses :
         BearsAccess(req'[p], x) /\ BearsAccess(req'[o], x) => p = o
  BY DEF AccessPlaces, FewerAccesses
<1> QED BY <1>1, <1>3, <1>4 DEF AccessPlaces, Unique, BearsAccess

LEMMA LoansCalm ==
  ASSUME TypeOK, Loans, Aged(access, access'), FewerLoans
  PROVE  Loans'
<1>1. OneAccessPerRefresh'
  BY AgedLoans DEF Loans
<1>2. \A row \in access' : \E o \in access : row.refresh = o.refresh
  BY AgedRows DEF TypeOK
<1>3. \A row \in access : row.refresh # None => row.refresh \in Refreshes
  BY DEF TypeOK, AccessRow, OrNone
<1>4. \A p \in Requests, row \in access' :
         row.refresh # None => ~Lends(req'[p], row.refresh)
  BY <1>2, <1>3 DEF Loans, FewerLoans
<1>5. \A p, o \in Requests, x \in Refreshes :
         Lends(req'[p], x) /\ Lends(req'[o], x) => p = o
  BY DEF Loans, FewerLoans
<1> QED BY <1>1, <1>4, <1>5 DEF Loans, Lends

LEMMA CalmFewer ==
  ASSUME CalmRequests
  PROVE  FewerRefreshes /\ FewerAccesses /\ FewerLoans
  BY LighterBears DEF CalmRequests, FewerRefreshes, FewerAccesses, FewerLoans

LEMMA CalmKeeps ==
  ASSUME TypeOK, Places, CalmRequests, CalmTables
  PROVE  Places'
  BY CalmFewer, CodesCalm, RefreshesCalm, AccessesCalm, LoansCalm DEF Places, CalmTables

\* A value that was not drawn is nowhere.
LEMMA UndrawnNowhere ==
  ASSUME IInv, Known, NEW x \in Ids, ledger[x].client = None
  PROVE  /\ \A p \in Requests : /\ ~BearsRefresh(req[p], x)
                                 /\ ~BearsAccess(req[p], x)
                                 /\ ~Lends(req[p], x)
         /\ \A row \in codes \union refresh \union access \union jwts \union Sent : row.id # x
         /\ \A row \in access : row.refresh # x
<1>1. ASSUME NEW p \in Requests, req[p].pc \in Storing
      PROVE  req[p].a # x /\ req[p].r # x
  <2>1. /\ req[p].client \in Clients
        /\ ledger[req[p].a].client = req[p].client
        /\ req[p].r # None => ledger[req[p].r].client = req[p].client
    BY <1>1 DEF IInv, ReqOK, Ownership, WellFormed, Entitled, Owns, Storing
  <2> QED BY <2>1, NoneAssumption
<1>2. \A row \in codes \union refresh \union access \union Sent :
         ledger[row.id].client \in Clients
  BY DEF IInv, TypeOK, Ownership, RowsOwned, WritesOwned, Owned, Owns, Sent, CodeRow,
         RefreshRow, AccessRow, RefreshWrite, ConsentWrite, InvalidateWrite
<1>3. \A row \in jwts : row.id # x
  BY DEF Known
<1>4. \A row \in access : row.refresh # x
  BY NoneAssumption DEF Known
<1> QED BY <1>1, <1>2, <1>3, <1>4, NoneAssumption
        DEF BearsRefresh, BearsAccess, Lends, Storing

(***************************************************************************)
(* Steps that draw a value, or bring one to its next place.                *)
(***************************************************************************)
\* Only the request that makes the step changes.
LEMMA OnlyOne ==
  ASSUME IInv, NEW p \in Requests, NEW n, Become(p, n)
  PROVE  req'[p] = n /\ \A o \in Requests \ {p} : req'[o] = req[o]
  BY DEF IInv, TypeOK, Become

LEMMA SentTogether ==
  ASSUME writes \subseteq writes', \A w \in writes' : w \in writes \/ w.op # "refresh"
  PROVE  Sent' = Sent
  BY DEF Sent

LEMMA ConsentIsNoRefresh ==
  ASSUME NEW p
  PROVE  \A w \in ConsentWrites(p) : w.op # "refresh"
  BY DEF ConsentWrites

LEMMA AgedSame ==
  ASSUME UNCHANGED <<codes, refresh, access>>
  PROVE  Aged(codes, codes') /\ Aged(refresh, refresh') /\ Aged(access, access')
  BY DEF Aged

LEMMA SaveTokenPlaces ==
  ASSUME IInv, PInv, NEW p \in Requests, SaveToken(p)
  PROVE  Places'
<1>q. PICK q : q = req[p]
  OBVIOUS
<1>0. TypeOK /\ q \in Request /\ Places
  BY <1>q DEF IInv, TypeOK, PInv
<1>1. PICK a \in Fresh(Accesses), r \in OrNone(Fresh(Refreshes)), n \in Request :
         /\ n = [q EXCEPT !.a = a, !.r = r,
                          !.pc = IF "jwt" \in q.form THEN "jwt"
                                 ELSE IF r # None THEN "storeRefresh"
                                 ELSE "storeAccess"]
         /\ Become(p, n)
  <2>1. \E a \in Fresh(Accesses), r \in OrNone(Fresh(Refreshes)), n \in Request :
           /\ n = [req[p] EXCEPT !.a = a, !.r = r,
                                 !.pc = IF "jwt" \in req[p].form THEN "jwt"
                                        ELSE IF r # None THEN "storeRefresh"
                                        ELSE "storeAccess"]
           /\ Become(p, n)
    BY SaveTokenDraws
  <2> QED BY <1>q, <2>1
<1>2. n.a = a /\ n.r = r
  BY <1>0, <1>1 DEF Request
<1>3. req'[p] = n /\ \A o \in Requests \ {p} : req'[o] = req[o]
  BY <1>1, OnlyOne
<1>4. /\ a \in Ids /\ ledger[a].client = None
      /\ r # None => r \in Ids /\ ledger[r].client = None
      /\ r # None => r \in Refreshes
      /\ a \in Accesses
  BY DEF Fresh, OrNone, Ids
<1>5. UNCHANGED <<codes, refresh, access, jwts>> /\ Sent' = Sent
  BY SentTogether, ConsentIsNoRefresh DEF SaveToken, tables, Sent
<1>6. CodePlaces'
  BY <1>0, <1>5, CodesCalm, AgedSame DEF Places
<1>7. RefreshPlaces'
  <2>1. \A x \in Refreshes : BearsRefresh(req'[p], x) => x = r
    BY <1>2, <1>3 DEF BearsRefresh
  <2>2. r # None => /\ \A o \in Requests : ~BearsRefresh(req[o], r)
                    /\ \A row \in refresh \union Sent : row.id # r
    BY <1>4, UndrawnNowhere DEF PInv
  <2>3. \A row \in refresh \union Sent : row.id \in Refreshes
    BY <1>0 DEF TypeOK, Sent, RefreshRow, RefreshWrite, ConsentWrite, InvalidateWrite
  <2>r. \A x \in Refreshes : x # None
    BY NoneAssumption DEF Ids
  <2>4. \A o \in Requests, row \in refresh \union Sent : ~BearsRefresh(req'[o], row.id)
    BY <1>0, <1>3, <2>1, <2>2, <2>3, <2>r DEF Places, RefreshPlaces
  <2>5. \A m, o \in Requests, x \in Refreshes :
           BearsRefresh(req'[m], x) /\ BearsRefresh(req'[o], x) => m = o
    BY <1>0, <1>3, <2>1, <2>2, <2>r DEF Places, RefreshPlaces
  <2>6. Unique(refresh) /\ Unique(Sent) /\ \A b \in refresh, c \in Sent : b.id # c.id
    BY <1>0 DEF Places, RefreshPlaces
  <2> QED BY <1>5, <2>4, <2>5, <2>6 DEF RefreshPlaces, Unique, BearsRefresh
<1>8. AccessPlaces'
  <2>1. \A x \in Accesses : BearsAccess(req'[p], x) => x = a
    BY <1>2, <1>3 DEF BearsAccess
  <2>2. /\ \A o \in Requests : ~BearsAccess(req[o], a)
        /\ \A row \in access \union jwts : row.id # a
    BY <1>4, UndrawnNowhere DEF PInv
  <2>3. \A row \in access \union jwts : row.id \in Accesses
    BY <1>0 DEF TypeOK, AccessRow, Jwt
  <2>4. \A o \in Requests, row \in access \union jwts : ~BearsAccess(req'[o], row.id)
    BY <1>0, <1>3, <2>1, <2>2, <2>3 DEF Places, AccessPlaces
  <2>5. \A m, o \in Requests, x \in Accesses :
           BearsAccess(req'[m], x) /\ BearsAccess(req'[o], x) => m = o
    BY <1>0, <1>3, <2>1, <2>2 DEF Places, AccessPlaces
  <2>6. Unique(access)
    BY <1>0 DEF Places, AccessPlaces
  <2> QED BY <1>5, <2>4, <2>5, <2>6 DEF AccessPlaces, Unique, BearsAccess
<1>9. Loans'
  <2>1. \A x \in Refreshes : Lends(req'[p], x) => x = r
    BY <1>2, <1>3 DEF Lends
  <2>2. r # None => /\ \A o \in Requests : ~Lends(req[o], r)
                    /\ \A row \in access : row.refresh # r
    BY <1>4, UndrawnNowhere DEF PInv
  <2>r. \A x \in Refreshes : x # None
    BY NoneAssumption DEF Ids
  <2>3. \A row \in access : row.refresh # None => row.refresh \in Refreshes
    BY <1>0 DEF TypeOK, AccessRow, OrNone
  <2>4. \A o \in Requests, row \in access :
           row.refresh # None => ~Lends(req'[o], row.refresh)
    BY <1>0, <1>3, <2>1, <2>2, <2>3, <2>r DEF Places, Loans
  <2>5. \A m, o \in Requests, x \in Refreshes :
           Lends(req'[m], x) /\ Lends(req'[o], x) => m = o
    BY <1>0, <1>3, <2>1, <2>2, <2>r DEF Places, Loans
  <2>6. OneAccessPerRefresh
    BY <1>0 DEF Places, Loans
  <2> QED BY <1>5, <2>4, <2>5, <2>6 DEF Loans, OneAccessPerRefresh, Lends
<1> QED BY <1>6, <1>7, <1>8, <1>9 DEF Places

\* The refresh token goes from the request to the statement that will insert it.
LEMMA GenerateJwtPlaces ==
  ASSUME IInv, PInv, NEW p \in Requests, GenerateJwtToken(p)
  PROVE  Places'
<1>q. PICK q : q = req[p]
  OBVIOUS
<1>n. PICK n : n = [q EXCEPT !.pc = "storeConsent"]
  OBVIOUS
<1>0. TypeOK /\ q \in Request /\ Places /\ q.pc = "jwt"
  BY <1>q DEF IInv, TypeOK, PInv, GenerateJwtToken, At
<1>1. n.pc = "storeConsent" /\ n.a = q.a /\ n.r = q.r /\ n.form = q.form
  BY <1>0, <1>n DEF Request
<1>2. req'[p] = n /\ \A o \in Requests \ {p} : req'[o] = req[o]
  BY <1>n, <1>q, OnlyOne DEF GenerateJwtToken, Goto
<1>3. UNCHANGED <<codes, refresh, access, jwts>>
  BY DEF GenerateJwtToken, tables
<1>4. Sent' = Sent \union IF q.r = None THEN {} ELSE {RefreshRowOf(q)}
  <2>1. writes' = (writes \union ConsentWrites(p))
                    \union (IF q.r = None THEN {}
                            ELSE {[op |-> "refresh", row |-> RefreshRowOf(q)]})
    BY <1>q DEF GenerateJwtToken
  <2>2. {w.row : w \in {v \in writes \union ConsentWrites(p) : v.op = "refresh"}} = Sent
    BY ConsentIsNoRefresh DEF Sent
  <2>3. CASE q.r = None
    BY <2>1, <2>2, <2>3 DEF Sent
  <2>4. CASE q.r # None
    <3>1. PICK w : w = [op |-> "refresh", row |-> RefreshRowOf(q)]
      OBVIOUS
    <3>2. w.op = "refresh" /\ w.row = RefreshRowOf(q)
      BY <3>1
    <3>3. writes' = (writes \union ConsentWrites(p)) \union {w}
      BY <2>1, <2>4, <3>1
    <3>4. Sent' = Sent \union {w.row}
      BY <2>2, <3>2, <3>3 DEF Sent
    <3> QED BY <2>4, <3>2, <3>4
  <2> QED BY <2>3, <2>4
<1>5. CodePlaces'
  BY <1>0, <1>3, CodesCalm, AgedSame DEF Places
<1>6. AccessPlaces'
  <2>1. FewerAccesses
    BY <1>0, <1>1, <1>2, <1>q DEF FewerAccesses, BearsAccess
  <2> QED BY <1>0, <1>3, <2>1, AccessesCalm, AgedSame DEF Places
<1>7. Loans'
  <2>1. FewerLoans
    BY <1>0, <1>1, <1>2, <1>q DEF FewerLoans, Lends
  <2> QED BY <1>0, <1>3, <2>1, LoansCalm, AgedSame DEF Places
<1>8. RefreshPlaces'
  <2>1. \A x : ~BearsRefresh(req'[p], x)
    BY <1>1, <1>2 DEF BearsRefresh
  <2>2. FewerRefreshes
    BY <1>2, <2>1 DEF FewerRefreshes
  <2>3. CASE q.r = None
    BY <1>0, <1>3, <1>4, <2>2, <2>3, RefreshesCalm, AgedSame DEF Places
  <2>4. CASE q.r # None
    <3>1. q.r \in Refreshes /\ RefreshRowOf(q).id = q.r /\ BearsRefresh(req[p], q.r)
      BY <1>0, <1>q, <2>4 DEF Request, OrNone, RefreshRowOf, BearsRefresh
    <3>p. RefreshPlaces
      BY <1>0 DEF Places
    <3>2. /\ \A row \in refresh \union Sent : row.id # q.r
          /\ \A o \in Requests \ {p} : ~BearsRefresh(req[o], q.r)
      BY <3>1, <3>p DEF RefreshPlaces
    <3>3. Sent' = Sent \union {RefreshRowOf(q)}
      BY <1>4, <2>4
    <3>4. Unique(Sent')
      BY <3>1, <3>2, <3>3, <3>p DEF RefreshPlaces, Unique
    <3>5. \A a \in refresh', b \in Sent' : a.id # b.id
      BY <1>3, <3>1, <3>2, <3>3, <3>p DEF RefreshPlaces
    <3>6. \A o \in Requests, row \in refresh' \union Sent' : ~BearsRefresh(req'[o], row.id)
      BY <1>2, <1>3, <2>1, <3>1, <3>2, <3>3, <3>p DEF RefreshPlaces
    <3>7. \A m, o \in Requests, x \in Refreshes :
             BearsRefresh(req'[m], x) /\ BearsRefresh(req'[o], x) => m = o
      BY <2>2, <3>p DEF RefreshPlaces, FewerRefreshes
    <3>8. Unique(refresh')
      BY <1>3, <3>p DEF RefreshPlaces
    <3> QED BY <3>4, <3>5, <3>6, <3>7, <3>8 DEF RefreshPlaces, Unique, BearsRefresh
  <2> QED BY <2>3, <2>4
<1> QED BY <1>5, <1>6, <1>7, <1>8 DEF Places

\* One row with a new key keeps the keys unique.
LEMMA UniqueInsert ==
  ASSUME NEW rows, Unique(rows), NEW row, \A o \in rows : o.id # row.id
  PROVE  Unique(rows \union {row})
  BY DEF Unique

LEMMA StoreRefreshPlaces ==
  ASSUME IInv, PInv, NEW p \in Requests, StoreRefresh(p),
         Goto(p, "storeAccess"), UNCHANGED writes,
         refresh' = refresh \union {RefreshRowOf(req[p])}
  PROVE  Places'
<1>q. PICK q : q = req[p]
  OBVIOUS
<1>n. PICK n : n = [q EXCEPT !.pc = "storeAccess"]
  OBVIOUS
<1>0. TypeOK /\ q \in Request /\ Places /\ q.pc = "storeRefresh" /\ q.r \in Refreshes
  BY <1>q DEF IInv, TypeOK, PInv, StoreRefresh, At, ReqOK, WellFormed
<1>1. n.pc = "storeAccess" /\ n.a = q.a /\ n.r = q.r /\ n.form = q.form
  BY <1>0, <1>n DEF Request
<1>2. req'[p] = n /\ \A o \in Requests \ {p} : req'[o] = req[o]
  BY <1>n, <1>q, OnlyOne DEF Goto
<1>3. UNCHANGED <<codes, access, jwts>> /\ Sent' = Sent
  BY DEF StoreRefresh, Sent
<1>4. CodePlaces'
  BY <1>0, <1>3, CodesCalm DEF Places, Aged
<1>5. AccessPlaces'
  <2>1. FewerAccesses
    BY <1>0, <1>1, <1>2, <1>q DEF FewerAccesses, BearsAccess
  <2> QED BY <1>0, <1>3, <2>1, AccessesCalm DEF Places, Aged
<1>6. Loans'
  <2>1. FewerLoans
    BY <1>0, <1>1, <1>2, <1>q DEF FewerLoans, Lends
  <2> QED BY <1>0, <1>3, <2>1, LoansCalm DEF Places, Aged
<1>7. RefreshPlaces'
  <2>p. RefreshPlaces
    BY <1>0 DEF Places
  <2>1. \A x : ~BearsRefresh(req'[p], x)
    BY <1>1, <1>2 DEF BearsRefresh
  <2>2. PICK row : row = RefreshRowOf(req[p])
    OBVIOUS
  <2>3. row.id = q.r /\ BearsRefresh(req[p], q.r) /\ refresh' = refresh \union {row}
    BY <1>0, <1>q, <2>2 DEF RefreshRowOf, BearsRefresh
  <2>4. /\ \A o \in refresh \union Sent : o.id # row.id
        /\ \A o \in Requests \ {p} : ~BearsRefresh(req[o], row.id)
    BY <1>0, <2>3, <2>p DEF RefreshPlaces
  <2>5. Unique(refresh')
    BY <2>3, <2>4, <2>p, UniqueInsert DEF RefreshPlaces
  <2>6. Unique(Sent') /\ \A a \in refresh', b \in Sent' : a.id # b.id
    BY <1>3, <2>3, <2>4, <2>p DEF RefreshPlaces
  <2>7. \A o \in Requests, m \in refresh' \union Sent' : ~BearsRefresh(req'[o], m.id)
    BY <1>2, <1>3, <2>1, <2>3, <2>4, <2>p DEF RefreshPlaces
  <2>8. \A m, o \in Requests, x \in Refreshes :
           BearsRefresh(req'[m], x) /\ BearsRefresh(req'[o], x) => m = o
    BY <1>2, <2>1, <2>p DEF RefreshPlaces
  <2> QED BY <2>5, <2>6, <2>7, <2>8 DEF RefreshPlaces, Unique, BearsRefresh
<1> QED BY <1>4, <1>5, <1>6, <1>7 DEF Places

\* An access token goes from its request to its row.
LEMMA InsertAccessPlaces ==
  ASSUME IInv, PInv, NEW p \in Requests, NEW row, NEW n, Become(p, n),
         BearsAccess(req[p], row.id), row.id \in Accesses,
         row.refresh # None => Lends(req[p], row.refresh) /\ row.refresh \in Refreshes,
         n.pc \in {"idle", "storeConsent"},
         n.pc = "storeConsent" => "jwt" \notin n.form,
         access' = access \union {row}, UNCHANGED <<codes, refresh, jwts, writes>>
  PROVE  Places'
<1>0. TypeOK /\ Places
  BY DEF IInv, PInv
<1>2. req'[p] = n /\ \A o \in Requests \ {p} : req'[o] = req[o]
  BY OnlyOne
<1>3. Sent' = Sent
  BY DEF Sent
<1>4. CodePlaces'
  BY <1>0, CodesCalm DEF Places, Aged
<1>5. RefreshPlaces'
  <2>1. FewerRefreshes
    BY <1>2 DEF FewerRefreshes, BearsRefresh
  <2> QED BY <1>0, <1>3, <2>1, RefreshesCalm DEF Places, Aged
<1>6. AccessPlaces'
  <2>p. AccessPlaces
    BY <1>0 DEF Places
  <2>1. \A x : ~BearsAccess(req'[p], x)
    BY <1>2 DEF BearsAccess
  <2>2. /\ \A o \in access \union jwts : o.id # row.id
        /\ \A o \in Requests \ {p} : ~BearsAccess(req[o], row.id)
    BY <2>p DEF AccessPlaces
  <2>3. Unique(access')
    BY <2>2, <2>p, UniqueInsert DEF AccessPlaces
  <2>4. \A o \in Requests, m \in access' \union jwts' : ~BearsAccess(req'[o], m.id)
    BY <1>2, <2>1, <2>2, <2>p DEF AccessPlaces
  <2>5. \A m, o \in Requests, x \in Accesses :
           BearsAccess(req'[m], x) /\ BearsAccess(req'[o], x) => m = o
    BY <1>2, <2>1, <2>p DEF AccessPlaces
  <2> QED BY <2>3, <2>4, <2>5 DEF AccessPlaces, Unique, BearsAccess
<1>7. Loans'
  <2>p. Loans
    BY <1>0 DEF Places
  <2>1. \A x : ~Lends(req'[p], x)
    BY <1>2 DEF Lends
  <2>2. row.refresh # None =>
           /\ \A o \in access : o.refresh # row.refresh
           /\ \A o \in Requests \ {p} : ~Lends(req[o], row.refresh)
    BY <2>p DEF Loans
  <2>3. OneAccessPerRefresh'
    <3>1. OneAccessPerRefresh
      BY <2>p DEF Loans
    <3> QED BY <2>2, <3>1 DEF OneAccessPerRefresh
  <2>4. \A o \in Requests, m \in access' : m.refresh # None => ~Lends(req'[o], m.refresh)
    BY <1>2, <2>1, <2>2, <2>p DEF Loans
  <2>5. \A m, o \in Requests, x \in Refreshes :
           Lends(req'[m], x) /\ Lends(req'[o], x) => m = o
    BY <1>2, <2>1, <2>p DEF Loans
  <2> QED BY <2>3, <2>4, <2>5 DEF Loans, Lends
<1> QED BY <1>4, <1>5, <1>6, <1>7 DEF Places

LEMMA StoreAccessPlaces ==
  ASSUME IInv, PInv, NEW p \in Requests, StoreAccess(p),
         Goto(p, "storeConsent"), UNCHANGED writes, "jwt" \notin req[p].form,
         access' = access \union {AccessRowOf(req[p])}
  PROVE  Places'
<1>q. PICK q : q = req[p]
  OBVIOUS
<1>n. PICK n : n = [q EXCEPT !.pc = "storeConsent"]
  OBVIOUS
<1>0. q \in Request /\ q.pc = "storeAccess" /\ q.a \in Accesses
  BY <1>q DEF IInv, TypeOK, StoreAccess, At, ReqOK, WellFormed, Storing
<1>1. n.pc = "storeConsent" /\ n.form = q.form
  BY <1>0, <1>n DEF Request
<1>2. PICK row : row = AccessRowOf(req[p])
  OBVIOUS
<1>3. row.id = q.a /\ row.refresh = q.r
  BY <1>2, <1>q DEF AccessRowOf
<1>4. /\ BearsAccess(req[p], row.id)
      /\ row.refresh # None => Lends(req[p], row.refresh) /\ row.refresh \in Refreshes
  BY <1>0, <1>3, <1>q DEF BearsAccess, Lends, Request, OrNone
<1>5. /\ Become(p, n) /\ access' = access \union {row} /\ "jwt" \notin n.form
      /\ UNCHANGED <<codes, refresh, jwts, writes>>
  BY <1>1, <1>2, <1>n, <1>q DEF Goto, StoreAccess
<1> QED BY <1>0, <1>1, <1>3, <1>4, <1>5, InsertAccessPlaces

LEMMA IshareStorePlaces ==
  ASSUME IInv, PInv, NEW p \in Requests, IshareStoreToken(p),
         Finish(p), UNCHANGED writes,
         access' = access \union {AccessRowOf(req[p])}
  PROVE  Places'
<1>q. PICK q : q = req[p]
  OBVIOUS
<1>0. /\ q \in Request /\ q.pc = "ishareStore" /\ q.a \in Accesses /\ Seeded(q)
  BY <1>q DEF IInv, TypeOK, IshareStoreToken, At, ReqOK, WellFormed, Storing, PInv,
     AllSeeded
<1>1. q.r = None
  BY <1>0 DEF Seeded
<1>2. PICK row : row = AccessRowOf(req[p])
  OBVIOUS
<1>3. row.id = q.a /\ row.refresh = None
  BY <1>1, <1>2, <1>q DEF AccessRowOf
<1>4. BearsAccess(req[p], row.id)
  BY <1>0, <1>3, <1>q DEF BearsAccess
<1>5. /\ Become(p, Idle) /\ access' = access \union {row} /\ Idle.pc = "idle"
      /\ UNCHANGED <<codes, refresh, jwts, writes>>
  BY <1>2 DEF Finish, IshareStoreToken, Idle
<1> QED BY <1>0, <1>3, <1>4, <1>5, InsertAccessPlaces

\* A signed token goes from its request to the client.
LEMMA RespondPlaces ==
  ASSUME IInv, PInv, NEW p \in Requests, RespondToken(p)
  PROVE  Places'
<1>q. PICK q : q = req[p]
  OBVIOUS
<1>0. /\ TypeOK /\ q \in Request /\ Places /\ q.pc = "storeConsent" /\ q.a \in Accesses
  BY <1>q DEF IInv, TypeOK, PInv, RespondToken, At, ReqOK, WellFormed, Storing
<1>2. req'[p] = Idle /\ \A o \in Requests \ {p} : req'[o] = req[o]
  BY OnlyOne DEF RespondToken, Finish
<1>3. UNCHANGED <<codes, refresh, access>> /\ Sent' = Sent
  BY DEF RespondToken, Sent
<1>4. FewerRefreshes /\ FewerAccesses /\ FewerLoans
  BY <1>2 DEF FewerRefreshes, FewerAccesses, FewerLoans, BearsRefresh, BearsAccess,
     Lends, Idle
<1>5. CodePlaces' /\ RefreshPlaces' /\ Loans'
  BY <1>0, <1>3, <1>4, CodesCalm, RefreshesCalm, LoansCalm DEF Places, Aged
<1>6. CASE jwts' = jwts
  BY <1>0, <1>3, <1>4, <1>5, <1>6, AccessesCalm DEF Places, Aged
<1>7. CASE jwts' # jwts
  <2>1. PICK j : j = JwtOf(req[p])
    OBVIOUS
  <2>2. j.id = q.a /\ jwts' = jwts \union {j} /\ BearsAccess(req[p], q.a)
    BY <1>0, <1>7, <1>q, <2>1 DEF RespondToken, JwtOf, BearsAccess
  <2>p. AccessPlaces
    BY <1>0 DEF Places
  <2>3. \A o \in Requests \ {p} : ~BearsAccess(req[o], q.a)
    BY <1>0, <2>2, <2>p DEF AccessPlaces
  <2>4. \A x : ~BearsAccess(req'[p], x)
    BY <1>2 DEF BearsAccess, Idle
  <2>5. \A o \in Requests, m \in access' \union jwts' : ~BearsAccess(req'[o], m.id)
    BY <1>2, <1>3, <2>2, <2>3, <2>4, <2>p DEF AccessPlaces
  <2>6. \A m, o \in Requests, x \in Accesses :
           BearsAccess(req'[m], x) /\ BearsAccess(req'[o], x) => m = o
    BY <1>2, <2>4, <2>p DEF AccessPlaces
  <2>7. Unique(access')
    BY <1>3, <2>p DEF AccessPlaces
  <2>8. AccessPlaces'
    BY <2>5, <2>6, <2>7 DEF AccessPlaces, Unique, BearsAccess
  <2> QED BY <1>5, <2>8 DEF Places
<1> QED BY <1>6, <1>7

LEMMA IshareReadPlaces ==
  ASSUME IInv, PInv, NEW p \in Requests, NEW a \in Fresh(Accesses), NEW n \in Request,
         NEW x, Become(p, n), n.pc = "ishareStore", n.a = a,
         writes' = writes \union {Invalidate(x)}, UNCHANGED tables
  PROVE  Places'
<1>0. TypeOK /\ Places /\ a \in Accesses /\ a \in Ids /\ ledger[a].client = None
  BY DEF IInv, PInv, Fresh, Ids
<1>2. req'[p] = n /\ \A o \in Requests \ {p} : req'[o] = req[o]
  BY OnlyOne
<1>3. UNCHANGED <<codes, refresh, access, jwts>> /\ Sent' = Sent
  <2>1. Invalidate(x).op # "refresh"
    BY DEF Invalidate
  <2>2. Sent' = Sent
    BY <2>1, SentTogether
  <2> QED BY <2>2 DEF tables
<1>4. FewerRefreshes /\ FewerLoans
  BY <1>2 DEF FewerRefreshes, FewerLoans, BearsRefresh, Lends
<1>5. CodePlaces' /\ RefreshPlaces' /\ Loans'
  BY <1>0, <1>3, <1>4, CodesCalm, RefreshesCalm, LoansCalm DEF Places, Aged
<1>6. AccessPlaces'
  <2>1. \A y \in Accesses : BearsAccess(req'[p], y) => y = a
    BY <1>2 DEF BearsAccess
  <2>2. /\ \A o \in Requests : ~BearsAccess(req[o], a)
        /\ \A row \in access \union jwts : row.id # a
    BY <1>0, UndrawnNowhere DEF PInv
  <2>3. \A row \in access \union jwts : row.id \in Accesses
    BY <1>0 DEF TypeOK, AccessRow, Jwt
  <2>4. \A o \in Requests, row \in access \union jwts : ~BearsAccess(req'[o], row.id)
    BY <1>0, <1>2, <2>1, <2>2, <2>3 DEF Places, AccessPlaces
  <2>5. \A m, o \in Requests, y \in Accesses :
           BearsAccess(req'[m], y) /\ BearsAccess(req'[o], y) => m = o
    BY <1>0, <1>2, <2>1, <2>2 DEF Places, AccessPlaces
  <2>6. Unique(access)
    BY <1>0 DEF Places, AccessPlaces
  <2> QED BY <1>3, <2>4, <2>5, <2>6 DEF AccessPlaces, Unique, BearsAccess
<1> QED BY <1>5, <1>6 DEF Places

\* A refresh token goes from the statement that was sent to its row.
LEMMA ExecuteRefreshPlaces ==
  ASSUME IInv, PInv, NEW w \in writes, ExecuteRefresh(w), UNCHANGED req,
         refresh' = refresh \union {w.row}, writes' = writes \ {w}
  PROVE  Places'
<1>0. TypeOK /\ Places /\ w.op = "refresh" /\ w.row \in Sent
  BY DEF IInv, PInv, ExecuteRefresh, Sent
<1>1. FewerRefreshes /\ FewerAccesses /\ FewerLoans
  BY DEF FewerRefreshes, FewerAccesses, FewerLoans
<1>2. CodePlaces' /\ AccessPlaces' /\ Loans'
  BY <1>0, <1>1, CodesCalm, AccessesCalm, LoansCalm DEF Places, Aged, ExecuteRefresh
<1>3. \A v \in writes : v.op = "refresh" /\ v.row = w.row => v = w
  BY <1>0 DEF TypeOK, RefreshWrite, ConsentWrite, InvalidateWrite
<1>4. Sent' = Sent \ {w.row}
  BY <1>0, <1>3 DEF Sent
<1>5. RefreshPlaces'
  <2>p. RefreshPlaces
    BY <1>0 DEF Places
  <2>1. PICK row : row = w.row
    OBVIOUS
  <2>2. \A o \in refresh : o.id # row.id
    BY <1>0, <2>1, <2>p DEF RefreshPlaces
  <2>3. Unique(refresh') /\ Unique(Sent')
    BY <1>4, <2>1, <2>2, <2>p, UniqueInsert DEF RefreshPlaces, Unique
  <2>4. \A a \in refresh', b \in Sent' : a.id # b.id
    BY <1>0, <1>4, <2>1, <2>p DEF RefreshPlaces, Unique
  <2>5. \A o \in Requests, m \in refresh' \union Sent' : ~BearsRefresh(req'[o], m.id)
    BY <1>0, <1>4, <2>1, <2>p DEF RefreshPlaces
  <2>6. \A m, o \in Requests, x \in Refreshes :
           BearsRefresh(req'[m], x) /\ BearsRefresh(req'[o], x) => m = o
    BY <2>p DEF RefreshPlaces
  <2> QED BY <2>3, <2>4, <2>5, <2>6 DEF RefreshPlaces, Unique, BearsRefresh
<1> QED BY <1>2, <1>5 DEF Places

(***************************************************************************)
(* Every step keeps every value at one place.                              *)
(***************************************************************************)
LEMMA CalmTurn ==
  ASSUME IInv, NEW p \in Requests, NEW n, Become(p, n), Lighter(req[p], n)
  PROVE  CalmRequests
<1>1. \A q : Lighter(q, q)
  BY DEF Lighter
<1> QED BY <1>1, OnlyOne DEF CalmRequests

LEMMA CalmFinish ==
  ASSUME IInv, NEW p \in Requests, Finish(p)
  PROVE  CalmRequests
<1>1. Lighter(req[p], Idle)
  BY DEF Lighter, Idle, Storing
<1> QED BY <1>1, CalmTurn DEF Finish

LEMMA OrphanedSent ==
  ASSUME IInv, NEW p \in Requests, writes' = Orphaned(p)
  PROVE  Sent' \subseteq Sent
<1>1. \A w \in writes' : w \in writes \/ w.op # "refresh"
  BY OrphanedKeeps DEF IInv, TypeOK, Writes
<1> QED BY <1>1 DEF Sent

LEMMA RejectCalm ==
  ASSUME IInv, NEW p \in Requests, Reject(p), UNCHANGED <<codes, refresh, access, jwts>>
  PROVE  CalmRequests /\ CalmTables
  BY CalmFinish, OrphanedSent, AgedSame DEF Reject, CalmTables

LEMMA DieCalm ==
  ASSUME Die, UNCHANGED <<codes, refresh, access, jwts>>
  PROVE  CalmRequests /\ CalmTables
<1>1. CalmRequests
  BY DEF Die, CalmRequests, Lighter, Idle, Storing
<1>2. Sent' = {}
  BY DEF Die, Sent
<1> QED BY <1>1, <1>2, AgedSame DEF CalmTables

LEMMA SamePlaces ==
  ASSUME IInv, Places, NEW p \in Requests, NEW n, Become(p, n), n.pc \notin Storing,
         UNCHANGED <<codes, refresh, access, jwts>>, Sent' \subseteq Sent
  PROVE  Places'
<1>1. CalmRequests
  BY CalmTurn DEF Lighter
<1> QED BY <1>1, CalmKeeps, AgedSame DEF CalmTables, IInv

LEMMA PreludePlaces ==
  ASSUME IInv, PInv, NEW p \in Requests, Prelude(p)
  PROVE  Places'
<1>0. Places /\ TypeOK /\ AllSeeded
  BY DEF PInv, IInv
<1>1. PICK n \in Request : Become(p, n) /\ n.pc \notin Storing
  BY <1>0, PreludeTurn DEF Turn
<1>2. Sent' = Sent
  <2>1. \A x : Invalidate(x).op # "refresh"
    BY DEF Invalidate
  <2>2. writes \subseteq writes' /\ \A w \in writes' : w \in writes \/ w.op # "refresh"
    <3>1. CASE RevokeAuthorizationCode(p)
      BY <2>1, <3>1 DEF RevokeAuthorizationCode
    <3>2. CASE RevokeRefreshToken(p) \/ RevokeAccessToken(p)
      <4>1. writes' = writes \/ \E x : writes' = writes \union {Invalidate(x)}
        BY <3>2 DEF RevokeRefreshToken, RevokeAccessToken
      <4> QED BY <2>1, <4>1
    <3> QED BY <3>1, <3>2 DEF Prelude, CheckUserAuthorizedApplication, EnableApp,
            SaveAuthorizationCode, GetAuthorizationCode, GetRefreshToken, GetIdentity
  <2> QED BY <2>2, SentTogether
<1>3. CASE ~SaveAuthorizationCode(p)
  <2>1. UNCHANGED <<codes, refresh, access, jwts>>
    BY <1>3 DEF Prelude, CheckUserAuthorizedApplication, EnableApp, GetAuthorizationCode,
       GetRefreshToken, GetIdentity, RevokeAuthorizationCode, RevokeRefreshToken,
       RevokeAccessToken, tables
  <2> QED BY <1>0, <1>1, <1>2, <2>1, SamePlaces
<1>4. CASE SaveAuthorizationCode(p)
  <2>1. CASE UNCHANGED codes
    BY <1>0, <1>1, <1>2, <1>4, <2>1, SamePlaces DEF SaveAuthorizationCode
  <2>2. CASE \E k \in Fresh(Codes) : codes' = codes \union {CodeRowOf(p, k)}
    <3>1. PICK k \in Fresh(Codes) : codes' = codes \union {CodeRowOf(p, k)}
      BY <2>2
    <3>2. k \in Ids /\ ledger[k].client = None
      BY DEF Fresh, Ids
    <3>3. \A row \in codes : row.id # k
      BY <3>2, UndrawnNowhere DEF PInv
    <3>4. Unique(codes')
      BY <1>0, <3>1, <3>3, UniqueInsert DEF Places, CodePlaces, CodeRowOf
    <3>5. CalmRequests /\ UNCHANGED <<refresh, access, jwts>>
      BY <1>1, <1>4, CalmTurn DEF Lighter, SaveAuthorizationCode
    <3>6. RefreshPlaces' /\ AccessPlaces' /\ Loans'
      BY <1>0, <1>2, <3>5, CalmFewer, RefreshesCalm, AccessesCalm, LoansCalm DEF Places, Aged
    <3> QED BY <3>4, <3>6 DEF Places, CodePlaces, Unique
  <2> QED BY <1>4, <2>1, <2>2 DEF SaveAuthorizationCode
<1> QED BY <1>3, <1>4

LEMMA HandlePlaces ==
  ASSUME IInv, PInv, NEW p \in Requests, Handle(p)
  PROVE  Places'
<1>0. TypeOK /\ Places
  BY DEF IInv, PInv
<1>1. CASE Prelude(p)
  BY <1>1, PreludePlaces
<1>2. CASE SaveToken(p) \/ GenerateJwtToken(p) \/ RespondToken(p)
  BY <1>2, SaveTokenPlaces, GenerateJwtPlaces, RespondPlaces
<1>3. CASE StoreRefresh(p)
  <2>1. CASE Reject(p) /\ UNCHANGED refresh
    BY <1>0, <1>3, <2>1, RejectCalm, CalmKeeps DEF StoreRefresh
  <2> QED BY <1>3, <2>1, StoreRefreshPlaces DEF StoreRefresh
<1>4. CASE StoreAccess(p)
  <2>1. CASE Reject(p) /\ UNCHANGED access
    BY <1>0, <1>4, <2>1, RejectCalm, CalmKeeps DEF StoreAccess
  <2>2. "jwt" \notin req[p].form
    BY <1>4 DEF StoreAccess, At, PInv, AllSeeded, Seeded
  <2> QED BY <1>4, <2>1, <2>2, StoreAccessPlaces DEF StoreAccess
<1>5. CASE IshareReadCode(p)
  <2>0. UNCHANGED tables
    BY <1>5 DEF IshareReadCode
  <2>1. CASE Finish(p) /\ UNCHANGED <<writes, ledger>>
    <3>1. CalmRequests /\ UNCHANGED <<codes, refresh, access, jwts>> /\ Sent' = Sent
      BY <2>0, <2>1, CalmFinish DEF tables, Sent
    <3> QED BY <1>0, <3>1, AgedSame, CalmKeeps DEF CalmTables
  <2>2. ASSUME NEW row \in ValidCode(p), NEW a \in Fresh(Accesses), NEW n \in Request,
               n = [req[p] EXCEPT !.pc = "ishareStore", !.a = a, !.user = row.user],
               Become(p, n), writes' = writes \union {Invalidate(row.id)}
        PROVE  Places'
    <3>1. n.pc = "ishareStore" /\ n.a = a
      BY <1>0, <2>2 DEF TypeOK, Request
    <3> QED BY <2>0, <2>2, <3>1, IshareReadPlaces
  <2> QED BY <1>5, <2>1, <2>2, IshareReadDraws
<1>6. CASE IshareStoreToken(p)
  <2>1. CASE Die /\ UNCHANGED access
    BY <1>0, <1>6, <2>1, DieCalm, CalmKeeps DEF IshareStoreToken
  <2> QED BY <1>6, <2>1, IshareStorePlaces DEF IshareStoreToken
<1> QED BY <1>1, <1>2, <1>3, <1>4, <1>5, <1>6 DEF Handle, Prelude

LEMMA ExecutePlaces ==
  ASSUME IInv, PInv, NEW w \in writes,
         ExecuteInvalidate(w) \/ ExecuteRefresh(w) \/ ExecuteConsent(w)
  PROVE  Places'
<1>0. TypeOK /\ Places
  BY DEF IInv, PInv
<1>i. \A q : Lighter(q, q)
  BY DEF Lighter
<1>1. CASE ExecuteInvalidate(w)
  <2>1. CalmRequests
    BY <1>1, <1>i DEF CalmRequests, ExecuteInvalidate
  <2>2. CalmTables
    BY <1>1 DEF CalmTables, Aged, Sent, ExecuteInvalidate
  <2> QED BY <1>0, <2>1, <2>2, CalmKeeps
<1>2. CASE ExecuteRefresh(w)
  <2>1. CASE Die /\ UNCHANGED refresh
    BY <1>0, <1>2, <2>1, DieCalm, CalmKeeps DEF ExecuteRefresh
  <2> QED BY <1>2, <2>1, ExecuteRefreshPlaces DEF ExecuteRefresh
<1>3. CASE ExecuteConsent(w)
  <2>0. UNCHANGED <<codes, refresh, access, jwts>>
    BY <1>3 DEF ExecuteConsent
  <2>1. CASE Die
    BY <1>0, <2>0, <2>1, DieCalm, CalmKeeps
  <2>2. CASE writes' = writes \ {w}
    <3>1. CalmTables
      BY <2>0, <2>2, AgedSame DEF CalmTables, Sent
    <3>2. CalmRequests
      <4>1. CASE req' = req
        BY <1>i, <4>1 DEF CalmRequests
      <4>2. CASE w.by # None /\ Become(w.by, [req[w.by] EXCEPT !.failed = TRUE])
        <5>1. w.by \in Requests
          BY <1>0, <1>3, <4>2 DEF ExecuteConsent, TypeOK, ConsentWrite, RefreshWrite,
             InvalidateWrite, OrNone
        <5>2. Lighter(req[w.by], [req[w.by] EXCEPT !.failed = TRUE])
          BY <1>0, <5>1 DEF TypeOK, Request, Lighter
        <5> QED BY <4>2, <5>1, <5>2, CalmTurn
      <4>3. CASE Die
        BY <2>0, <4>3, DieCalm
      <4> QED BY <1>3, <4>1, <4>2, <4>3 DEF ExecuteConsent
    <3> QED BY <1>0, <3>1, <3>2, CalmKeeps
  <2> QED BY <1>3, <2>1, <2>2 DEF ExecuteConsent
<1> QED BY <1>1, <1>2, <1>3

LEMMA EnvironmentPlaces ==
  ASSUME IInv, PInv, Environment
  PROVE  Places'
<1>0. TypeOK /\ Places
  BY DEF IInv, PInv
<1>1. CASE /\ codes' \subseteq codes /\ refresh' \subseteq refresh
           /\ access' \subseteq access /\ UNCHANGED <<writes, req, jwts>>
  <2>1. CalmRequests
    BY <1>1 DEF CalmRequests, Lighter
  <2>2. CalmTables
    BY <1>1 DEF CalmTables, Aged, Sent
  <2> QED BY <1>0, <2>1, <2>2, CalmKeeps
<1>2. ASSUME NEW u \in users, DeleteUser(u) PROVE Places'
  BY <1>1, <1>2 DEF DeleteUser, Cascade, history
<1>3. ASSUME NEW c \in clients, DeleteClient(c) PROVE Places'
  BY <1>1, <1>3 DEF DeleteClient, Cascade, history
<1>4. ASSUME NEW pair \in consent, DeleteThirdPartyApplication(pair) PROVE Places'
  BY <1>1, <1>4 DEF DeleteThirdPartyApplication
<1>5. CASE ProcessDies
  BY <1>0, <1>5, DieCalm, CalmKeeps DEF ProcessDies, tables, history
<1>6. ASSUME NEW p \in Requests, StatementFails(p) PROVE Places'
  BY <1>0, <1>6, DieCalm, RejectCalm, CalmKeeps DEF StatementFails, tables, history
<1> QED BY <1>2, <1>3, <1>4, <1>5, <1>6 DEF Environment

LEMMA NextPlaces ==
  ASSUME IInv, PInv, [Next]_vars
  PROVE  Places'
<1>0. TypeOK /\ Places /\ AllSeeded
  BY DEF IInv, PInv
<1>1. ASSUME NEW p \in Requests, Arrive(p) PROVE Places'
  <2>1. PICK n \in Request : Become(p, n) /\ n.pc \notin Storing
    BY <1>1, ArriveTurn DEF Turn
  <2>2. UNCHANGED <<tables, writes>>
    BY <1>0, <1>1, ArriveStep
  <2>3. UNCHANGED <<codes, refresh, access, jwts>> /\ Sent' = Sent
    BY <2>2 DEF tables, Sent
  <2> QED BY <1>0, <2>1, <2>3, SamePlaces
<1>2. ASSUME NEW p \in Requests, Handle(p) PROVE Places'
  BY <1>2, HandlePlaces
<1>3. CASE Execute
  BY <1>3, ExecutePlaces DEF Execute
<1>4. CASE Environment
  BY <1>4, EnvironmentPlaces
<1>5. CASE UNCHANGED vars
  <2>1. CalmRequests
    BY <1>5 DEF CalmRequests, Lighter, vars
  <2>2. CalmTables
    BY <1>5, AgedSame DEF CalmTables, Sent, vars, tables
  <2> QED BY <1>0, <2>1, <2>2, CalmKeeps
<1> QED BY <1>1, <1>2, <1>3, <1>4, <1>5 DEF Next

LEMMA NextKnown ==
  ASSUME IInv, PInv, [Next]_vars
  PROVE  Known'
<1>0. TypeOK /\ HeldIsDrawn
  BY DEF IInv, PInv, Known, HeldIsDrawn
<1>1. LedgerGrows /\ HeldIsDrawn'
  BY <1>0, NextGrows
<1>2. ASSUME NEW p \in Requests, req[p].pc \in Storing
      PROVE  /\ req[p].a \in Ids /\ ledger[req[p].a].client # None
             /\ req[p].r # None => req[p].r \in Ids /\ ledger[req[p].r].client # None
  <2>1. /\ req[p].client \in Clients /\ req[p].a \in Accesses
        /\ ledger[req[p].a].client = req[p].client
        /\ req[p].r # None => ledger[req[p].r].client = req[p].client
    BY <1>2 DEF IInv, ReqOK, Ownership, WellFormed, Entitled, Owns, Storing
  <2>2. req[p].r \in OrNone(Refreshes)
    BY <1>0 DEF TypeOK, Request
  <2> QED BY <2>1, <2>2, NoneAssumption DEF Ids, OrNone
<1>3. \A j \in jwts' : j \in jwts \/ \E p \in Requests : req[p].pc \in Storing /\ j.id = req[p].a
  <2>1. ASSUME NEW p \in Requests, RespondToken(p), NEW j \in jwts'
        PROVE  j \in jwts \/ (req[p].pc \in Storing /\ j.id = req[p].a)
    BY <2>1 DEF RespondToken, At, Storing, JwtOf
  <2>2. ASSUME NEW p \in Requests, Arrive(p) PROVE jwts' = jwts
    BY <1>0, <2>2, ArriveStep DEF tables
  <2>3. ASSUME NEW p \in Requests, Handle(p), ~RespondToken(p) PROVE jwts' = jwts
    BY <2>3 DEF Handle, CheckUserAuthorizedApplication, EnableApp, SaveAuthorizationCode,
       GetAuthorizationCode, GetRefreshToken, GetIdentity, RevokeAuthorizationCode,
       RevokeRefreshToken, RevokeAccessToken, SaveToken, GenerateJwtToken, StoreRefresh,
       StoreAccess, IshareReadCode, IshareStoreToken, tables
  <2>4. Execute \/ Environment \/ UNCHANGED vars => jwts' = jwts
    BY DEF Execute, ExecuteInvalidate, ExecuteRefresh, ExecuteConsent, Environment,
       DeleteUser, DeleteClient, DeleteThirdPartyApplication, ProcessDies,
       StatementFails, tables, vars
  <2> QED BY <2>1, <2>2, <2>3, <2>4 DEF Next
<1>4. \A row \in access' : row.refresh # None =>
         \/ \E o \in access : o.refresh = row.refresh
         \/ \E p \in Requests : req[p].pc \in Storing /\ row.refresh = req[p].r
  <2>0. access \subseteq AccessRow
    BY <1>0 DEF TypeOK
  <2>1. ASSUME NEW p \in Requests, StoreAccess(p) \/ IshareStoreToken(p), NEW row \in access'
        PROVE  row \in access \/ (req[p].pc \in Storing /\ row.refresh = req[p].r)
    BY <2>1 DEF StoreAccess, IshareStoreToken, At, Storing, AccessRowOf
  <2>2. ASSUME NEW p \in Requests, Arrive(p) PROVE access' = access
    BY <1>0, <2>2, ArriveStep DEF tables
  <2>3. ASSUME NEW p \in Requests, Handle(p), ~StoreAccess(p), ~IshareStoreToken(p)
        PROVE  access' = access
    BY <2>3 DEF Handle, CheckUserAuthorizedApplication, EnableApp, SaveAuthorizationCode,
       GetAuthorizationCode, GetRefreshToken, GetIdentity, RevokeAuthorizationCode,
       RevokeRefreshToken, RevokeAccessToken, SaveToken, GenerateJwtToken, StoreRefresh,
       RespondToken, IshareReadCode, tables
  <2>4. ASSUME NEW w \in writes, ExecuteInvalidate(w) PROVE Aged(access, access')
    BY <2>4 DEF ExecuteInvalidate, Aged
  <2>5. Environment => access' \subseteq access
    BY DEF Environment, DeleteUser, DeleteClient, Cascade, DeleteThirdPartyApplication,
       ProcessDies, StatementFails, tables
  <2>6. ASSUME NEW w \in writes, ExecuteRefresh(w) \/ ExecuteConsent(w)
        PROVE  access' = access
    BY <2>6 DEF ExecuteRefresh, ExecuteConsent
  <2>7. Aged(access, access') => \A row \in access' : \E o \in access : o.refresh = row.refresh
    BY <2>0, AgedRows
  <2>8. access' \subseteq access => Aged(access, access')
    BY DEF Aged
  <2>9. UNCHANGED vars => access' = access
    BY DEF vars, tables
  <2> QED BY <2>1, <2>2, <2>3, <2>4, <2>5, <2>6, <2>7, <2>8, <2>9 DEF Next, Execute
<1>5. \A j \in jwts' : ledger'[j.id].client # None
  <2>1. \A j \in jwts : j.id \in Ids /\ ledger[j.id].client # None
    BY <1>0 DEF TypeOK, Jwt, Ids, PInv, Known
  <2> QED BY <1>1, <1>2, <1>3, <2>1 DEF LedgerGrows
<1>6. \A row \in access' : row.refresh # None => ledger'[row.refresh].client # None
  <2>1. \A row \in access : row.refresh # None =>
           row.refresh \in Ids /\ ledger[row.refresh].client # None
    BY <1>0 DEF TypeOK, AccessRow, OrNone, Ids, PInv, Known
  <2> QED BY <1>1, <1>2, <1>4, <2>1 DEF LedgerGrows
<1> QED BY <1>1, <1>5, <1>6 DEF Known, HeldIsDrawn

LEMMA InitPlaced == Init => PInv
<1> SUFFICES ASSUME Init PROVE PInv
  OBVIOUS
<1>1. \A p \in Requests : req[p] = Idle
  BY DEF Init
<1>2. AllSeeded
  BY <1>1 DEF AllSeeded, Seeded, Idle, Storing
<1>3. Known
  BY DEF Init, Known, Unused
<1>4. Sent = {}
  BY DEF Init, Sent
<1>5. Places
  BY <1>1, <1>4 DEF Init, Places, CodePlaces, RefreshPlaces, AccessPlaces, Loans, Unique,
     OneAccessPerRefresh, BearsRefresh, BearsAccess, Lends, Idle
<1> QED BY <1>2, <1>3, <1>5 DEF PInv

LEMMA NextPlaced == IInv /\ PInv /\ [Next]_vars => PInv'
<1> SUFFICES ASSUME IInv, PInv, [Next]_vars PROVE PInv'
  OBVIOUS
<1>1. AllSeeded /\ HeldIsDrawn
  BY DEF PInv, Known, HeldIsDrawn
<1> QED BY <1>1, NextSeeded, NextKnown, NextPlaces DEF PInv

(***************************************************************************)
(* The theorems.                                                           *)
(***************************************************************************)
\* A drawn value is kept at one place at a time, from the request that drew it to the row
\* or the signed token it becomes, although a request hands its refresh token to an insert
\* that nobody awaits (saveToken, generateJwtToken, storeToken, _token).
THEOREM OnePlace == Spec => [](IInv /\ PInv)
<1>1. Init => IInv /\ PInv
  BY InitKeeps, InitPlaced
<1>2. IInv /\ PInv /\ [Next]_vars => (IInv /\ PInv)'
  BY NextKeeps, NextPlaced
<1> QED BY <1>1, <1>2, PTL DEF Spec

\* A refresh token has at most one access token, with any number of refreshes, redemptions
\* and replays at a time: what the single findOne of revokeAccessToken relies on.
THEOREM RefreshHasOneAccess == Spec => []OneAccessPerRefresh
<1>1. PInv => OneAccessPerRefresh
  BY DEF PInv, Places, Loans
<1> QED BY <1>1, OnePlace, PTL

(***************************************************************************)
(* A spent grant buys nothing.                                             *)
(***************************************************************************)
LEMMA StoringHopes ==
  ASSUME NEW q, NEW n, n.pc \in Storing \union {"idle"}
  PROVE  Hopes(q, n)
  BY DEF Hopes, Redeems, Storing

\* Past the check of a grant come only requests that were past it, and requests that read
\* the grant's row valid in this step.
LEMMA NextHopes ==
  ASSUME IInv, AllSeeded, [Next]_vars
  PROVE  \A p \in Requests : Hopes(req[p], req'[p])
<1>i. \A q : Hopes(q, q)
  BY DEF Hopes
<1>1. ASSUME NEW p \in Requests, NEW n, Become(p, n), Hopes(req[p], n)
      PROVE  \A o \in Requests : Hopes(req[o], req'[o])
  BY <1>1, <1>i, OnlyOne
<1>2. CASE Die
  <2>1. \A p \in Requests : req'[p].pc = "idle"
    BY <1>2 DEF Die, Idle
  <2> QED BY <2>1, StoringHopes
<1>3. ASSUME NEW p \in Requests, Finish(p)
      PROVE  \A o \in Requests : Hopes(req[o], req'[o])
  BY <1>1, <1>3, IdleTurn DEF Finish
<1>4. CASE req' = req
  BY <1>4, <1>i
<1>5. ASSUME NEW p \in Requests, Arrive(p)
      PROVE  \A o \in Requests : Hopes(req[o], req'[o])
  BY <1>1, <1>5, ArriveTurn DEF Turn
<1>6. ASSUME NEW p \in Requests, Handle(p)
      PROVE  \A o \in Requests : Hopes(req[o], req'[o])
  <2>0. req[p] \in Request
    BY DEF IInv, TypeOK
  <2>1. CASE Prelude(p)
    BY <1>1, <2>1, PreludeTurn DEF Turn
  <2>2. CASE SaveToken(p)
    <3>1. PICK a \in Fresh(Accesses), r \in OrNone(Fresh(Refreshes)), n \in Request :
             /\ n = [req[p] EXCEPT !.a = a, !.r = r,
                                   !.pc = IF "jwt" \in req[p].form THEN "jwt"
                                          ELSE IF r # None THEN "storeRefresh"
                                          ELSE "storeAccess"]
             /\ Become(p, n)
      BY <2>2, SaveTokenDraws
    <3>2. n.pc \in Storing
      BY <2>0, <3>1 DEF Request, Storing
    <3> QED BY <1>1, <3>1, <3>2, StoringHopes
  <2>3. ASSUME NEW pc \in Storing, Goto(p, pc)
        PROVE  \A o \in Requests : Hopes(req[o], req'[o])
    <3>1. [req[p] EXCEPT !.pc = pc].pc \in Storing
      BY <2>0 DEF Request
    <3> QED BY <1>1, <2>3, <3>1, StoringHopes DEF Goto
  <2>4. CASE GenerateJwtToken(p) \/ StoreRefresh(p) \/ StoreAccess(p)
    BY <1>3, <2>3, <2>4 DEF GenerateJwtToken, StoreRefresh, StoreAccess, Reject, Storing
  <2>5. CASE RespondToken(p) \/ IshareStoreToken(p)
    BY <1>2, <1>3, <2>5 DEF RespondToken, IshareStoreToken
  <2>6. CASE IshareReadCode(p)
    <3>1. ASSUME NEW row, NEW a, NEW n \in Request, Become(p, n),
                 n = [req[p] EXCEPT !.pc = "ishareStore", !.a = a, !.user = row.user]
          PROVE  \A o \in Requests : Hopes(req[o], req'[o])
      <4>1. n.pc \in Storing
        BY <2>0, <3>1 DEF Request, Storing
      <4> QED BY <1>1, <3>1, <4>1, StoringHopes
    <3> QED BY <1>3, <2>6, <3>1, IshareReadDraws
  <2> QED BY <1>6, <2>1, <2>2, <2>4, <2>5, <2>6 DEF Handle, Prelude
<1>7. ASSUME NEW w \in writes, ExecuteInvalidate(w) \/ ExecuteRefresh(w) \/ ExecuteConsent(w)
      PROVE  \A o \in Requests : Hopes(req[o], req'[o])
  <2>1. CASE w.op = "consent" /\ w.by # None
             /\ Become(w.by, [req[w.by] EXCEPT !.failed = TRUE])
    <3>1. w.by \in Requests
      BY <2>1 DEF IInv, TypeOK, ConsentWrite, RefreshWrite, InvalidateWrite, OrNone
    <3>2. PICK q : q = req[w.by]
      OBVIOUS
    <3>3. q \in Request
      BY <3>1, <3>2 DEF IInv, TypeOK
    <3>4. Hopes(q, [q EXCEPT !.failed = TRUE])
      BY <3>3 DEF Hopes, Redeems, Request
    <3> QED BY <1>1, <2>1, <3>1, <3>2, <3>4
  <2> QED BY <1>2, <1>4, <1>7, <2>1 DEF ExecuteInvalidate, ExecuteRefresh, ExecuteConsent
<1>8. CASE Environment
  BY <1>2, <1>3, <1>4, <1>8 DEF Environment, DeleteUser, DeleteClient, Reject,
     DeleteThirdPartyApplication, ProcessDies, StatementFails
<1>9. CASE UNCHANGED vars
  BY <1>4, <1>9 DEF vars
<1> QED BY <1>5, <1>6, <1>7, <1>8, <1>9 DEF Next, Execute

\* What is bought with a grant is bought by a request past the check of the grant, or by one
\* that reads the code's row valid in this step.
LEMMA NextBuys ==
  ASSUME IInv, AllSeeded, [Next]_vars, NEW g \in Ids, NEW x \in Ids,
         ledger'[x] # ledger[x], ledger'[x].from = g, ledger[x].from # g
  PROVE  ValidIn(codes, g) \/ \E p \in Requests : Redeems(req[p], g)
<1>0. TypeOK /\ g # None
  BY NoneAssumption DEF IInv
<1>1. ASSUME NEW q, NEW xs, NEW d, ledger' = Drawn(q, xs, d)
      PROVE  q.grant = g
  BY <1>1 DEF Drawn
<1>2. ASSUME NEW xs, ledger' = Delivered(xs) PROVE FALSE
  BY <1>0, <1>2 DEF Delivered, TypeOK, Entry
<1>3. ASSUME NEW p \in Requests, Arrive(p) PROVE FALSE
  BY <1>0, <1>3, ArriveStep DEF history
<1>4. ASSUME NEW p \in Requests, Handle(p)
      PROVE  ValidIn(codes, g) \/ Redeems(req[p], g)
  <2>1. CASE SaveAuthorizationCode(p)
    <3>1. req[p].grant = None
      BY <2>1 DEF SaveAuthorizationCode, At, AllSeeded, Seeded
    <3> QED BY <1>0, <1>1, <2>1, <3>1 DEF SaveAuthorizationCode
  <2>2. CASE SaveToken(p)
    <3>1. req[p].pc = "save" /\ req[p].a = None
      BY <2>2 DEF SaveToken, At, AllSeeded, Seeded, Storing
    <3>2. req[p].grant = g
      BY <1>1, <2>2 DEF SaveToken
    <3> QED BY <3>1, <3>2 DEF Redeems
  <2>3. CASE RespondToken(p) \/ IshareStoreToken(p)
    BY <1>2, <2>3 DEF RespondToken, IshareStoreToken
  <2>4. CASE IshareReadCode(p)
    <3>1. PICK row \in ValidCode(p), a \in Fresh(Accesses), q \in Request :
             /\ q = [req[p] EXCEPT !.pc = "ishareStore", !.a = a, !.user = row.user]
             /\ ledger' = Drawn(q, {a}, FALSE)
      BY <2>4, IshareReadDraws
    <3>2. q.grant = req[p].grant
      BY <1>0, <3>1 DEF TypeOK, Request
    <3> QED BY <1>1, <3>1, <3>2 DEF ValidCode, Presented, ValidIn
  <2> QED BY <1>4, <2>1, <2>2, <2>3, <2>4 DEF Handle, CheckUserAuthorizedApplication,
          EnableApp, GetAuthorizationCode, GetRefreshToken, GetIdentity,
          RevokeAuthorizationCode, RevokeRefreshToken, RevokeAccessToken,
          GenerateJwtToken, StoreRefresh, StoreAccess, history
<1>5. Execute \/ Environment \/ UNCHANGED vars => ledger' = ledger
  BY DEF Execute, ExecuteInvalidate, ExecuteRefresh, ExecuteConsent, Environment,
     DeleteUser, DeleteClient, DeleteThirdPartyApplication, ProcessDies,
     StatementFails, history, vars
<1> QED BY <1>3, <1>4, <1>5 DEF Next

\* A grant that is invalid in the database is not valid in another row.
LEMMA SpentIsInvalid ==
  ASSUME TypeOK, Places, NEW g, Spent(g)
  PROVE  ~ValidIn(codes, g) /\ ~ValidIn(refresh, g)
<1>1. PICK row \in codes \union refresh : row.id = g /\ ~row.valid
  BY DEF Spent
<1>2. \A c \in codes, r \in refresh : c.id # r.id
  BY IdsAssumption DEF TypeOK, CodeRow, RefreshRow
<1>3. Unique(codes) /\ Unique(refresh)
  BY DEF Places, CodePlaces, RefreshPlaces
<1> QED BY <1>1, <1>2, <1>3 DEF ValidIn, Unique

SpentStaysSpent == \A g \in Codes \union Refreshes :
    Spent(g) => Redeeming(g)' = {} /\ BoughtFrom(g)' = BoughtFrom(g)

LEMMA NextSpends == IInv /\ PInv /\ [Next]_vars => SpentStaysSpent
<1> SUFFICES ASSUME IInv, PInv, [Next]_vars, NEW g \in Codes \union Refreshes, Spent(g)
             PROVE  Redeeming(g)' = {} /\ BoughtFrom(g)' = BoughtFrom(g)
  BY DEF SpentStaysSpent
<1>0. TypeOK /\ AllSeeded /\ HeldIsDrawn /\ Places /\ g \in Ids
  BY DEF IInv, PInv, Known, HeldIsDrawn, Ids
<1>1. ~ValidIn(codes, g) /\ ~ValidIn(refresh, g)
  BY <1>0, SpentIsInvalid
<1>2. \A p \in Requests : ~Redeems(req[p], g)
  BY DEF Spent, Redeeming, Redeems
<1>3. \A p \in Requests : ~Redeems(req'[p], g)
  BY <1>0, <1>1, <1>2, NextHopes DEF Hopes
<1>4. Redeeming(g)' = {}
  BY <1>3 DEF Redeeming, Redeems
<1>5. LedgerGrows
  BY <1>0, NextGrows
<1>6. ASSUME NEW x \in Ids PROVE ledger'[x].from = g <=> ledger[x].from = g
  <2>1. ledger[x].from = g => ledger[x].client # None
    BY <1>0, NoneAssumption DEF IInv, Ownership, Descent
  <2>2. ledger[x].from = g => ledger'[x].from = g
    BY <1>5, <2>1 DEF LedgerGrows
  <2>3. ledger'[x].from = g => ledger[x].from = g
    BY <1>0, <1>1, <1>2, NextBuys
  <2> QED BY <2>2, <2>3
<1>7. BoughtFrom(g)' = BoughtFrom(g)
  BY <1>6 DEF BoughtFrom
<1> QED BY <1>4, <1>7

\* Once a code or refresh token is invalid in the database and no request that read it valid
\* is in flight, it never buys a token again, through either token endpoint, although every
\* invalidation is sent and not awaited (getAuthorizationCode, getRefreshToken, _token).
THEOREM SpentGrantsBuyNothing == Spec => SpentBuysNothing
<1>1. IInv /\ PInv /\ [Next]_vars => [SpentStaysSpent]_vars
  BY NextSpends
<1> QED BY <1>1, OnePlace, PTL DEF Spec, SpentBuysNothing, SpentStaysSpent

(***************************************************************************)
(* The server implements CredentialLifecycle: every step of OAuthTokens    *)
(* issues credentials to the owner of the grant that buys them, or moves   *)
(* some on in their life, or changes nothing the life cycle speaks of.     *)
(*                                                                         *)
(* A drawn value only moves on: it comes to no request and no statement    *)
(* from nowhere, and what is honoured was honoured or on its way before.   *)
(***************************************************************************)
Drawn1(x) == ledger[x].client # None
Moves == \A x \in Ids : Drawn1(x) => /\ OnItsWay(x)' => OnItsWay(x)
                                     /\ Usable(x)' => Usable(x) \/ OnItsWay(x)

LEMMA OnItsWayIs ==
  ASSUME NEW x
  PROVE  OnItsWay(x) <=> \/ \E p \in Requests : BearsRefresh(req[p], x) \/ BearsAccess(req[p], x)
                         \/ \E row \in Sent : row.id = x
  BY DEF OnItsWay, BearsRefresh, BearsAccess, Sent

LEMMA OnItsWayThen ==
  ASSUME NEW x
  PROVE  OnItsWay(x)' <=>
            \/ \E p \in Requests : BearsRefresh(req'[p], x) \/ BearsAccess(req'[p], x)
            \/ \E row \in Sent' : row.id = x
  BY DEF OnItsWay, BearsRefresh, BearsAccess, Sent

LEMMA MoveOn ==
  ASSUME \A x \in Ids, p \in Requests : Drawn1(x) =>
            (BearsRefresh(req'[p], x) \/ BearsAccess(req'[p], x) => OnItsWay(x)),
         \A row \in Sent' : row.id \in Ids /\ Drawn1(row.id) => OnItsWay(row.id),
         \A row \in codes' \union refresh' \union access' :
            row.id \in Ids /\ Drawn1(row.id) /\ row.valid => Usable(row.id) \/ OnItsWay(row.id),
         \A j \in jwts' : j.id \in Ids /\ Drawn1(j.id) => Usable(j.id) \/ OnItsWay(j.id)
  PROVE  Moves
<1> SUFFICES ASSUME NEW x \in Ids, Drawn1(x)
             PROVE  /\ OnItsWay(x)' => OnItsWay(x)
                    /\ Usable(x)' => Usable(x) \/ OnItsWay(x)
  BY DEF Moves
<1>1. OnItsWay(x)' => OnItsWay(x)
  BY OnItsWayThen
<1>2. Usable(x)' => \/ \E row \in codes' \union refresh' \union access' : row.id = x /\ row.valid
                    \/ \E j \in jwts' : j.id = x
  BY DEF Usable
<1> QED BY <1>1, <1>2

\* What is where it was is usable, or on its way, as it was.
LEMMA WasThere ==
  ASSUME TypeOK
  PROVE  /\ \A x : \A p \in Requests : BearsRefresh(req[p], x) \/ BearsAccess(req[p], x) => OnItsWay(x)
         /\ \A row \in Sent : OnItsWay(row.id)
         /\ \A row \in codes \union refresh \union access : row.valid => Usable(row.id)
         /\ \A j \in jwts : Usable(j.id)
  BY OnItsWayIs DEF Usable

LEMMA AgedUsable ==
  ASSUME TypeOK, Aged(codes, codes'), Aged(refresh, refresh'), Aged(access, access')
  PROVE  \A row \in codes' \union refresh' \union access' : row.valid => Usable(row.id)
<1>1. \A row \in codes' : \E o \in codes : row.id = o.id /\ (row.valid => o.valid)
  BY AgedRows DEF TypeOK
<1>2. \A row \in refresh' : \E o \in refresh : row.id = o.id /\ (row.valid => o.valid)
  BY AgedRows DEF TypeOK
<1>3. \A row \in access' : \E o \in access : row.id = o.id /\ (row.valid => o.valid)
  BY AgedRows DEF TypeOK
<1> QED BY <1>1, <1>2, <1>3 DEF Usable

LEMMA CalmMoves ==
  ASSUME TypeOK, CalmRequests, CalmTables
  PROVE  Moves
<1>1. \A x : \A p \in Requests : BearsRefresh(req'[p], x) \/ BearsAccess(req'[p], x) => OnItsWay(x)
  BY LighterBears, WasThere DEF CalmRequests
<1>2. \A row \in Sent' : OnItsWay(row.id)
  BY WasThere DEF CalmTables
<1>3. \A row \in codes' \union refresh' \union access' : row.valid => Usable(row.id)
  BY AgedUsable DEF CalmTables
<1>4. \A j \in jwts' : Usable(j.id)
  BY WasThere DEF CalmTables
<1> QED BY <1>1, <1>2, <1>3, <1>4, MoveOn

\* A request that goes on, and at most one row or token that was on its way arrives.
LEMMA StepMoves ==
  ASSUME IInv, NEW p \in Requests, NEW n, Become(p, n),
         \A x \in Ids : Drawn1(x) /\ (BearsRefresh(n, x) \/ BearsAccess(n, x)) => OnItsWay(x),
         \A row \in Sent' : row \in Sent \/ OnItsWay(row.id),
         \A row \in codes' \union refresh' \union access' :
            \/ row \in codes \union refresh \union access
            \/ OnItsWay(row.id) \/ (row.id \in Ids /\ ~Drawn1(row.id)),
         \A j \in jwts' : j \in jwts \/ OnItsWay(j.id)
  PROVE  Moves
<1>0. TypeOK
  BY DEF IInv
<1>1. \A x \in Ids, o \in Requests : Drawn1(x) =>
         (BearsRefresh(req'[o], x) \/ BearsAccess(req'[o], x) => OnItsWay(x))
  BY <1>0, OnlyOne, WasThere
<1>2. /\ \A row \in Sent' : OnItsWay(row.id)
      /\ \A row \in codes' \union refresh' \union access' :
            Drawn1(row.id) /\ row.valid => Usable(row.id) \/ OnItsWay(row.id) \/ row.id \notin Ids
      /\ \A j \in jwts' : Usable(j.id) \/ OnItsWay(j.id)
  BY <1>0, WasThere
<1> QED BY <1>1, <1>2, MoveOn

LEMMA HandleMoves ==
  ASSUME IInv, PInv, NEW p \in Requests, Handle(p)
  PROVE  Moves
<1>q. PICK q : q = req[p]
  OBVIOUS
<1>0. TypeOK /\ AllSeeded /\ q \in Request /\ WellFormed(q)
  BY <1>q DEF IInv, PInv, TypeOK, ReqOK
<1>w. /\ \A x : BearsRefresh(q, x) \/ BearsAccess(q, x) => OnItsWay(x)
      /\ \A x \in Fresh(Ids) : ~Drawn1(x)
  BY <1>0, <1>q, WasThere DEF Fresh, Drawn1
<1>i. \A x : ~BearsRefresh(Idle, x) /\ ~BearsAccess(Idle, x)
  BY DEF BearsRefresh, BearsAccess, Idle
<1>1. CASE Prelude(p)
  <2>1. PICK n \in Request : Become(p, n) /\ n.pc \notin Storing
    BY <1>0, <1>1, PreludeTurn DEF Turn
  <2>2. \A w \in writes' : w \in writes \/ w.op # "refresh"
    <3>1. \A x : Invalidate(x).op # "refresh"
      BY DEF Invalidate
    <3>2. CASE RevokeAuthorizationCode(p)
      BY <3>1, <3>2 DEF RevokeAuthorizationCode
    <3>3. CASE RevokeRefreshToken(p) \/ RevokeAccessToken(p)
      <4>1. writes' = writes \/ \E x : writes' = writes \union {Invalidate(x)}
        BY <3>3 DEF RevokeRefreshToken, RevokeAccessToken
      <4> QED BY <3>1, <4>1
    <3> QED BY <1>1, <3>2, <3>3 DEF Prelude, CheckUserAuthorizedApplication, EnableApp,
            SaveAuthorizationCode, GetAuthorizationCode, GetRefreshToken, GetIdentity
  <2>3. Sent' \subseteq Sent
    BY <2>2 DEF Sent
  <2>4. \A x : ~BearsRefresh(n, x) /\ ~BearsAccess(n, x)
    BY <2>1 DEF BearsRefresh, BearsAccess, Storing
  <2>5. UNCHANGED <<refresh, access, jwts>>
        /\ (codes' = codes \/ SaveAuthorizationCode(p))
    BY <1>1 DEF Prelude, CheckUserAuthorizedApplication, EnableApp, SaveAuthorizationCode,
       GetAuthorizationCode, GetRefreshToken, GetIdentity, RevokeAuthorizationCode,
       RevokeRefreshToken, RevokeAccessToken, tables
  <2>6. \A row \in codes' : row \in codes \/ (row.id \in Ids /\ ~Drawn1(row.id))
    <3>1. ASSUME NEW k \in Fresh(Codes)
          PROVE  CodeRowOf(p, k).id \in Ids /\ ~Drawn1(CodeRowOf(p, k).id)
      BY DEF CodeRowOf, Fresh, Drawn1, Ids
    <3> QED BY <2>5, <3>1 DEF SaveAuthorizationCode
  <2> QED BY <2>1, <2>3, <2>4, <2>5, <2>6, StepMoves
<1>2. CASE SaveToken(p)
  <2>1. PICK a \in Fresh(Accesses), r \in OrNone(Fresh(Refreshes)), n \in Request :
           /\ n = [req[p] EXCEPT !.a = a, !.r = r,
                                 !.pc = IF "jwt" \in req[p].form THEN "jwt"
                                        ELSE IF r # None THEN "storeRefresh"
                                        ELSE "storeAccess"]
           /\ Become(p, n)
    BY <1>2, SaveTokenDraws
  <2>2. n.a = a /\ n.r = r
    BY <1>0, <1>q, <2>1 DEF Request
  <2>3. \A x \in Ids : BearsRefresh(n, x) \/ BearsAccess(n, x) => ~Drawn1(x)
    BY <2>2, NoneAssumption DEF BearsRefresh, BearsAccess, Fresh, OrNone, Drawn1
  <2>4. UNCHANGED <<codes, refresh, access, jwts>> /\ Sent' = Sent
    BY <1>2, SentTogether, ConsentIsNoRefresh DEF SaveToken, tables, Sent
  <2> QED BY <2>1, <2>3, <2>4, StepMoves
<1>3. CASE GenerateJwtToken(p)
  <2>1. PICK n : n = [q EXCEPT !.pc = "storeConsent"]
    OBVIOUS
  <2>2. q.pc = "jwt" /\ Become(p, n)
    BY <1>3, <1>q, <2>1 DEF GenerateJwtToken, At, Goto
  <2>3. n.pc = "storeConsent" /\ n.a = q.a
    BY <1>0, <2>1 DEF Request
  <2>4. \A x : BearsRefresh(n, x) \/ BearsAccess(n, x) => BearsAccess(q, x)
    BY <2>2, <2>3 DEF BearsRefresh, BearsAccess
  <2>5. \A w \in writes' : \/ w \in writes \/ w.op # "refresh"
                           \/ w.row.id = q.r
    BY <1>3, <1>q, ConsentIsNoRefresh DEF GenerateJwtToken, RefreshRowOf
  <2>6. \A row \in Sent' : row \in Sent \/ row.id = q.r
    BY <2>5 DEF Sent
  <2>7. OnItsWay(q.r)
    BY <1>w, <2>2 DEF BearsRefresh
  <2>8. UNCHANGED <<codes, refresh, access, jwts>>
    BY <1>3 DEF GenerateJwtToken, tables
  <2> QED BY <1>w, <2>2, <2>4, <2>6, <2>7, <2>8, StepMoves
<1>4. CASE StoreRefresh(p)
  <2>1. CASE Reject(p) /\ UNCHANGED refresh
    BY <1>0, <1>4, <2>1, RejectCalm, CalmMoves DEF StoreRefresh
  <2>2. CASE refresh' = refresh \union {RefreshRowOf(q)} /\ Goto(p, "storeAccess")
             /\ UNCHANGED writes
    <3>1. PICK n : n = [q EXCEPT !.pc = "storeAccess"]
      OBVIOUS
    <3>2. q.pc = "storeRefresh" /\ Become(p, n)
      BY <1>4, <1>q, <2>2, <3>1 DEF StoreRefresh, At, Goto
    <3>3. n.pc = "storeAccess" /\ n.a = q.a
      BY <1>0, <3>1 DEF Request
    <3>4. \A x : BearsRefresh(n, x) \/ BearsAccess(n, x) => BearsAccess(q, x)
      BY <3>2, <3>3 DEF BearsRefresh, BearsAccess
    <3>5. RefreshRowOf(q).id = q.r /\ OnItsWay(q.r)
      BY <1>w, <3>2 DEF BearsRefresh, RefreshRowOf
    <3>6. UNCHANGED <<codes, access, jwts>> /\ Sent' = Sent
      BY <1>4, <2>2 DEF StoreRefresh, Sent
    <3> QED BY <1>w, <2>2, <3>2, <3>4, <3>5, <3>6, StepMoves
  <2> QED BY <1>4, <1>q, <2>1, <2>2 DEF StoreRefresh
<1>5. CASE StoreAccess(p)
  <2>1. CASE Reject(p) /\ UNCHANGED access
    BY <1>0, <1>5, <2>1, RejectCalm, CalmMoves DEF StoreAccess
  <2>2. CASE access' = access \union {AccessRowOf(q)} /\ Goto(p, "storeConsent")
             /\ UNCHANGED writes
    <3>1. PICK n : n = [q EXCEPT !.pc = "storeConsent"]
      OBVIOUS
    <3>2. q.pc = "storeAccess" /\ Become(p, n)
      BY <1>5, <1>q, <2>2, <3>1 DEF StoreAccess, At, Goto
    <3>3. n.pc = "storeConsent" /\ n.a = q.a
      BY <1>0, <3>1 DEF Request
    <3>4. \A x : BearsRefresh(n, x) \/ BearsAccess(n, x) => BearsAccess(q, x)
      BY <3>2, <3>3 DEF BearsRefresh, BearsAccess
    <3>5. AccessRowOf(q).id = q.a /\ OnItsWay(q.a)
      BY <1>w, <3>2 DEF BearsAccess, AccessRowOf
    <3>6. UNCHANGED <<codes, refresh, jwts>> /\ Sent' = Sent
      BY <1>5, <2>2 DEF StoreAccess, Sent
    <3> QED BY <1>w, <2>2, <3>2, <3>4, <3>5, <3>6, StepMoves
  <2> QED BY <1>5, <1>q, <2>1, <2>2 DEF StoreAccess
<1>6. CASE RespondToken(p)
  <2>1. Become(p, Idle) /\ UNCHANGED <<codes, refresh, access, writes>> /\ q.pc = "storeConsent"
    BY <1>6, <1>q DEF RespondToken, Finish, At
  <2>2. \A j \in jwts' : j \in jwts \/ OnItsWay(j.id)
    <3>1. jwts' = jwts \/ ("jwt" \in q.form /\ jwts' = jwts \union {JwtOf(q)})
      BY <1>6, <1>q DEF RespondToken
    <3>2. "jwt" \in q.form => OnItsWay(q.a) /\ JwtOf(q).id = q.a
      BY <1>w, <2>1 DEF BearsAccess, JwtOf
    <3> QED BY <3>1, <3>2
  <2>3. Sent' = Sent
    BY <2>1 DEF Sent
  <2> QED BY <1>i, <2>1, <2>2, <2>3, StepMoves
<1>7. CASE IshareReadCode(p)
  <2>0. UNCHANGED <<codes, refresh, access, jwts>>
    BY <1>7 DEF IshareReadCode, tables
  <2>1. CASE Finish(p) /\ UNCHANGED writes
    <3>1. Sent' = Sent
      BY <2>1 DEF Sent
    <3> QED BY <1>i, <2>0, <2>1, <3>1, StepMoves DEF Finish
  <2>2. ASSUME NEW row \in ValidCode(p), NEW a \in Fresh(Accesses), NEW n \in Request,
               n = [req[p] EXCEPT !.pc = "ishareStore", !.a = a, !.user = row.user],
               Become(p, n), writes' = writes \union {Invalidate(row.id)}
        PROVE  Moves
    <3>1. n.pc = "ishareStore" /\ n.a = a
      BY <1>0, <1>q, <2>2 DEF Request
    <3>2. \A x \in Ids : BearsRefresh(n, x) \/ BearsAccess(n, x) => ~Drawn1(x)
      BY <3>1 DEF BearsRefresh, BearsAccess, Fresh, Drawn1
    <3>3. Invalidate(row.id).op # "refresh"
      BY DEF Invalidate
    <3>4. Sent' = Sent
      BY <2>2, <3>3, SentTogether
    <3> QED BY <2>0, <2>2, <3>2, <3>4, StepMoves
  <2> QED BY <1>7, <2>1, <2>2, IshareReadDraws
<1>8. CASE IshareStoreToken(p)
  <2>1. CASE Die /\ UNCHANGED access
    BY <1>0, <1>8, <2>1, DieCalm, CalmMoves DEF IshareStoreToken
  <2>2. CASE access' = access \union {AccessRowOf(q)} /\ Finish(p) /\ UNCHANGED writes
    <3>1. q.pc = "ishareStore" /\ Become(p, Idle)
      BY <1>8, <1>q, <2>2 DEF IshareStoreToken, At, Finish
    <3>2. AccessRowOf(q).id = q.a /\ OnItsWay(q.a)
      BY <1>w, <3>1 DEF BearsAccess, AccessRowOf
    <3>3. UNCHANGED <<codes, refresh, jwts>> /\ Sent' = Sent
      BY <1>8, <2>2 DEF IshareStoreToken, Sent
    <3> QED BY <1>i, <2>2, <3>1, <3>2, <3>3, StepMoves
  <2> QED BY <1>8, <1>q, <2>1, <2>2 DEF IshareStoreToken
<1> QED BY <1>1, <1>2, <1>3, <1>4, <1>5, <1>6, <1>7, <1>8 DEF Handle, Prelude

LEMMA ExecuteMoves ==
  ASSUME IInv, PInv, NEW w \in writes,
         ExecuteInvalidate(w) \/ ExecuteRefresh(w) \/ ExecuteConsent(w)
  PROVE  Moves
<1>0. TypeOK
  BY DEF IInv
<1>i. \A q : Lighter(q, q)
  BY DEF Lighter
<1>1. CASE ExecuteInvalidate(w)
  <2>1. CalmRequests
    BY <1>1, <1>i DEF CalmRequests, ExecuteInvalidate
  <2>2. CalmTables
    BY <1>1 DEF CalmTables, Aged, Sent, ExecuteInvalidate
  <2> QED BY <1>0, <2>1, <2>2, CalmMoves
<1>2. CASE ExecuteRefresh(w)
  <2>1. CASE Die /\ UNCHANGED refresh
    BY <1>0, <1>2, <2>1, DieCalm, CalmMoves DEF ExecuteRefresh
  <2>2. CASE refresh' = refresh \union {w.row} /\ writes' = writes \ {w} /\ UNCHANGED req
    <3>1. UNCHANGED <<codes, access, jwts>> /\ Sent' \subseteq Sent
      BY <1>2, <2>2 DEF ExecuteRefresh, Sent
    <3>2. w.row \in Sent
      BY <1>2 DEF ExecuteRefresh, Sent
    <3> QED BY <1>0, <2>2, <3>1, <3>2, WasThere, MoveOn
  <2> QED BY <1>2, <2>1, <2>2 DEF ExecuteRefresh
<1>3. CASE ExecuteConsent(w)
  <2>0. UNCHANGED <<codes, refresh, access, jwts>>
    BY <1>3 DEF ExecuteConsent
  <2>1. CASE Die
    BY <1>0, <2>0, <2>1, DieCalm, CalmMoves
  <2>2. CASE writes' = writes \ {w}
    <3>1. CalmTables
      BY <2>0, <2>2, AgedSame DEF CalmTables, Sent
    <3>2. CalmRequests
      <4>1. CASE req' = req
        BY <1>i, <4>1 DEF CalmRequests
      <4>2. CASE w.by # None /\ Become(w.by, [req[w.by] EXCEPT !.failed = TRUE])
        <5>1. w.by \in Requests
          BY <1>0, <1>3, <4>2 DEF ExecuteConsent, TypeOK, ConsentWrite, RefreshWrite,
             InvalidateWrite, OrNone
        <5>2. Lighter(req[w.by], [req[w.by] EXCEPT !.failed = TRUE])
          BY <1>0, <5>1 DEF TypeOK, Request, Lighter
        <5> QED BY <4>2, <5>1, <5>2, CalmTurn
      <4>3. CASE Die
        BY <2>0, <4>3, DieCalm
      <4> QED BY <1>3, <4>1, <4>2, <4>3 DEF ExecuteConsent
    <3> QED BY <1>0, <3>1, <3>2, CalmMoves
  <2> QED BY <1>3, <2>1, <2>2 DEF ExecuteConsent
<1> QED BY <1>1, <1>2, <1>3

LEMMA EnvironmentMoves ==
  ASSUME IInv, PInv, Environment
  PROVE  Moves
<1>0. TypeOK
  BY DEF IInv
<1>1. CASE /\ codes' \subseteq codes /\ refresh' \subseteq refresh
           /\ access' \subseteq access /\ UNCHANGED <<writes, req, jwts>>
  <2>1. CalmRequests
    BY <1>1 DEF CalmRequests, Lighter
  <2>2. CalmTables
    BY <1>1 DEF CalmTables, Aged, Sent
  <2> QED BY <1>0, <2>1, <2>2, CalmMoves
<1>2. ASSUME NEW u \in users, DeleteUser(u) PROVE Moves
  BY <1>1, <1>2 DEF DeleteUser, Cascade, history
<1>3. ASSUME NEW c \in clients, DeleteClient(c) PROVE Moves
  BY <1>1, <1>3 DEF DeleteClient, Cascade, history
<1>4. ASSUME NEW pair \in consent, DeleteThirdPartyApplication(pair) PROVE Moves
  BY <1>1, <1>4 DEF DeleteThirdPartyApplication
<1>5. CASE ProcessDies
  BY <1>0, <1>5, DieCalm, CalmMoves DEF ProcessDies, tables, history
<1>6. ASSUME NEW p \in Requests, StatementFails(p) PROVE Moves
  BY <1>0, <1>6, DieCalm, RejectCalm, CalmMoves DEF StatementFails, tables, history
<1> QED BY <1>2, <1>3, <1>4, <1>5, <1>6 DEF Environment

LEMMA NextMoves ==
  ASSUME IInv, PInv, [Next]_vars
  PROVE  Moves
<1>0. TypeOK /\ AllSeeded
  BY DEF IInv, PInv
<1>1. ASSUME NEW p \in Requests, Arrive(p) PROVE Moves
  <2>1. PICK n \in Request : Become(p, n) /\ n.pc \notin Storing
    BY <1>0, <1>1, ArriveTurn DEF Turn
  <2>2. UNCHANGED <<tables, writes>>
    BY <1>0, <1>1, ArriveStep
  <2>3. UNCHANGED <<codes, refresh, access, jwts>> /\ Sent' = Sent
    BY <2>2 DEF tables, Sent
  <2>4. \A x : ~BearsRefresh(n, x) /\ ~BearsAccess(n, x)
    BY <2>1 DEF BearsRefresh, BearsAccess, Storing
  <2> QED BY <2>1, <2>3, <2>4, StepMoves
<1>2. ASSUME NEW p \in Requests, Handle(p) PROVE Moves
  BY <1>2, HandleMoves
<1>3. CASE Execute
  BY <1>3, ExecuteMoves DEF Execute
<1>4. CASE Environment
  BY <1>4, EnvironmentMoves
<1>5. CASE UNCHANGED vars
  <2>1. CalmRequests
    BY <1>5 DEF CalmRequests, Lighter, vars
  <2>2. CalmTables
    BY <1>5, AgedSame DEF CalmTables, Sent, vars, tables
  <2> QED BY <1>0, <2>1, <2>2, CalmMoves
<1> QED BY <1>1, <1>2, <1>3, <1>4, <1>5 DEF Next

\* What is on its way is not honoured yet.
LEMMA Exclusive ==
  ASSUME TypeOK, PInv, NEW x \in Ids, OnItsWay(x)
  PROVE  ~Usable(x)
<1>0. /\ codes \subseteq CodeRow /\ refresh \subseteq RefreshRow /\ access \subseteq AccessRow
      /\ jwts \subseteq Jwt
      /\ Sent \subseteq RefreshRow
  BY DEF TypeOK, Sent, RefreshWrite, InvalidateWrite, ConsentWrite
<1>1. /\ \A row \in codes : row.id \in Codes
      /\ \A row \in refresh \union Sent : row.id \in Refreshes
      /\ \A row \in access \union jwts : row.id \in Accesses
  BY <1>0 DEF CodeRow, RefreshRow, AccessRow, Jwt
<1>2. ASSUME NEW p \in Requests
      PROVE  req[p].r \in OrNone(Refreshes) /\ req[p].a \in OrNone(Accesses)
  BY DEF TypeOK, Request
<1>3. None \notin Ids
  BY NoneAssumption
<1>4. RefreshPlaces /\ AccessPlaces
  BY DEF PInv, Places
<1>5. CASE \E p \in Requests : BearsRefresh(req[p], x)
  <2>1. x \in Refreshes
    BY <1>2, <1>3, <1>5 DEF BearsRefresh, OrNone
  <2>2. \A row \in refresh : row.id # x
    BY <1>4, <1>5 DEF RefreshPlaces
  <2> QED BY <1>1, <2>1, <2>2, IdsAssumption DEF Usable
<1>6. CASE \E p \in Requests : BearsAccess(req[p], x)
  <2>1. x \in Accesses
    BY <1>2, <1>3, <1>6 DEF BearsAccess, OrNone
  <2>2. \A row \in access \union jwts : row.id # x
    BY <1>4, <1>6 DEF AccessPlaces
  <2> QED BY <1>1, <2>1, <2>2, IdsAssumption DEF Usable
<1>7. CASE \E row \in Sent : row.id = x
  <2>1. x \in Refreshes /\ \A row \in refresh : row.id # x
    BY <1>1, <1>4, <1>7 DEF RefreshPlaces
  <2> QED BY <1>1, <2>1, IdsAssumption DEF Usable
<1> QED BY <1>5, <1>6, <1>7, OnItsWayIs

(***************************************************************************)
(* The stage of a value from one state to the next.                        *)
(***************************************************************************)
Excluded == \A x \in Ids : OnItsWay(x) => ~Usable(x)

LEMMA PlacedExcludes == TypeOK /\ PInv => Excluded
  BY Exclusive DEF Excluded

LEMMA StageIs ==
  ASSUME NEW x
  PROVE  /\ ~Drawn1(x) => Stage(x) = "unused"
         /\ Drawn1(x) /\ Usable(x) => Stage(x) = "live"
         /\ Drawn1(x) /\ ~Usable(x) /\ OnItsWay(x) => Stage(x) = "drawn"
         /\ Drawn1(x) /\ ~Usable(x) /\ ~OnItsWay(x) => Stage(x) = "dead"
  BY DEF Stage, Drawn1

LEMMA StageThen ==
  ASSUME NEW x
  PROVE  /\ ~Drawn1(x)' => Stage(x)' = "unused"
         /\ Drawn1(x)' /\ Usable(x)' => Stage(x)' = "live"
         /\ Drawn1(x)' /\ ~Usable(x)' /\ OnItsWay(x)' => Stage(x)' = "drawn"
         /\ Drawn1(x)' /\ ~Usable(x)' /\ ~OnItsWay(x)' => Stage(x)' = "dead"
  BY DEF Stage, Drawn1

LEMMA StageMovesOn ==
  ASSUME Excluded, Excluded', Moves, LedgerGrows, NEW x \in Ids, Drawn1(x)
  PROVE  /\ Drawn1(x)'
         /\ Stage(x) \in {"drawn", "live", "dead"}
         /\ Stage(x)' \in {"drawn", "live", "dead"}
         /\ Stage(x) = "live" => Stage(x)' # "drawn"
         /\ Stage(x) = "dead" => Stage(x)' = "dead"
<1>1. Drawn1(x)'
  BY DEF LedgerGrows, Drawn1
<1>2. /\ OnItsWay(x) => ~Usable(x)
      /\ OnItsWay(x)' => ~Usable(x)'
      /\ OnItsWay(x)' => OnItsWay(x)
      /\ Usable(x)' => Usable(x) \/ OnItsWay(x)
  BY DEF Excluded, Moves
<1> QED BY <1>1, <1>2, StageIs, StageThen

LEMMA HeldIs ==
  /\ \A x : x \in Held(Ids) <=> x \in Ids /\ ledger[x].held
  /\ \A x : x \in Held(Ids)' <=> x \in Ids /\ ledger'[x].held
  BY DEF Held

\* No value changes its owner or its source: the credentials advance.
LEMMA AdvanceStep ==
  ASSUME Excluded, Excluded', Moves, LedgerGrows, HeldIsDrawn',
         \A x \in Ids : /\ ledger'[x].client = ledger[x].client
                        /\ ledger'[x].user = ledger[x].user
                        /\ ledger'[x].from = ledger[x].from
                        /\ ledger[x].held => ledger'[x].held
  PROVE  Lifecycle!Advance
<1>1. \A x \in Ids : Stage(x)' \in Lifecycle!Later[Stage(x)]
  <2> SUFFICES ASSUME NEW x \in Ids PROVE Stage(x)' \in Lifecycle!Later[Stage(x)]
    OBVIOUS
  <2>1. CASE ~Drawn1(x)
    <3>1. Stage(x) = "unused" /\ Stage(x)' = "unused"
      BY <2>1, StageIs, StageThen DEF Drawn1
    <3> QED BY <3>1 DEF Lifecycle!Later, Lifecycle!Stages
  <2>2. CASE Drawn1(x)
    BY <2>2, StageMovesOn DEF Lifecycle!Later, Lifecycle!Stages
  <2> QED BY <2>1, <2>2
<1>2. Held(Ids) \subseteq Held(Ids)'
  BY HeldIs
<1>3. \A x \in Held(Ids)' : Stage(x)' # "unused"
  <2>1. \A x \in Held(Ids)' : x \in Ids /\ Drawn1(x)'
    BY HeldIs DEF HeldIsDrawn, Drawn1
  <2> QED BY <2>1, StageThen
<1>4. \A x \in Ids : OwnerOf(x)' = OwnerOf(x) /\ ledger'[x].from = ledger[x].from
  BY DEF OwnerOf
<1> QED BY <1>1, <1>2, <1>3, <1>4, HeldIs DEF Lifecycle!Advance

(***************************************************************************)
(* The requests that draw values issue credentials.                        *)
(***************************************************************************)
\* What was where it was stays there.
LEMMA NothingLost ==
  ASSUME IInv, NEW p \in Requests, NEW n, Become(p, n),
         \A x : ~BearsRefresh(req[p], x) /\ ~BearsAccess(req[p], x),
         Sent \subseteq Sent', codes \subseteq codes', refresh \subseteq refresh',
         access \subseteq access', jwts \subseteq jwts'
  PROVE  \A x : (OnItsWay(x) => OnItsWay(x)') /\ (Usable(x) => Usable(x)')
<1> SUFFICES ASSUME NEW x
             PROVE  (OnItsWay(x) => OnItsWay(x)') /\ (Usable(x) => Usable(x)')
  OBVIOUS
<1>1. \A o \in Requests : BearsRefresh(req[o], x) \/ BearsAccess(req[o], x) => req'[o] = req[o]
  BY OnlyOne
<1>2. OnItsWay(x) => OnItsWay(x)'
  BY <1>1, OnItsWayIs, OnItsWayThen
<1>3. Usable(x)' <=> \/ \E row \in codes' \union refresh' \union access' : row.id = x /\ row.valid
                     \/ \E j \in jwts' : j.id = x
  BY DEF Usable
<1>4. Usable(x) <=> \/ \E row \in codes \union refresh \union access : row.id = x /\ row.valid
                    \/ \E j \in jwts : j.id = x
  BY DEF Usable
<1>5. Usable(x) => Usable(x)'
  BY <1>3, <1>4
<1> QED BY <1>2, <1>5

\* What a request has drawn of the fresh values xs, for the client and the user it
\* serves, is issued to them.
LEMMA IssueStep ==
  ASSUME TypeOK, Excluded, Excluded', Moves, LedgerGrows, HeldIsDrawn,
         NEW q \in Request, q.client \in Clients,
         q.grant # None => /\ q.grant \in Ids /\ ledger[q.grant].held
                           /\ Owns(q.grant, q.client, q.user),
         NEW xs, xs \intersect Ids # {}, NEW delivered \in BOOLEAN,
         \A x \in xs \intersect Ids : ~Drawn1(x) /\ (OnItsWay(x)' \/ Usable(x)'),
         ledger' = Drawn(q, xs, delivered),
         \A x \in Ids : (OnItsWay(x) => OnItsWay(x)') /\ (Usable(x) => Usable(x)')
  PROVE  Lifecycle!Issue(xs \intersect Ids, <<q.client, q.user>>, q.grant)
<1>c. q.client # None
  BY NoneAssumption
<1>l. \A x \in Ids : IF x \in xs
                     THEN ledger'[x] = [client |-> q.client, user |-> q.user,
                                        from |-> q.grant, held |-> delivered]
                     ELSE ledger'[x] = ledger[x]
  BY DEF Drawn
<1>1. xs \intersect Ids # {} /\ \A x \in xs \intersect Ids : x \in Ids /\ Stage(x) = "unused"
  BY StageIs
<1>2. q.grant = None \/ (q.grant \in Held(Ids) /\ OwnerOf(q.grant) = <<q.client, q.user>>)
  BY <1>c DEF HeldIsDrawn, OwnerOf, Owns, Held
<1>3. \A x \in Ids : x \in xs => /\ Stage(x)' \in {"drawn", "live"}
                                 /\ OwnerOf(x)' = <<q.client, q.user>>
                                 /\ ledger'[x].from = q.grant
  <2> SUFFICES ASSUME NEW x \in Ids, x \in xs
               PROVE  /\ Stage(x)' \in {"drawn", "live"}
                      /\ OwnerOf(x)' = <<q.client, q.user>>
                      /\ ledger'[x].from = q.grant
    OBVIOUS
  <2>1. /\ ledger'[x].client = q.client /\ ledger'[x].user = q.user
        /\ ledger'[x].from = q.grant
    BY <1>l
  <2>2. Drawn1(x)' /\ (OnItsWay(x)' \/ Usable(x)')
    BY <1>c, <2>1 DEF Drawn1
  <2> QED BY <1>c, <2>1, <2>2, StageThen DEF OwnerOf
<1>4. \A x \in Ids : x \notin xs => /\ Stage(x)' = Stage(x)
                                    /\ OwnerOf(x)' = OwnerOf(x)
                                    /\ ledger'[x].from = ledger[x].from
  <2> SUFFICES ASSUME NEW x \in Ids, x \notin xs
               PROVE  /\ Stage(x)' = Stage(x)
                      /\ OwnerOf(x)' = OwnerOf(x)
                      /\ ledger'[x].from = ledger[x].from
    OBVIOUS
  <2>1. ledger'[x] = ledger[x]
    BY <1>l
  <2>2. CASE ~Drawn1(x)
    BY <2>1, <2>2, StageIs, StageThen DEF OwnerOf, Drawn1
  <2>3. CASE Drawn1(x)
    <3>1. /\ OnItsWay(x)' <=> OnItsWay(x)
          /\ OnItsWay(x)' => ~Usable(x)'
          /\ OnItsWay(x) => ~Usable(x)
          /\ Usable(x) => Usable(x)'
          /\ Usable(x)' => Usable(x) \/ OnItsWay(x)
      BY <2>3 DEF Excluded, Moves
    <3>2. Drawn1(x)'
      BY <2>1, <2>3 DEF Drawn1
    <3> QED BY <2>1, <2>3, <3>1, <3>2, StageIs, StageThen DEF OwnerOf
  <2> QED BY <2>2, <2>3
<1>5. Held(Ids)' \in {Held(Ids), Held(Ids) \union (xs \intersect Ids)}
  <2>1. \A x \in Ids : ledger'[x].held <=> IF x \in xs THEN delivered ELSE ledger[x].held
    BY <1>l
  <2>2. \A x \in xs \intersect Ids : ~ledger[x].held
    BY DEF HeldIsDrawn, Drawn1
  <2>3. CASE delivered
    BY <2>1, <2>3 DEF Held
  <2>4. CASE ~delivered
    BY <2>1, <2>2, <2>4 DEF Held
  <2> QED BY <2>3, <2>4
<1> QED BY <1>1, <1>2, <1>3, <1>4, <1>5 DEF Lifecycle!Issue

Issues == \E S \in SUBSET Ids, o \in Clients \X OrNone(Users), g \in Ids \union {None} :
             Lifecycle!Issue(S, o, g)

LEMMA IssueOf ==
  ASSUME NEW q \in Request, q.client \in Clients, NEW xs,
         Lifecycle!Issue(xs \intersect Ids, <<q.client, q.user>>, q.grant)
  PROVE  Issues
<1>1. /\ xs \intersect Ids \in SUBSET Ids
      /\ <<q.client, q.user>> \in Clients \X OrNone(Users)
      /\ q.grant \in Ids \union {None}
  BY DEF Request, OrNone
<1> QED BY <1>1 DEF Issues

LEMMA SaveAuthorizationCodeIssues ==
  ASSUME IInv, PInv, Excluded, Excluded', Moves, LedgerGrows, NEW p \in Requests,
         SaveAuthorizationCode(p), ledger' # ledger
  PROVE  Issues
<1>0. TypeOK /\ HeldIsDrawn /\ req[p] \in Request /\ WellFormed(req[p]) /\ Seeded(req[p])
  BY DEF IInv, PInv, TypeOK, ReqOK, Known, HeldIsDrawn, AllSeeded
<1>1. PICK k \in Fresh(Codes) : /\ codes' = codes \union {CodeRowOf(p, k)}
                                /\ ledger' = Drawn(req[p], {k}, TRUE)
  BY DEF SaveAuthorizationCode
<1>2. /\ req[p].pc = "saveCode" /\ Become(p, Idle)
      /\ UNCHANGED <<refresh, access, jwts, writes>>
  BY DEF SaveAuthorizationCode, At, Finish
<1>3. req[p].client \in Clients /\ req[p].grant = None
  BY <1>0, <1>2 DEF WellFormed, Seeded
<1>4. k \in Ids /\ ~Drawn1(k)
  BY DEF Fresh, Ids, Drawn1
<1>5. Usable(k)'
  <2>1. CodeRowOf(p, k).id = k /\ CodeRowOf(p, k).valid
    BY DEF CodeRowOf
  <2> QED BY <1>1, <2>1 DEF Usable
<1>6. \A x : ~BearsRefresh(req[p], x) /\ ~BearsAccess(req[p], x)
  BY <1>2 DEF BearsRefresh, BearsAccess
<1>7. Sent' = Sent
  BY <1>2 DEF Sent
<1>8. \A x : (OnItsWay(x) => OnItsWay(x)') /\ (Usable(x) => Usable(x)')
  BY <1>1, <1>2, <1>6, <1>7, NothingLost
<1>9. {k} \intersect Ids # {} /\ \A x \in {k} \intersect Ids : ~Drawn1(x) /\ (OnItsWay(x)' \/ Usable(x)')
  BY <1>4, <1>5
<1>10. PICK q, xs : q = req[p] /\ xs = {k}
  OBVIOUS
<1>11. Lifecycle!Issue(xs \intersect Ids, <<q.client, q.user>>, q.grant)
  BY <1>0, <1>1, <1>3, <1>8, <1>9, <1>10, IssueStep
<1> QED BY <1>0, <1>3, <1>10, <1>11, IssueOf

LEMMA SaveTokenIssues ==
  ASSUME IInv, PInv, Excluded, Excluded', Moves, LedgerGrows, NEW p \in Requests,
         SaveToken(p)
  PROVE  Issues
<1>0. /\ TypeOK /\ HeldIsDrawn /\ req[p] \in Request /\ WellFormed(req[p]) /\ Seeded(req[p])
      /\ Entitled(req[p])
  BY DEF IInv, PInv, TypeOK, ReqOK, Known, HeldIsDrawn, AllSeeded, Ownership
<1>1. PICK a \in Fresh(Accesses), r \in OrNone(Fresh(Refreshes)), n \in Request :
         /\ n = [req[p] EXCEPT !.a = a, !.r = r,
                               !.pc = IF "jwt" \in req[p].form THEN "jwt"
                                      ELSE IF r # None THEN "storeRefresh"
                                      ELSE "storeAccess"]
         /\ Become(p, n)
         /\ ledger' = Drawn(req[p], {a, r}, FALSE)
         /\ \A x \in {a, r} \intersect Ids : ledger[x].client = None
  BY SaveTokenDraws
<1>2. req[p].pc = "save" /\ UNCHANGED tables
  BY DEF SaveToken, At
<1>3. /\ req[p].client \in Clients
      /\ req[p].grant # None => /\ req[p].grant \in Ids /\ ledger[req[p].grant].held
                                /\ Owns(req[p].grant, req[p].client, req[p].user)
  BY <1>0, <1>2 DEF WellFormed, Seeded, Entitled, Buying
<1>4. a \in Ids /\ \A x \in {a, r} \intersect Ids : ~Drawn1(x)
  BY <1>1 DEF Fresh, Ids, Drawn1
<1>5. \A x \in {a, r} \intersect Ids : OnItsWay(x)'
  <2>1. n.a = a /\ n.r = r
    BY <1>0, <1>1 DEF Request
  <2>2. n.pc = IF "jwt" \in req[p].form THEN "jwt"
               ELSE IF r # None THEN "storeRefresh" ELSE "storeAccess"
    BY <1>0, <1>1 DEF Request
  <2>3. BearsAccess(n, a)
    BY <2>1, <2>2 DEF BearsAccess
  <2>4. r # None => BearsRefresh(n, r)
    BY <2>1, <2>2 DEF BearsRefresh
  <2>5. req'[p] = n
    BY <1>1, OnlyOne
  <2> QED BY <2>3, <2>4, <2>5, OnItsWayThen, NoneAssumption
<1>6. \A x : ~BearsRefresh(req[p], x) /\ ~BearsAccess(req[p], x)
  BY <1>2 DEF BearsRefresh, BearsAccess
<1>7. Sent' = Sent
  BY SentTogether, ConsentIsNoRefresh DEF SaveToken
<1>8. \A x : (OnItsWay(x) => OnItsWay(x)') /\ (Usable(x) => Usable(x)')
  BY <1>1, <1>2, <1>6, <1>7, NothingLost DEF tables
<1>9. {a, r} \intersect Ids # {}
      /\ \A x \in {a, r} \intersect Ids : ~Drawn1(x) /\ (OnItsWay(x)' \/ Usable(x)')
  BY <1>4, <1>5
<1>10. PICK q, xs : q = req[p] /\ xs = {a, r}
  OBVIOUS
<1>11. Lifecycle!Issue(xs \intersect Ids, <<q.client, q.user>>, q.grant)
  BY <1>0, <1>1, <1>3, <1>8, <1>9, <1>10, IssueStep
<1> QED BY <1>0, <1>3, <1>10, <1>11, IssueOf

LEMMA IshareReadCodeIssues ==
  ASSUME IInv, PInv, Excluded, Excluded', Moves, LedgerGrows, NEW p \in Requests,
         IshareReadCode(p), ledger' # ledger
  PROVE  Issues
<1>0. /\ TypeOK /\ HeldIsDrawn /\ req[p] \in Request /\ WellFormed(req[p]) /\ Seeded(req[p])
      /\ RowsOwned
  BY DEF IInv, PInv, TypeOK, ReqOK, Known, HeldIsDrawn, AllSeeded, Ownership
<1>1. PICK row \in ValidCode(p), a \in Fresh(Accesses), n \in Request :
         /\ n = [req[p] EXCEPT !.pc = "ishareStore", !.a = a, !.user = row.user]
         /\ Become(p, n)
         /\ ledger' = Drawn(n, {a}, FALSE)
         /\ writes' = writes \union {Invalidate(row.id)}
  BY IshareReadDraws
<1>2. req[p].pc = "ishareCode" /\ UNCHANGED tables
  BY DEF IshareReadCode, At
<1>n. /\ n.pc = "ishareStore" /\ n.a = a /\ n.user = row.user
      /\ n.client = req[p].client /\ n.grant = req[p].grant
  BY <1>0, <1>1 DEF Request
<1>3. /\ n.client \in Clients
      /\ n.grant # None => /\ n.grant \in Ids /\ ledger[n.grant].held
                           /\ Owns(n.grant, n.client, n.user)
  <2>1. row.id = req[p].grant /\ row.client = req[p].client /\ Owned(row)
    BY <1>0 DEF ValidCode, Presented, RowsOwned
  <2> QED BY <1>0, <1>2, <1>n, <2>1 DEF WellFormed, Seeded, Owned
<1>4. a \in Ids /\ ~Drawn1(a)
  BY <1>1 DEF Fresh, Ids, Drawn1
<1>5. OnItsWay(a)'
  <2>1. req'[p] = n
    BY <1>1, OnlyOne
  <2> QED BY <1>n, <2>1, OnItsWayThen DEF BearsAccess
<1>6. \A x : ~BearsRefresh(req[p], x) /\ ~BearsAccess(req[p], x)
  BY <1>2 DEF BearsRefresh, BearsAccess
<1>7. Sent' = Sent
  <2>1. Invalidate(row.id).op # "refresh"
    BY DEF Invalidate
  <2> QED BY <1>1, <2>1, SentTogether
<1>8. \A x : (OnItsWay(x) => OnItsWay(x)') /\ (Usable(x) => Usable(x)')
  BY <1>1, <1>2, <1>6, <1>7, NothingLost DEF tables
<1>9. {a} \intersect Ids # {}
      /\ \A x \in {a} \intersect Ids : ~Drawn1(x) /\ (OnItsWay(x)' \/ Usable(x)')
  BY <1>4, <1>5
<1>10. Lifecycle!Issue({a} \intersect Ids, <<n.client, n.user>>, n.grant)
  BY <1>0, <1>1, <1>3, <1>8, <1>9, IssueStep
<1> QED BY <1>3, <1>10, IssueOf

LEMMA NextLives ==
  ASSUME IInv, PInv, Excluded, Excluded', [Next]_vars
  PROVE  Lifecycle!Next
<1>0. TypeOK /\ HeldIsDrawn
  BY DEF IInv, PInv, Known, HeldIsDrawn
<1>1. Moves /\ LedgerGrows /\ HeldIsDrawn'
  BY <1>0, NextMoves, NextGrows
<1>2. CASE ledger' = ledger
  <2>1. Lifecycle!Advance
    BY <1>1, <1>2, AdvanceStep
  <2> QED BY <2>1 DEF Lifecycle!Next
<1>3. CASE \E xs : ledger' = Delivered(xs)
  <2>1. \A x \in Ids : /\ ledger'[x].client = ledger[x].client
                       /\ ledger'[x].user = ledger[x].user
                       /\ ledger'[x].from = ledger[x].from
                       /\ ledger[x].held => ledger'[x].held
    BY <1>0, <1>3 DEF TypeOK, Delivered, Entry
  <2>2. Lifecycle!Advance
    BY <1>1, <2>1, AdvanceStep
  <2> QED BY <2>2 DEF Lifecycle!Next
<1>4. CASE \E p \in Requests : /\ ledger' # ledger
                               /\ SaveAuthorizationCode(p) \/ SaveToken(p) \/ IshareReadCode(p)
  <2>1. Issues
    BY <1>1, <1>4, SaveAuthorizationCodeIssues, SaveTokenIssues, IshareReadCodeIssues
  <2> QED BY <2>1 DEF Issues, Lifecycle!Next
<1>5. ASSUME NEW p \in Requests, Arrive(p) PROVE ledger' = ledger
  BY <1>0, <1>5, ArriveStep DEF history
<1>6. ASSUME NEW p \in Requests, Handle(p), ledger' # ledger
      PROVE  \/ SaveAuthorizationCode(p) \/ SaveToken(p) \/ RespondToken(p)
             \/ IshareReadCode(p) \/ IshareStoreToken(p)
  BY <1>6 DEF Handle, CheckUserAuthorizedApplication, EnableApp, GetAuthorizationCode,
     GetRefreshToken, GetIdentity, RevokeAuthorizationCode, RevokeRefreshToken,
     RevokeAccessToken, GenerateJwtToken, StoreRefresh, StoreAccess, history
<1>7. ASSUME NEW p \in Requests, RespondToken(p) \/ IshareStoreToken(p), ledger' # ledger
      PROVE  \E xs : ledger' = Delivered(xs)
  BY <1>7 DEF RespondToken, IshareStoreToken
<1>8. Execute \/ Environment \/ UNCHANGED vars => ledger' = ledger
  BY DEF Execute, ExecuteInvalidate, ExecuteRefresh, ExecuteConsent, Environment,
     DeleteUser, DeleteClient, DeleteThirdPartyApplication, ProcessDies,
     StatementFails, history, vars
<1> QED BY <1>2, <1>3, <1>4, <1>5, <1>6, <1>7, <1>8 DEF Next

\* The server implements the life cycle of a credential (CredentialLifecycle): a value is
\* drawn once, for the owner of the grant that buys it, and what was revoked, deleted or
\* lost is not honoured again, however many requests redeem, rotate and revoke at a time,
\* whatever statement nobody awaits is executed late, and wherever the process dies.
THEOREM ServerImplementsLifecycle == Spec => ImplementsLifecycle
<1>1. Init => Lifecycle!Init
  <2> SUFFICES ASSUME Init PROVE Lifecycle!Init
    OBVIOUS
  <2>1. \A x \in Ids : ledger[x] = Unused
    BY DEF Init
  <2>2. \A x \in Ids : Stage(x) = "unused" /\ OwnerOf(x) = None /\ ledger[x].from = None
    BY <2>1 DEF Unused, Stage, OwnerOf
  <2>3. Held(Ids) = {}
    BY <2>1 DEF Held, Unused
  <2> QED BY <2>2, <2>3 DEF Lifecycle!Init
<1>2. IInv /\ PInv => Excluded
  BY PlacedExcludes DEF IInv
<1>3. IInv /\ PInv /\ Excluded /\ Excluded' /\ [Next]_vars => [Lifecycle!Next]_(Lifecycle!vars)
  BY NextLives
<1> QED BY <1>1, <1>2, <1>3, OnePlace, PTL DEF Spec, ImplementsLifecycle, Lifecycle!Spec

(***************************************************************************)
(* A delivered token is stored.  What a step does to the rows of the       *)
(* credentials: it adds one, invalidates some, or deletes an account or an *)
(* application with all that refers to it.                                 *)
(***************************************************************************)
AddsCodes == codes \subseteq codes' /\ UNCHANGED <<users, clients, refresh, access>>
AddsRefresh(row) == /\ RefreshFk(row, users, clients, codes)
                    /\ refresh' = refresh \union {row}
                    /\ UNCHANGED <<users, clients, codes, access>>
AddsAccess(row) == /\ AccessFk(row, users, clients, codes, refresh)
                   /\ access' = access \union {row}
                   /\ UNCHANGED <<users, clients, codes, refresh>>
Fades(x) == /\ codes' = Invalidated(codes, x)
            /\ refresh' = Invalidated(refresh, x)
            /\ access' = Invalidated(access, x)
            /\ UNCHANGED <<users, clients>>
Shrinks == users' \subseteq users /\ clients' \subseteq clients /\ Cascade

LEMMA NextTables ==
  ASSUME IInv, [Next]_vars
  PROVE  \/ AddsCodes \/ (Shrinks /\ Environment) \/ \E x : Fades(x)
         \/ \E row \in Sent : AddsRefresh(row)
         \/ \E p \in Requests : req[p].pc = "storeRefresh" /\ AddsRefresh(RefreshRowOf(req[p]))
         \/ \E p \in Requests : /\ req[p].pc \in {"storeAccess", "ishareStore"}
                                /\ AddsAccess(AccessRowOf(req[p]))
<1>0. TypeOK
  BY DEF IInv
<1>1. UNCHANGED tables => AddsCodes
  BY DEF tables, AddsCodes
<1>2. ASSUME NEW p \in Requests, Arrive(p) PROVE AddsCodes
  BY <1>0, <1>1, <1>2, ArriveStep
<1>3. ASSUME NEW p \in Requests, Handle(p), ~StoreRefresh(p), ~StoreAccess(p), ~IshareStoreToken(p)
      PROVE  AddsCodes
  BY <1>1, <1>3 DEF Handle, CheckUserAuthorizedApplication, EnableApp, SaveAuthorizationCode,
     GetAuthorizationCode, GetRefreshToken, GetIdentity, RevokeAuthorizationCode,
     RevokeRefreshToken, RevokeAccessToken, SaveToken, GenerateJwtToken, RespondToken,
     IshareReadCode, AddsCodes
<1>4. ASSUME NEW p \in Requests, StoreRefresh(p)
      PROVE  AddsCodes \/ (req[p].pc = "storeRefresh" /\ AddsRefresh(RefreshRowOf(req[p])))
  BY <1>4 DEF StoreRefresh, At, AddsCodes, AddsRefresh
<1>5. ASSUME NEW p \in Requests, StoreAccess(p) \/ IshareStoreToken(p)
      PROVE  AddsCodes \/ (/\ req[p].pc \in {"storeAccess", "ishareStore"}
                           /\ AddsAccess(AccessRowOf(req[p])))
  BY <1>5 DEF StoreAccess, IshareStoreToken, At, AddsCodes, AddsAccess
<1>6. ASSUME NEW w \in writes, ExecuteInvalidate(w) PROVE Fades(w.id)
  BY <1>6 DEF ExecuteInvalidate, Fades
<1>7. ASSUME NEW w \in writes, ExecuteRefresh(w)
      PROVE  AddsCodes \/ (w.row \in Sent /\ AddsRefresh(w.row))
  BY <1>7 DEF ExecuteRefresh, AddsCodes, AddsRefresh, Sent
<1>8. ASSUME NEW w \in writes, ExecuteConsent(w) PROVE AddsCodes
  BY <1>8 DEF ExecuteConsent, AddsCodes
<1>9. Environment => AddsCodes \/ Shrinks
  BY <1>1 DEF Environment, DeleteUser, DeleteClient, DeleteThirdPartyApplication,
     ProcessDies, StatementFails, AddsCodes, Shrinks
<1>10. UNCHANGED vars => AddsCodes
  BY <1>1 DEF vars
<1> QED BY <1>2, <1>3, <1>4, <1>5, <1>6, <1>7, <1>8, <1>9, <1>10 DEF Next, Execute

\* Every row's foreign keys refer to rows that are there, and to rows of its own client
\* and user; a request that has stored its access token finds it there.
ForeignKeys == /\ \A row \in refresh : RefreshFk(row, users, clients, codes)
               /\ \A row \in access : AccessFk(row, users, clients, codes, refresh)
Kinship ==
    /\ \A row \in refresh \union Sent : row.code # None => Owns(row.code, row.client, row.user)
    /\ \A row \in access :
          /\ row.code # None => Owns(row.code, row.client, row.user)
          /\ row.refresh # None => Owns(row.refresh, row.client, row.user)
Kept(a) == \/ a \in IdsOf(access)
           \/ ledger[a].user \notin OrNone(users) \/ ledger[a].client \notin clients
Written == \A p \in Requests :
    /\ req[p].pc = "jwt" => "jwt" \in req[p].form
    /\ req[p].pc = "storeConsent" /\ "jwt" \notin req[p].form => Kept(req[p].a)

\* The inductive invariant of the delivered tokens, beside IInv and PInv.
DInv == ForeignKeys /\ Kinship /\ Written /\ DeliveredIsStored

LEMMA IdsOfIs == ASSUME NEW rows, NEW x
                 PROVE  x \in IdsOf(rows) <=> \E row \in rows : row.id = x
  BY DEF IdsOf

LEMMA FadedRows ==
  ASSUME TypeOK, NEW x, Fades(x)
  PROVE  /\ IdsOf(codes') = IdsOf(codes)
         /\ IdsOf(refresh') = IdsOf(refresh)
         /\ IdsOf(access') = IdsOf(access)
         /\ \A row \in refresh' : \E o \in refresh :
               row.client = o.client /\ row.user = o.user /\ row.code = o.code
         /\ \A row \in access' : \E o \in access :
               /\ row.client = o.client /\ row.user = o.user
               /\ row.code = o.code /\ row.refresh = o.refresh
<1>0. codes \subseteq CodeRow /\ refresh \subseteq RefreshRow /\ access \subseteq AccessRow
  BY DEF TypeOK
<1>1. IdsOf(codes') = IdsOf(codes)
  <2>1. \A row \in codes : [row EXCEPT !.valid = FALSE].id = row.id
    BY <1>0 DEF CodeRow
  <2> QED BY <2>1 DEF Fades, Invalidated, IdsOf
<1>2. IdsOf(refresh') = IdsOf(refresh)
  <2>1. \A row \in refresh : [row EXCEPT !.valid = FALSE].id = row.id
    BY <1>0 DEF RefreshRow
  <2> QED BY <2>1 DEF Fades, Invalidated, IdsOf
<1>3. IdsOf(access') = IdsOf(access)
  <2>1. \A row \in access : [row EXCEPT !.valid = FALSE].id = row.id
    BY <1>0 DEF AccessRow
  <2> QED BY <2>1 DEF Fades, Invalidated, IdsOf
<1>4. \A row \in refresh' : \E o \in refresh :
         row.client = o.client /\ row.user = o.user /\ row.code = o.code
  BY <1>0 DEF Fades, Invalidated, RefreshRow
<1>5. \A row \in access' : \E o \in access :
         /\ row.client = o.client /\ row.user = o.user
         /\ row.code = o.code /\ row.refresh = o.refresh
  BY <1>0 DEF Fades, Invalidated, AccessRow
<1> QED BY <1>1, <1>2, <1>3, <1>4, <1>5

LEMMA NextForeignKeys ==
  ASSUME TypeOK, ForeignKeys,
         \/ AddsCodes \/ Shrinks \/ \E x : Fades(x)
         \/ \E row : AddsRefresh(row) \/ AddsAccess(row)
  PROVE  ForeignKeys'
<1>1. CASE AddsCodes
  <2>1. IdsOf(codes) \subseteq IdsOf(codes')
    BY <1>1 DEF AddsCodes, IdsOf
  <2> QED BY <1>1, <2>1 DEF AddsCodes, ForeignKeys, RefreshFk, AccessFk, OrNone
<1>2. CASE Shrinks
  BY <1>2 DEF Shrinks, Cascade, ForeignKeys
<1>3. ASSUME NEW x, Fades(x) PROVE ForeignKeys'
  <2>1. UNCHANGED <<users, clients>>
    BY <1>3 DEF Fades
  <2>2. \A row \in refresh' : RefreshFk(row, users', clients', codes')
    BY <1>3, <2>1, FadedRows DEF ForeignKeys, RefreshFk
  <2>3. \A row \in access' : AccessFk(row, users', clients', codes', refresh')
    BY <1>3, <2>1, FadedRows DEF ForeignKeys, AccessFk
  <2> QED BY <2>2, <2>3 DEF ForeignKeys
<1>4. ASSUME NEW row, AddsRefresh(row) PROVE ForeignKeys'
  <2>1. IdsOf(refresh) \subseteq IdsOf(refresh')
    BY <1>4 DEF AddsRefresh, IdsOf
  <2> QED BY <1>4, <2>1 DEF AddsRefresh, ForeignKeys, RefreshFk, AccessFk, OrNone
<1>5. ASSUME NEW row, AddsAccess(row) PROVE ForeignKeys'
  BY <1>5 DEF AddsAccess, ForeignKeys
<1> QED BY <1>1, <1>2, <1>3, <1>4, <1>5

\* An access token's row stays, unless its user or its client goes.
LEMMA AccessStays ==
  ASSUME IInv, ForeignKeys, Kinship, NEW row \in access,
         row.user \in OrNone(users'), row.client \in clients',
         \/ AddsCodes \/ Shrinks \/ \E x : Fades(x)
         \/ \E new : AddsRefresh(new) \/ AddsAccess(new)
  PROVE  row.id \in IdsOf(access')
<1>0. TypeOK /\ \A o \in codes \union refresh \union access : Owned(o)
  BY DEF IInv, Ownership, RowsOwned
<1>1. CASE AddsCodes \/ \E new : AddsRefresh(new) \/ AddsAccess(new)
  BY <1>1, IdsOfIs DEF AddsCodes, AddsRefresh, AddsAccess
<1>2. ASSUME NEW x, Fades(x) PROVE row.id \in IdsOf(access')
  BY <1>0, <1>2, FadedRows, IdsOfIs
<1>3. CASE Shrinks
  <2>1. ASSUME NEW k \in codes, Owns(k.id, row.client, row.user) PROVE k.id \in IdsOf(codes')
    <3>1. k.client = row.client /\ k.user = row.user /\ k.user \in Users
      BY <1>0, <2>1 DEF Owned, Owns, TypeOK, CodeRow
    <3>2. k.user \in users'
      BY <3>1, NoneAssumption DEF OrNone
    <3>3. k \in codes'
      BY <1>3, <3>1, <3>2 DEF Shrinks, Cascade, CodeFk
    <3> QED BY <3>3, IdsOfIs
  <2>2. ASSUME NEW t \in refresh, Owns(t.id, row.client, row.user)
        PROVE  t.id \in IdsOf(refresh')
    <3>1. t.client = row.client /\ t.user = row.user
      BY <1>0, <2>2 DEF Owned, Owns
    <3>2. t.code \in OrNone(IdsOf(codes'))
      <4>1. t.code # None => t.code \in IdsOf(codes) /\ Owns(t.code, row.client, row.user)
        BY <3>1 DEF ForeignKeys, RefreshFk, Kinship, OrNone
      <4> QED BY <2>1, <4>1, IdsOfIs DEF OrNone
    <3>3. t \in refresh'
      BY <1>3, <3>1, <3>2 DEF Shrinks, Cascade, RefreshFk
    <3> QED BY <3>3, IdsOfIs
  <2>3. row.code \in OrNone(IdsOf(codes'))
    <3>1. row.code # None => row.code \in IdsOf(codes) /\ Owns(row.code, row.client, row.user)
      BY DEF ForeignKeys, AccessFk, Kinship, OrNone
    <3> QED BY <2>1, <3>1, IdsOfIs DEF OrNone
  <2>4. row.refresh \in OrNone(IdsOf(refresh'))
    <3>1. row.refresh # None => /\ row.refresh \in IdsOf(refresh)
                                /\ Owns(row.refresh, row.client, row.user)
      BY DEF ForeignKeys, AccessFk, Kinship, OrNone
    <3> QED BY <2>2, <3>1, IdsOfIs DEF OrNone
  <2>5. row \in access'
    BY <1>3, <2>3, <2>4 DEF Shrinks, Cascade, AccessFk
  <2> QED BY <2>5, IdsOfIs
<1> QED BY <1>1, <1>2, <1>3

\* What a step sends, and what it makes of the requests.
LEMMA NextSent ==
  ASSUME IInv, PInv, [Next]_vars
  PROVE  \A row \in Sent' :
            row \in Sent \/ \E p \in Requests : req[p].pc = "jwt" /\ row = RefreshRowOf(req[p])
<1>0. TypeOK
  BY DEF IInv
<1>1. (\A w \in writes' : w \in writes \/ w.op # "refresh") => Sent' \subseteq Sent
  BY DEF Sent
<1>2. ASSUME NEW p \in Requests, Arrive(p) PROVE writes' = writes
  BY <1>0, <1>2, ArriveStep
<1>3. \A x : Invalidate(x).op # "refresh"
  BY DEF Invalidate
<1>4. ASSUME NEW p \in Requests, GenerateJwtToken(p), NEW w \in writes', w.op = "refresh"
      PROVE  w \in writes \/ (req[p].pc = "jwt" /\ w.row = RefreshRowOf(req[p]))
  BY <1>4, ConsentIsNoRefresh DEF GenerateJwtToken, At
<1>5. ASSUME NEW p \in Requests, Die \/ Reject(p) PROVE Sent' \subseteq Sent
  BY <1>5, OrphanedSent DEF Reject, Die, Sent
<1>6. ASSUME NEW p \in Requests, SaveToken(p) PROVE Sent' \subseteq Sent
  BY <1>1, <1>6, ConsentIsNoRefresh DEF SaveToken
<1>7. ASSUME NEW p \in Requests, RevokeAuthorizationCode(p)
      PROVE  Sent' \subseteq Sent
  BY <1>1, <1>3, <1>7 DEF RevokeAuthorizationCode
<1>8. ASSUME NEW p \in Requests,
             \/ writes' = writes \/ \E x : writes' = writes \union {Invalidate(x)}
      PROVE  Sent' \subseteq Sent
  BY <1>1, <1>3, <1>8
<1>9. ASSUME NEW p \in Requests,
             RevokeRefreshToken(p) \/ RevokeAccessToken(p) \/ IshareReadCode(p)
      PROVE  Sent' \subseteq Sent
  BY <1>8, <1>9 DEF RevokeRefreshToken, RevokeAccessToken, IshareReadCode
<1>10. ASSUME NEW p \in Requests, StoreRefresh(p) \/ StoreAccess(p) \/ IshareStoreToken(p)
       PROVE  Sent' \subseteq Sent
  BY <1>1, <1>5, <1>10 DEF StoreRefresh, StoreAccess, IshareStoreToken
<1>11. ASSUME NEW p \in Requests, Handle(p), ~GenerateJwtToken(p) PROVE Sent' \subseteq Sent
  <2>1. CASE \/ CheckUserAuthorizedApplication(p) \/ EnableApp(p) \/ SaveAuthorizationCode(p)
             \/ GetAuthorizationCode(p) \/ GetRefreshToken(p) \/ GetIdentity(p)
             \/ RespondToken(p)
    BY <1>1, <2>1 DEF CheckUserAuthorizedApplication, EnableApp, SaveAuthorizationCode,
       GetAuthorizationCode, GetRefreshToken, GetIdentity, RespondToken
  <2> QED BY <1>6, <1>7, <1>9, <1>10, <1>11, <2>1 DEF Handle
<1>12. Execute => Sent' \subseteq Sent
  <2>1. Die => Sent' \subseteq Sent
    BY DEF Die, Sent
  <2>2. writes' \subseteq writes => Sent' \subseteq Sent
    BY DEF Sent
  <2> QED BY <2>1, <2>2 DEF Execute, ExecuteInvalidate, ExecuteRefresh, ExecuteConsent
<1>13. Environment => Sent' \subseteq Sent
  <2>1. Die => Sent' \subseteq Sent
    BY DEF Die, Sent
  <2> QED BY <1>1, <1>5, <2>1 DEF Environment, DeleteUser, DeleteClient,
          DeleteThirdPartyApplication, ProcessDies, StatementFails
<1>14. UNCHANGED vars => Sent' \subseteq Sent
  BY <1>1 DEF vars
<1>15. CASE \E p \in Requests : GenerateJwtToken(p)
  BY <1>4, <1>15 DEF Sent
<1> QED BY <1>1, <1>2, <1>11, <1>12, <1>13, <1>14, <1>15 DEF Next

Progress(p, n) ==
    \/ "jwt" \in n.form \/ n.pc \notin {"jwt", "storeConsent"}
    \/ /\ req[p].pc = "storeAccess" /\ n.pc = "storeConsent" /\ n.a = req[p].a
       /\ AccessRowOf(req[p]) \in access'

LEMMA HandleProgresses ==
  ASSUME IInv, PInv, Written, NEW p \in Requests, Handle(p)
  PROVE  CalmRequests \/ \E n : Become(p, n) /\ Progress(p, n)
<1>q. PICK q : q = req[p]
  OBVIOUS
<1>0. TypeOK /\ q \in Request /\ AllSeeded
  BY <1>q DEF IInv, TypeOK, PInv
<1>1. CASE Prelude(p)
  <2>1. PICK n \in Request : Become(p, n) /\ n.pc \notin Storing
    BY <1>0, <1>1, PreludeTurn DEF Turn
  <2> QED BY <2>1 DEF Progress, Storing
<1>2. CASE SaveToken(p)
  <2>1. PICK a \in Fresh(Accesses), r \in OrNone(Fresh(Refreshes)), n \in Request :
           /\ n = [q EXCEPT !.a = a, !.r = r,
                            !.pc = IF "jwt" \in q.form THEN "jwt"
                                   ELSE IF r # None THEN "storeRefresh"
                                   ELSE "storeAccess"]
           /\ Become(p, n)
    BY <1>2, <1>q, SaveTokenDraws
  <2>2. n.form = q.form /\ (n.pc = "jwt" => "jwt" \in q.form) /\ n.pc # "storeConsent"
    BY <1>0, <2>1 DEF Request
  <2> QED BY <2>1, <2>2 DEF Progress
<1>3. CASE GenerateJwtToken(p)
  <2>1. PICK n : n = [q EXCEPT !.pc = "storeConsent"]
    OBVIOUS
  <2>2. q.pc = "jwt" /\ Become(p, n) /\ n.form = q.form
    BY <1>0, <1>3, <1>q, <2>1 DEF GenerateJwtToken, At, Goto, Request
  <2>3. "jwt" \in n.form
    BY <1>q, <2>2 DEF Written
  <2> QED BY <2>2, <2>3 DEF Progress
<1>4. ASSUME NEW pc, Goto(p, pc), pc \notin {"jwt", "storeConsent"}
      PROVE  \E n : Become(p, n) /\ Progress(p, n)
  <2>1. PICK n : n = [q EXCEPT !.pc = pc]
    OBVIOUS
  <2>2. n.pc = pc /\ Become(p, n)
    BY <1>0, <1>4, <1>q, <2>1 DEF Request, Goto
  <2> QED BY <1>4, <2>2 DEF Progress
<1>5. CASE StoreRefresh(p)
  BY <1>4, <1>5, CalmFinish DEF StoreRefresh, Reject
<1>6. CASE StoreAccess(p)
  <2>1. CASE Reject(p)
    BY <2>1, CalmFinish DEF Reject
  <2>2. CASE access' = access \union {AccessRowOf(q)} /\ Goto(p, "storeConsent")
    <3>1. PICK n : n = [q EXCEPT !.pc = "storeConsent"]
      OBVIOUS
    <3>2. q.pc = "storeAccess" /\ Become(p, n) /\ n.a = q.a /\ n.pc = "storeConsent"
      BY <1>0, <1>6, <1>q, <2>2, <3>1 DEF StoreAccess, At, Goto, Request
    <3> QED BY <1>q, <2>2, <3>2 DEF Progress
  <2> QED BY <1>6, <1>q, <2>1, <2>2 DEF StoreAccess
<1>7. CASE RespondToken(p)
  BY <1>7, CalmFinish DEF RespondToken
<1>8. CASE IshareReadCode(p)
  <2>1. CASE Finish(p)
    BY <2>1, CalmFinish
  <2>2. ASSUME NEW row \in ValidCode(p), NEW a \in Fresh(Accesses), NEW n \in Request,
               n = [req[p] EXCEPT !.pc = "ishareStore", !.a = a, !.user = row.user],
               Become(p, n)
        PROVE  Progress(p, n)
    <3>1. n.pc = "ishareStore"
      BY <1>0, <1>q, <2>2 DEF Request
    <3> QED BY <3>1 DEF Progress
  <2> QED BY <1>8, <2>1, <2>2, IshareReadDraws
<1>9. CASE IshareStoreToken(p)
  <2>1. Die => CalmRequests
    BY DEF Die, CalmRequests, Lighter, Idle, Storing
  <2> QED BY <1>9, <2>1, CalmFinish DEF IshareStoreToken
<1> QED BY <1>1, <1>2, <1>3, <1>5, <1>6, <1>7, <1>8, <1>9 DEF Handle, Prelude

LEMMA NextProgresses ==
  ASSUME IInv, PInv, Written, [Next]_vars
  PROVE  CalmRequests \/ \E p \in Requests : \E n : Become(p, n) /\ Progress(p, n)
<1>0. TypeOK /\ AllSeeded
  BY DEF IInv, PInv
<1>i. \A q : Lighter(q, q)
  BY DEF Lighter
<1>u. req' = req => CalmRequests
  BY <1>i DEF CalmRequests
<1>d. Die => CalmRequests
  BY DEF Die, CalmRequests, Lighter, Idle, Storing
<1>1. ASSUME NEW p \in Requests, Arrive(p)
      PROVE  \E n : Become(p, n) /\ Progress(p, n)
  <2>1. PICK n \in Request : Become(p, n) /\ n.pc \notin Storing
    BY <1>0, <1>1, ArriveTurn DEF Turn
  <2> QED BY <2>1 DEF Progress, Storing
<1>2. ASSUME NEW p \in Requests, Handle(p)
      PROVE  CalmRequests \/ \E n : Become(p, n) /\ Progress(p, n)
  BY <1>2, HandleProgresses
<1>3. ASSUME NEW w \in writes, ExecuteConsent(w) PROVE CalmRequests
  <2>1. CASE w.by # None /\ Become(w.by, [req[w.by] EXCEPT !.failed = TRUE])
    <3>1. w.by \in Requests
      BY <1>0, <1>3, <2>1 DEF ExecuteConsent, TypeOK, ConsentWrite, RefreshWrite,
         InvalidateWrite, OrNone
    <3>2. Lighter(req[w.by], [req[w.by] EXCEPT !.failed = TRUE])
      BY <1>0, <3>1 DEF TypeOK, Request, Lighter
    <3> QED BY <2>1, <3>1, <3>2, CalmTurn
  <2> QED BY <1>u, <1>d, <1>3, <2>1 DEF ExecuteConsent
<1>4. Execute => CalmRequests
  BY <1>u, <1>d, <1>3 DEF Execute, ExecuteInvalidate, ExecuteRefresh
<1>5. Environment => CalmRequests
  BY <1>u, <1>d, CalmFinish DEF Environment, DeleteUser, DeleteClient,
     DeleteThirdPartyApplication, ProcessDies, StatementFails, Reject
<1>6. UNCHANGED vars => CalmRequests
  BY <1>u DEF vars
<1> QED BY <1>1, <1>2, <1>4, <1>5, <1>6 DEF Next

LEMMA NextKinship ==
  ASSUME IInv, IInv', PInv, DInv, LedgerGrows, [Next]_vars
  PROVE  Kinship'
<1>0. /\ TypeOK /\ RowsOwned
      /\ \A p \in Requests : req[p] \in Request /\ Seeded(req[p]) /\ Entitled(req[p])
  BY DEF IInv, PInv, TypeOK, Ownership, AllSeeded
<1>t. /\ refresh' \subseteq RefreshRow /\ access' \subseteq AccessRow
      /\ Sent' \subseteq RefreshRow
  BY DEF IInv, TypeOK, Sent, RefreshWrite, InvalidateWrite, ConsentWrite
<1>n. None \notin Codes
  BY NoneAssumption DEF Ids
<1>k. Kinship
  BY DEF DInv
<1>g. \A x \in Ids, c \in Clients : \A u : Owns(x, c, u) => Owns(x, c, u)'
  BY NoneAssumption DEF LedgerGrows, Owns
<1>1. \A p \in Requests : req[p].pc \in Storing =>
         LET row == RefreshRowOf(req[p])
         IN  row.code # None => Owns(row.code, row.client, row.user)
  BY <1>0, <1>n DEF RefreshRowOf, CodeOf, Seeded
<1>2. \A p \in Requests : req[p].pc \in Storing =>
         LET row == AccessRowOf(req[p])
         IN  /\ row.code # None => Owns(row.code, row.client, row.user)
             /\ row.refresh # None => Owns(row.refresh, row.client, row.user)
  BY <1>0, <1>n DEF AccessRowOf, CodeOf, Seeded, Entitled
<1>3. \A row \in Sent' : row.code # None => Owns(row.code, row.client, row.user)
  BY <1>1, <1>k, NextSent DEF Kinship, Storing
<1>4. /\ \A row \in refresh' : row.code # None => Owns(row.code, row.client, row.user)
      /\ \A row \in access' :
            /\ row.code # None => Owns(row.code, row.client, row.user)
            /\ row.refresh # None => Owns(row.refresh, row.client, row.user)
  <2>1. CASE AddsCodes \/ Shrinks
    BY <2>1, <1>k DEF AddsCodes, Shrinks, Cascade, Kinship
  <2>2. ASSUME NEW x, Fades(x)
        PROVE  /\ \A row \in refresh' : row.code # None => Owns(row.code, row.client, row.user)
               /\ \A row \in access' :
                     /\ row.code # None => Owns(row.code, row.client, row.user)
                     /\ row.refresh # None => Owns(row.refresh, row.client, row.user)
    BY <1>0, <1>k, <2>2, FadedRows DEF Kinship
  <2>3. ASSUME NEW row \in Sent, AddsRefresh(row)
        PROVE  /\ access' = access
               /\ \A o \in refresh' : o.code # None => Owns(o.code, o.client, o.user)
    BY <1>k, <2>3 DEF AddsRefresh, Kinship
  <2>4. ASSUME NEW p \in Requests, req[p].pc = "storeRefresh", AddsRefresh(RefreshRowOf(req[p]))
        PROVE  /\ access' = access
               /\ \A o \in refresh' : o.code # None => Owns(o.code, o.client, o.user)
    BY <1>k, <1>1, <2>4 DEF AddsRefresh, Kinship, Storing
  <2>5. ASSUME NEW p \in Requests, req[p].pc \in {"storeAccess", "ishareStore"},
               AddsAccess(AccessRowOf(req[p]))
        PROVE  /\ refresh' = refresh
               /\ \A o \in access' :
                     /\ o.code # None => Owns(o.code, o.client, o.user)
                     /\ o.refresh # None => Owns(o.refresh, o.client, o.user)
    BY <1>k, <1>2, <2>5 DEF AddsAccess, Kinship, Storing
  <2> QED BY <1>k, <2>1, <2>2, <2>3, <2>4, <2>5, NextTables DEF Kinship
<1>5. \A row \in refresh' \union Sent' : row.code # None => Owns(row.code, row.client, row.user)'
  <2>1. \A row \in refresh' \union Sent' : row.client \in Clients /\ row.code \in OrNone(Codes)
    BY <1>t DEF RefreshRow
  <2> QED BY <1>3, <1>4, <1>g, <2>1 DEF OrNone, Ids
<1>6. \A row \in access' : /\ row.code # None => Owns(row.code, row.client, row.user)'
                           /\ row.refresh # None => Owns(row.refresh, row.client, row.user)'
  <2>1. \A row \in access' : /\ row.client \in Clients /\ row.code \in OrNone(Codes)
                             /\ row.refresh \in OrNone(Refreshes)
    BY <1>t DEF AccessRow
  <2> QED BY <1>4, <1>g, <2>1 DEF OrNone, Ids
<1> QED BY <1>5, <1>6 DEF Kinship

LEMMA KeptStays ==
  ASSUME IInv, DInv, LedgerGrows, [Next]_vars, NEW a \in Ids, Drawn1(a), Kept(a)
  PROVE  Kept(a)'
<1>0. TypeOK /\ RowsOwned
  BY DEF IInv, Ownership
<1>1. ledger'[a].user = ledger[a].user /\ ledger'[a].client = ledger[a].client
  BY DEF LedgerGrows, Drawn1
<1>2. \/ AddsCodes \/ Shrinks \/ \E x : Fades(x)
      \/ \E new : AddsRefresh(new) \/ AddsAccess(new)
  BY NextTables
<1>3. users' \subseteq users /\ clients' \subseteq clients
  BY <1>2 DEF AddsCodes, Shrinks, Fades, AddsRefresh, AddsAccess
<1>4. CASE a \in IdsOf(access)
  <2>1. PICK row \in access : row.id = a
    BY <1>4, IdsOfIs
  <2>2. row.user = ledger[a].user /\ row.client = ledger[a].client
    BY <1>0, <2>1 DEF RowsOwned, Owned, Owns
  <2>3. row.user \in OrNone(users') /\ row.client \in clients' => a \in IdsOf(access')
    BY <1>2, <2>1, AccessStays DEF DInv
  <2> QED BY <1>1, <2>2, <2>3 DEF Kept
<1>5. CASE a \notin IdsOf(access)
  BY <1>1, <1>3, <1>5 DEF Kept, OrNone
<1> QED BY <1>4, <1>5

LEMMA NextWritten ==
  ASSUME IInv, PInv, DInv, LedgerGrows, [Next]_vars
  PROVE  Written'
<1>0. Written /\ ReqOK /\ \A p \in Requests : Entitled(req[p])
  BY DEF IInv, DInv, Ownership
<1>1. ASSUME NEW p \in Requests, NEW n, n = req'[p]
      PROVE  /\ n.pc = "jwt" => "jwt" \in n.form
             /\ n.pc = "storeConsent" /\ "jwt" \notin n.form => Kept(n.a)'
  <2>1. CASE Lighter(req[p], n)
    <3>1. n.pc \in Storing =>
             n.pc = req[p].pc /\ n.a = req[p].a /\ n.form = req[p].form
      BY <2>1 DEF Lighter
    <3>2. n.pc = "jwt" => "jwt" \in n.form
      BY <1>0, <3>1 DEF Written, Storing
    <3>3. ASSUME n.pc = "storeConsent", "jwt" \notin n.form
          PROVE  Kept(n.a)'
      <4>1. Kept(req[p].a)
        BY <1>0, <3>1, <3>3 DEF Written, Storing
      <4>2. Kept(n.a)
        BY <3>1, <3>3, <4>1 DEF Storing
      <4>3. n.a \in Ids /\ Drawn1(n.a)
        BY <1>0, <3>1, <3>3, NoneAssumption DEF ReqOK, WellFormed, Entitled, Owns, Drawn1,
           Ids, Storing
      <4> QED BY <4>2, <4>3, KeptStays
    <3> QED BY <3>2, <3>3
  <2>2. CASE Progress(p, n)
    <3>1. CASE n.pc = "storeConsent" /\ n.a = req[p].a /\ AccessRowOf(req[p]) \in access'
      <4>1. n.a \in IdsOf(access')
        BY <3>1, IdsOfIs DEF AccessRowOf
      <4>2. Kept(n.a)'
        BY <4>1 DEF Kept
      <4> QED BY <3>1, <4>2
    <3> QED BY <2>2, <3>1 DEF Progress
  <2>3. CASE CalmRequests
    BY <1>1, <2>1, <2>3 DEF CalmRequests
  <2>4. ASSUME NEW o \in Requests, NEW m, Become(o, m), Progress(o, m)
        PROVE  Lighter(req[p], n) \/ Progress(p, n)
    <3>1. p # o => n = req[p]
      BY <1>1, <2>4, OnlyOne
    <3>2. p = o => n = m
      BY <1>1, <2>4, OnlyOne
    <3>3. Lighter(req[p], req[p])
      BY DEF Lighter
    <3> QED BY <2>4, <3>1, <3>2, <3>3
  <2> QED BY <1>0, <2>1, <2>2, <2>3, <2>4, NextProgresses
<1>2. \A p \in Requests : \A n : n = req'[p] =>
         /\ n.pc = "jwt" => "jwt" \in n.form
         /\ n.pc = "storeConsent" /\ "jwt" \notin n.form => Kept(n.a)'
  BY <1>1
<1> QED BY <1>2 DEF Written, Kept

\* A token is handed over by the request that has stored it, or with its signature.
LEMMA NextDelivers ==
  ASSUME IInv, PInv, DInv, [Next]_vars, NEW a \in Accesses, ledger'[a].held, ~ledger[a].held
  PROVE  \/ a \in IdsOf(access') \/ \E j \in jwts' : j.id = a
         \/ Kept(a) /\ Drawn1(a)
<1>0. /\ TypeOK /\ Written /\ ReqOK
      /\ a \in Ids /\ a \notin Codes /\ a \notin Refreshes /\ a # None
  BY IdsAssumption, NoneAssumption DEF IInv, DInv, Ids
<1>1. ASSUME NEW xs, ledger' = Delivered(xs) PROVE a \in xs
  BY <1>0, <1>1 DEF TypeOK, Delivered, Entry
<1>2. ASSUME NEW q, NEW xs, ledger' = Drawn(q, xs, FALSE) PROVE FALSE
  BY <1>0, <1>2 DEF Drawn
<1>3. ASSUME NEW p \in Requests, SaveAuthorizationCode(p) PROVE FALSE
  <2>1. PICK k \in Codes : ledger' = Drawn(req[p], {k}, TRUE) \/ ledger' = ledger
    BY <1>3 DEF SaveAuthorizationCode, Fresh
  <2> QED BY <1>0, <2>1 DEF Drawn
<1>4. ASSUME NEW p \in Requests, RespondToken(p)
      PROVE  (\E j \in jwts' : j.id = a) \/ (Kept(a) /\ Drawn1(a))
  <2>1. /\ ledger' = Delivered({req[p].a, req[p].r}) /\ req[p].pc = "storeConsent"
        /\ "jwt" \in req[p].form => jwts' = jwts \union {JwtOf(req[p])}
    BY <1>4 DEF RespondToken, At
  <2>2. a \in {req[p].a, req[p].r}
    BY <1>1, <2>1
  <2>3. req[p].r \in OrNone(Refreshes)
    BY <1>0 DEF TypeOK, Request
  <2>4. a = req[p].a
    BY <1>0, <2>2, <2>3 DEF OrNone
  <2>5. Drawn1(a)
    BY <2>1, <2>4, NoneAssumption DEF IInv, Ownership, Entitled, Owns, Drawn1, Storing,
       ReqOK, WellFormed
  <2>6. "jwt" \in req[p].form => \E j \in jwts' : j.id = a
    <3>1. JwtOf(req[p]).id = a
      BY <2>4 DEF JwtOf
    <3> QED BY <2>1, <3>1
  <2>7. "jwt" \notin req[p].form => Kept(a)
    BY <1>0, <2>1, <2>4 DEF Written
  <2> QED BY <2>5, <2>6, <2>7
<1>5. ASSUME NEW p \in Requests, IshareStoreToken(p)
      PROVE  a \in IdsOf(access')
  <2>1. ledger' = Delivered({req[p].a}) /\ access' = access \union {AccessRowOf(req[p])}
    BY <1>5 DEF IshareStoreToken
  <2>2. AccessRowOf(req[p]).id = a
    BY <1>1, <2>1 DEF AccessRowOf
  <2> QED BY <2>1, <2>2, IdsOfIs
<1>6. ASSUME NEW p \in Requests, SaveToken(p) PROVE FALSE
  BY <1>2, <1>6 DEF SaveToken
<1>7. ASSUME NEW p \in Requests, IshareReadCode(p) PROVE FALSE
  BY <1>2, <1>7, IshareReadDraws
<1>8. ASSUME NEW p \in Requests, Handle(p)
      PROVE  \/ SaveAuthorizationCode(p) \/ SaveToken(p) \/ RespondToken(p)
             \/ IshareReadCode(p) \/ IshareStoreToken(p)
  BY <1>8 DEF Handle, CheckUserAuthorizedApplication, EnableApp, GetAuthorizationCode,
     GetRefreshToken, GetIdentity, RevokeAuthorizationCode, RevokeRefreshToken,
     RevokeAccessToken, GenerateJwtToken, StoreRefresh, StoreAccess, history
<1>9. ASSUME NEW p \in Requests, Arrive(p) PROVE ledger' = ledger
  BY <1>0, <1>9, ArriveStep DEF history
<1>10. Execute \/ Environment \/ UNCHANGED vars => ledger' = ledger
  BY DEF Execute, ExecuteInvalidate, ExecuteRefresh, ExecuteConsent, Environment,
     DeleteUser, DeleteClient, DeleteThirdPartyApplication, ProcessDies,
     StatementFails, history, vars
<1> QED BY <1>3, <1>4, <1>5, <1>6, <1>7, <1>8, <1>9, <1>10 DEF Next

LEMMA NextJwts ==
  ASSUME IInv, [Next]_vars
  PROVE  jwts \subseteq jwts'
<1>0. TypeOK
  BY DEF IInv
<1>1. ASSUME NEW p \in Requests, Arrive(p) PROVE jwts' = jwts
  BY <1>0, <1>1, ArriveStep DEF tables
<1>2. ASSUME NEW p \in Requests, Handle(p) PROVE jwts \subseteq jwts'
  <2>1. CASE RespondToken(p)
    BY <2>1 DEF RespondToken
  <2> QED BY <1>2, <2>1 DEF Handle, CheckUserAuthorizedApplication, EnableApp,
       SaveAuthorizationCode, GetAuthorizationCode, GetRefreshToken, GetIdentity,
       RevokeAuthorizationCode, RevokeRefreshToken, RevokeAccessToken, SaveToken,
       GenerateJwtToken, StoreRefresh, StoreAccess, IshareReadCode, IshareStoreToken, tables
<1>3. Execute \/ Environment \/ UNCHANGED vars => jwts' = jwts
  BY DEF Execute, ExecuteInvalidate, ExecuteRefresh, ExecuteConsent, Environment,
     DeleteUser, DeleteClient, DeleteThirdPartyApplication, ProcessDies,
     StatementFails, tables, vars
<1> QED BY <1>1, <1>2, <1>3 DEF Next

LEMMA DeliveredIs ==
  DeliveredIsStored <=>
     \A a \in Accesses : ledger[a].held => Kept(a) \/ \E j \in jwts : j.id = a
  BY DEF DeliveredIsStored, Kept

LEMMA DeliveredThen ==
  DeliveredIsStored' <=>
     \A a \in Accesses : ledger'[a].held => Kept(a)' \/ \E j \in jwts' : j.id = a
  BY DEF DeliveredIsStored, Kept

LEMMA NextDelivered ==
  ASSUME IInv, PInv, DInv, LedgerGrows, [Next]_vars
  PROVE  DeliveredIsStored'
<1> SUFFICES ASSUME NEW a \in Accesses, ledger'[a].held
             PROVE  Kept(a)' \/ \E j \in jwts' : j.id = a
  BY DeliveredThen
<1>0. a \in Ids
  BY DEF Ids
<1>1. CASE ledger[a].held
  <2>1. Drawn1(a)
    BY <1>0, <1>1 DEF PInv, Known, Drawn1
  <2>2. Kept(a) \/ \E j \in jwts : j.id = a
    BY <1>1, DeliveredIs DEF DInv
  <2> QED BY <1>0, <2>1, <2>2, KeptStays, NextJwts
<1>2. CASE ~ledger[a].held
  <2>1. a \in IdsOf(access') => Kept(a)'
    BY DEF Kept
  <2> QED BY <1>0, <1>2, <2>1, KeptStays, NextDelivers
<1> QED BY <1>1, <1>2

LEMMA InitDelivered == Init => DInv
<1> SUFFICES ASSUME Init PROVE DInv
  OBVIOUS
<1>1. /\ refresh = {} /\ access = {} /\ Sent = {}
      /\ \A p \in Requests : req[p] = Idle
      /\ \A a \in Ids : ~ledger[a].held
  BY DEF Init, Sent, Unused
<1> QED BY <1>1 DEF DInv, ForeignKeys, Kinship, Written, DeliveredIsStored, Idle, Ids

LEMMA NextKeepsDelivered == IInv /\ IInv' /\ PInv /\ DInv /\ [Next]_vars => DInv'
<1> SUFFICES ASSUME IInv, IInv', PInv, DInv, [Next]_vars PROVE DInv'
  OBVIOUS
<1>1. TypeOK /\ HeldIsDrawn /\ ForeignKeys
  BY DEF IInv, PInv, Known, HeldIsDrawn, DInv
<1>2. LedgerGrows
  BY <1>1, NextGrows
<1>3. \/ AddsCodes \/ Shrinks \/ \E x : Fades(x)
      \/ \E row : AddsRefresh(row) \/ AddsAccess(row)
  BY NextTables
<1>4. ForeignKeys'
  BY <1>1, <1>3, NextForeignKeys
<1> QED BY <1>2, <1>4, NextKinship, NextWritten, NextDelivered DEF DInv

\* A bearer token in its client's hands has its row for as long as its user and its client
\* exist: storeToken answers after the rows are there, a row's foreign keys refer to rows of
\* its own client and user, so no cascade takes it without them, and no fault comes between.
THEOREM DeliveredTokensAreStored == Spec => []DeliveredIsStored
<1>1. Init => DInv
  BY InitDelivered
<1>2. IInv /\ IInv' /\ PInv /\ DInv /\ [Next]_vars => DInv'
  BY NextKeepsDelivered
<1>3. DInv => DeliveredIsStored
  BY DEF DInv
<1> QED BY <1>1, <1>2, <1>3, OnePlace, PTL DEF Spec

(***************************************************************************)
(* Acknowledged revocations hold where nothing comes between the answer    *)
(* and the update it has issued.                                           *)
(***************************************************************************)
\* Accounts and applications stay, no statement fails, the process does not die, and no
\* application asks for JWTs.
Undisturbed == /\ Deletable = {} /\ ~Faults
               /\ \A c \in Clients : "jwt" \notin TokenTypes[c]

Spoiled(x) == Invalidate(x) \in writes \/ ~Usable(x)

StillThere == users = Users /\ clients = Clients
NoJwts == /\ jwts = {} /\ Sent = {}
          /\ \A p \in Requests : "jwt" \notin req[p].form
          /\ \A row \in codes : "jwt" \notin row.form
\* The code of an iSHARE request, and the tokens that are about to be answered or have
\* been, are in the tables.
CodesFound == \A p \in Requests :
    At(p, "ishareStore") => CodeOf(req[p]) \in OrNone(IdsOf(codes))
LentOut(a, r, rows) == \E row \in rows : row.id = a /\ row.refresh = r
Answerable == \A p \in Requests :
    At(p, "storeConsent") => LentOut(req[p].a, req[p].r, access)
HeldLent == \A x \in Refreshes : ledger[x].held => \E row \in access : row.refresh = x
\* What a revocation has found out about the token it is to revoke.
Revokes(q) ==
    q.kind = "revoke" /\ q.pc \in {"revokeRefresh", "revokeAccess"} =>
        /\ q.grant \in Refreshes \union Accesses
        /\ q.pc = "revokeRefresh" => q.grant \in Refreshes /\ q.r = None
        /\ q.grant \in Accesses => q.r = None
        /\ q.pc = "revokeAccess" /\ q.grant \in Refreshes /\ ledger[q.grant].client = q.client =>
              Spoiled(q.grant)
        /\ q.r # None => q.grant \in Refreshes /\ ledger[q.grant].client = q.client
Revokers == \A p \in Requests : Revokes(req[p])
Revoked == \A t \in acked :
    /\ t \in Refreshes \union Accesses /\ ledger[t].held
    /\ \A x \in {t} \union BoughtWith(t) : Spoiled(x)

\* The inductive invariant of revocations, beside IInv, PInv and DInv.
Calm == StillThere /\ NoJwts /\ CodesFound
RInv == Calm /\ Answerable /\ HeldLent /\ Revokers /\ Revoked

LEMMA NothingDeleted ==
  ASSUME Undisturbed, Environment
  PROVE  /\ UNCHANGED <<users, clients, codes, refresh, access, jwts, writes, req, ledger, acked>>
  BY DEF Undisturbed, Environment, DeleteThirdPartyApplication

\* What the tables of the credentials come to, where nothing is deleted.
LEMMA CalmRows ==
  ASSUME IInv, Undisturbed, [Next]_vars
  PROVE  \/ AddsCodes \/ \E x : Fades(x)
         \/ \E row \in Sent : AddsRefresh(row)
         \/ \E p \in Requests : req[p].pc = "storeRefresh" /\ AddsRefresh(RefreshRowOf(req[p]))
         \/ \E p \in Requests : /\ req[p].pc \in {"storeAccess", "ishareStore"}
                                /\ AddsAccess(AccessRowOf(req[p]))
<1>1. Environment => AddsCodes
  BY NothingDeleted DEF AddsCodes
<1> QED BY <1>1, NextTables

LEMMA StaysThere ==
  ASSUME IInv, Undisturbed, StillThere, [Next]_vars
  PROVE  StillThere'
  BY CalmRows DEF StillThere, AddsCodes, AddsRefresh, AddsAccess, Fades

\* Rows stay, and so do the tokens they refer to.
LEMMA RowsStay ==
  ASSUME IInv, Undisturbed, [Next]_vars
  PROVE  /\ IdsOf(codes) \subseteq IdsOf(codes')
         /\ \A row \in access : LentOut(row.id, row.refresh, access')
<1>0. codes \subseteq CodeRow /\ access \subseteq AccessRow
  BY DEF IInv, TypeOK
<1>1. codes \subseteq codes' => IdsOf(codes) \subseteq IdsOf(codes')
  BY IdsOfIs
<1>2. access \subseteq access' => \A row \in access : LentOut(row.id, row.refresh, access')
  BY DEF LentOut
<1>3. ASSUME NEW x, Fades(x)
      PROVE  /\ IdsOf(codes) \subseteq IdsOf(codes')
             /\ \A row \in access : LentOut(row.id, row.refresh, access')
  <2>1. \A row \in codes : \E new \in codes' : new.id = row.id
    <3> SUFFICES ASSUME NEW row \in codes PROVE \E new \in codes' : new.id = row.id
      OBVIOUS
    <3>1. [row EXCEPT !.valid = FALSE].id = row.id
      BY <1>0 DEF CodeRow
    <3> QED BY <1>3, <3>1 DEF Fades, Invalidated
  <2>2. ASSUME NEW row \in access PROVE \E new \in access' : new.id = row.id /\ new.refresh = row.refresh
    <3>1. [row EXCEPT !.valid = FALSE].id = row.id /\ [row EXCEPT !.valid = FALSE].refresh = row.refresh
      BY <1>0 DEF AccessRow
    <3> QED BY <1>3, <3>1 DEF Fades, Invalidated
  <2> QED BY <2>1, <2>2, IdsOfIs DEF LentOut
<1>4. CASE AddsCodes
  BY <1>1, <1>2, <1>4 DEF AddsCodes
<1>5. ASSUME NEW row, AddsRefresh(row) \/ AddsAccess(row)
      PROVE  codes' = codes /\ access \subseteq access'
  BY <1>5 DEF AddsRefresh, AddsAccess
<1> QED BY <1>1, <1>2, <1>3, <1>4, <1>5, CalmRows

LEMMA LentOutStays ==
  ASSUME IInv, Undisturbed, [Next]_vars, NEW a, NEW r, LentOut(a, r, access)
  PROVE  LentOut(a, r, access')
  BY RowsStay DEF LentOut

\* Nothing executed or rejected ends the process.
LEMMA IshareStored ==
  ASSUME IInv, PInv, Calm, NEW p \in Requests, IshareStoreToken(p)
  PROVE  Finish(p) /\ UNCHANGED writes /\ ledger' = Delivered({req[p].a})
<1>1. req[p] \in Request /\ req[p].pc = "ishareStore" /\ req[p].r = None
  BY DEF IInv, TypeOK, IshareStoreToken, At, PInv, AllSeeded, Seeded
<1>2. req[p].client \in Clients /\ req[p].user \in OrNone(Users)
  BY <1>1 DEF IInv, ReqOK, WellFormed, Request
<1>3. CodeOf(req[p]) \in OrNone(IdsOf(codes))
  BY <1>1 DEF Calm, CodesFound, At
<1>4. AccessFk(AccessRowOf(req[p]), users, clients, codes, refresh)
  BY <1>1, <1>2, <1>3 DEF AccessFk, AccessRowOf, Calm, StillThere, OrNone
<1> QED BY <1>4 DEF IshareStoreToken

LEMMA CalmExecutes ==
  ASSUME IInv, Calm, NEW w \in writes, ExecuteRefresh(w) \/ ExecuteConsent(w)
  PROVE  w.op = "consent" /\ writes' = writes \ {w} /\ req' = req
<1>1. ~ExecuteRefresh(w)
  BY DEF ExecuteRefresh, Calm, NoJwts, Sent
<1>2. w.op = "consent" /\ w \in ConsentWrite
  BY <1>1 DEF ExecuteConsent, IInv, TypeOK, InvalidateWrite, RefreshWrite, ConsentWrite
<1>3. ConsentFk(w.pair, users, clients)
  BY <1>2 DEF ConsentWrite, Consent, ConsentFk, Calm, StillThere
<1> QED BY <1>1, <1>2, <1>3 DEF ExecuteConsent

\* An update that has been issued is executed before it is gone.
LEMMA IssuedStays ==
  ASSUME IInv, PInv, Calm, Undisturbed, [Next]_vars, NEW x, Invalidate(x) \in writes
  PROVE  Invalidate(x) \in writes' \/ Fades(x)
<1>0. TypeOK
  BY DEF IInv
<1>o. Invalidate(x).op = "invalidate" /\ Invalidate(x).id = x
  BY DEF Invalidate
<1>1. ASSUME NEW p \in Requests, Arrive(p) PROVE writes' = writes
  BY <1>0, <1>1, ArriveStep
<1>2. ASSUME NEW p \in Requests, Reject(p) PROVE Invalidate(x) \in writes'
  BY <1>2, <1>o DEF Reject, Orphaned
<1>3. ASSUME NEW p \in Requests, Handle(p) PROVE Invalidate(x) \in writes'
  <2>1. CASE \/ CheckUserAuthorizedApplication(p) \/ EnableApp(p) \/ SaveAuthorizationCode(p)
             \/ GetAuthorizationCode(p) \/ GetRefreshToken(p) \/ GetIdentity(p) \/ RespondToken(p)
    BY <2>1 DEF CheckUserAuthorizedApplication, EnableApp, SaveAuthorizationCode,
       GetAuthorizationCode, GetRefreshToken, GetIdentity, RespondToken
  <2>2. CASE \/ RevokeAuthorizationCode(p) \/ RevokeRefreshToken(p) \/ RevokeAccessToken(p)
             \/ SaveToken(p) \/ GenerateJwtToken(p) \/ IshareReadCode(p)
    BY <2>2 DEF RevokeAuthorizationCode, RevokeRefreshToken, RevokeAccessToken, SaveToken,
       GenerateJwtToken, IshareReadCode
  <2>3. CASE StoreRefresh(p) \/ StoreAccess(p)
    BY <1>2, <2>3 DEF StoreRefresh, StoreAccess
  <2>4. CASE IshareStoreToken(p)
    BY <2>4, IshareStored
  <2> QED BY <1>3, <2>1, <2>2, <2>3, <2>4 DEF Handle
<1>4. ASSUME NEW w \in writes, ExecuteInvalidate(w)
      PROVE  Invalidate(x) \in writes' \/ Fades(x)
  BY <1>4, <1>o DEF ExecuteInvalidate, Fades
<1>5. ASSUME NEW w \in writes, ExecuteRefresh(w) \/ ExecuteConsent(w) PROVE Invalidate(x) \in writes'
  BY <1>5, <1>o, CalmExecutes
<1>6. Environment \/ UNCHANGED vars => writes' = writes
  BY NothingDeleted DEF vars
<1> QED BY <1>1, <1>3, <1>4, <1>5, <1>6 DEF Next, Execute

\* A value whose row is there, or that has been handed over, is at rest.
LEMMA StoredAtRest ==
  ASSUME IInv, PInv, Calm, NEW x \in Accesses, x \in IdsOf(access)
  PROVE  x \in Ids /\ ~OnItsWay(x) /\ Drawn1(x)
<1>0. x \in Ids /\ x \notin Refreshes /\ x # None
  BY IdsAssumption, NoneAssumption DEF Ids
<1>1. PICK row \in access : row.id = x
  BY IdsOfIs
<1>2. \A p \in Requests : ~BearsAccess(req[p], x)
  BY <1>1 DEF PInv, Places, AccessPlaces
<1>3. \A p \in Requests : req[p].r \in OrNone(Refreshes)
  BY DEF IInv, TypeOK, Request
<1>4. \A p \in Requests : ~BearsRefresh(req[p], x)
  BY <1>0, <1>3 DEF BearsRefresh, OrNone
<1>5. Drawn1(x)
  <2>1. row.client \in Clients /\ ledger[x].client = row.client
    BY <1>1 DEF IInv, TypeOK, AccessRow, Ownership, RowsOwned, Owned, Owns
  <2> QED BY <2>1, NoneAssumption DEF Drawn1
<1> QED BY <1>0, <1>2, <1>4, <1>5, OnItsWayIs DEF Calm, NoJwts

LEMMA HeldAtRest ==
  ASSUME IInv, PInv, DInv, Calm, HeldLent, NEW x \in Refreshes \union Accesses, ledger[x].held
  PROVE  x \in Ids /\ ~OnItsWay(x) /\ Drawn1(x) /\ \A p \in Requests : ~Lends(req[p], x)
<1>0. /\ x \in Ids /\ x # None
      /\ \A p \in Requests : req[p].r \in OrNone(Refreshes) /\ req[p].a \in OrNone(Accesses)
  BY NoneAssumption DEF Ids, IInv, TypeOK, Request
<1>1. Drawn1(x)
  BY <1>0 DEF PInv, Known, Drawn1
<1>2. CASE x \in Accesses
  <2>1. ledger[x].client \in Clients /\ ledger[x].user \in OrNone(Users)
    BY <1>0, <1>1 DEF IInv, TypeOK, Entry, Drawn1, OrNone
  <2>2. x \in IdsOf(access)
    BY <1>2, <2>1 DEF DInv, DeliveredIsStored, Calm, StillThere, NoJwts
  <2>3. x \notin Refreshes
    BY <1>2, IdsAssumption
  <2>4. \A p \in Requests : ~Lends(req[p], x)
    BY <1>0, <2>3 DEF Lends, OrNone
  <2> QED BY <1>0, <1>1, <1>2, <2>2, <2>4, StoredAtRest
<1>3. CASE x \in Refreshes
  <2>1. PICK row \in access : row.refresh = x
    BY <1>3 DEF HeldLent
  <2>2. \A p \in Requests : ~Lends(req[p], x)
    BY <1>0, <2>1 DEF PInv, Places, Loans
  <2>3. x \in IdsOf(refresh)
    BY <1>0, <2>1 DEF DInv, ForeignKeys, AccessFk, OrNone
  <2>4. \A p \in Requests : ~BearsRefresh(req[p], x)
    BY <2>3, IdsOfIs DEF PInv, Places, RefreshPlaces
  <2>5. x \notin Accesses
    BY <1>3, IdsAssumption
  <2>6. \A p \in Requests : ~BearsAccess(req[p], x)
    BY <1>0, <2>5 DEF BearsAccess, OrNone
  <2> QED BY <1>0, <1>1, <2>2, <2>4, <2>6, OnItsWayIs DEF Calm, NoJwts
<1> QED BY <1>2, <1>3

\* What is at rest and is not honoured, or soon will not be, stays so.
LEMMA SpoiledStays ==
  ASSUME IInv, PInv, Calm, Calm', Undisturbed, Moves, [Next]_vars,
         NEW x \in Ids, Drawn1(x), ~OnItsWay(x), Spoiled(x)
  PROVE  Spoiled(x)'
<1>1. CASE ~Usable(x)
  BY <1>1 DEF Moves, Spoiled
<1>2. CASE Invalidate(x) \in writes
  <2>1. CASE Invalidate(x) \in writes'
    <3>1. Invalidate(x)' = Invalidate(x)
      BY DEF Invalidate
    <3> QED BY <2>1, <3>1 DEF Spoiled
  <2>2. CASE Fades(x)
    <3>1. \A row \in codes' \union refresh' \union access' : row.id = x => ~row.valid
      <4>0. codes \subseteq CodeRow /\ refresh \subseteq RefreshRow /\ access \subseteq AccessRow
        BY DEF IInv, TypeOK
      <4>1. \A row \in CodeRow \union RefreshRow \union AccessRow : ~[row EXCEPT !.valid = FALSE].valid
        BY DEF CodeRow, RefreshRow, AccessRow
      <4> QED BY <2>2, <4>0, <4>1 DEF Fades, Invalidated
    <3> QED BY <3>1 DEF Spoiled, Usable, Calm, NoJwts
  <2> QED BY <1>2, <2>1, <2>2, IssuedStays
<1> QED BY <1>1, <1>2 DEF Spoiled

\* Nothing more is bought with a refresh token that nobody is buying with.
LEMMA BoughtStays ==
  ASSUME IInv, PInv, DInv, Calm, Calm', Undisturbed, [Next]_vars,
         NEW t \in Ids, \A p \in Requests : ~Lends(req[p], t)
  PROVE  BoughtWith(t)' \subseteq BoughtWith(t)
<1>0. access \subseteq AccessRow /\ t # None
  BY NoneAssumption DEF IInv, TypeOK
<1>1. ASSUME \A row \in access' : row.refresh = t =>
                \E o \in access : o.id = row.id /\ o.refresh = t
      PROVE  BoughtWith(t)' \subseteq BoughtWith(t)
  BY <1>1 DEF BoughtWith, Calm, NoJwts
<1>2. CASE access' \subseteq access
  BY <1>1, <1>2
<1>3. ASSUME NEW x, Fades(x) PROVE BoughtWith(t)' \subseteq BoughtWith(t)
  <2>1. \A row \in access' : \E o \in access : o.id = row.id /\ o.refresh = row.refresh
    <3>1. \A row \in access : /\ [row EXCEPT !.valid = FALSE].id = row.id
                              /\ [row EXCEPT !.valid = FALSE].refresh = row.refresh
      BY <1>0 DEF AccessRow
    <3> QED BY <1>3, <3>1 DEF Fades, Invalidated
  <2> QED BY <1>1, <2>1
<1>4. ASSUME NEW p \in Requests, req[p].pc \in {"storeAccess", "ishareStore"},
             AddsAccess(AccessRowOf(req[p]))
      PROVE  BoughtWith(t)' \subseteq BoughtWith(t)
  <2>1. AccessRowOf(req[p]).refresh # t
    <3>1. AccessRowOf(req[p]).refresh = req[p].r
      BY DEF AccessRowOf
    <3>2. CASE req[p].pc = "storeAccess"
      BY <3>1, <3>2 DEF Lends
    <3>3. CASE req[p].pc = "ishareStore"
      BY <1>0, <3>1, <3>3 DEF PInv, AllSeeded, Seeded
    <3> QED BY <1>4, <3>2, <3>3
  <2> QED BY <1>1, <1>4, <2>1 DEF AddsAccess
<1>5. AddsCodes \/ (\E row : AddsRefresh(row)) => access' \subseteq access
  BY DEF AddsCodes, AddsRefresh
<1> QED BY <1>2, <1>3, <1>4, <1>5, CalmRows

\* A revocation that was acknowledged holds from then on.
LEMMA RevokedStays ==
  ASSUME IInv, PInv, DInv, Calm, Calm', HeldLent, Undisturbed, Moves, LedgerGrows, [Next]_vars,
         NEW t \in Refreshes \union Accesses, ledger[t].held,
         \A x \in {t} \union BoughtWith(t) : Spoiled(x)
  PROVE  ledger'[t].held /\ \A x \in {t} \union BoughtWith(t)' : Spoiled(x)'
<1>1. t \in Ids /\ ~OnItsWay(t) /\ Drawn1(t) /\ \A p \in Requests : ~Lends(req[p], t)
  BY HeldAtRest
<1>2. BoughtWith(t)' \subseteq BoughtWith(t)
  BY <1>1, BoughtStays
<1>3. ASSUME NEW x \in BoughtWith(t) PROVE x \in Ids /\ ~OnItsWay(x) /\ Drawn1(x)
  <2>1. x \in Accesses /\ x \in IdsOf(access)
    BY <1>3, IdsOfIs DEF BoughtWith, Calm, NoJwts, IInv, TypeOK, AccessRow
  <2> QED BY <2>1, StoredAtRest
<1>4. ASSUME NEW x \in {t} \union BoughtWith(t) PROVE Spoiled(x)'
  BY <1>1, <1>3, <1>4, SpoiledStays
<1>5. ledger'[t].held
  BY <1>1 DEF LedgerGrows, Drawn1
<1> QED BY <1>2, <1>4, <1>5

(***************************************************************************)
(* The requests.                                                           *)
(***************************************************************************)
\* A revocation as it comes.
Presents(q) == /\ q.grant \in Refreshes \union Accesses /\ q.r = None
               /\ q.pc = "revokeRefresh" => q.grant \in Refreshes
               /\ q.pc = "revokeAccess" => q.grant \in Accesses
Proceeds(p, n) ==
    /\ "jwt" \notin n.form
    /\ n.pc = "ishareStore" => CodeOf(n) \in OrNone(IdsOf(codes))
    /\ n.pc = "storeConsent" => LentOut(n.a, n.r, access')
    /\ n.kind = "revoke" => \/ n.pc \notin {"revokeRefresh", "revokeAccess"}
                            \/ Presents(n) \/ RevokeRefreshToken(p)

LEMMA ArriveProceeds ==
  ASSUME IInv, Undisturbed, NEW p \in Requests, Arrive(p)
  PROVE  \E n : Become(p, n) /\ Proceeds(p, n)
<1>0. /\ \A c \in clients : \A form \in SUBSET TokenTypes[c] : "jwt" \notin form
      /\ \A S : Held(S) \subseteq S
  BY DEF IInv, TypeOK, Undisturbed, Held
<1>1. CASE LoadApplication(p)
  <2>1. PICK kind \in {"authorize", "implicit"}, pc \in {"consentCheck", "enable"},
             u \in Users, c \in clients :
           \E form \in SUBSET TokenTypes[c] :
              Become(p, [Idle EXCEPT !.pc = pc, !.kind = kind, !.client = c,
                                     !.user = u, !.form = form])
    BY <1>1 DEF LoadApplication, Start
  <2>2. PICK form \in SUBSET TokenTypes[c] :
           Become(p, [Idle EXCEPT !.pc = pc, !.kind = kind, !.client = c,
                                  !.user = u, !.form = form])
    BY <2>1
  <2>3. PICK n : n = [Idle EXCEPT !.pc = pc, !.kind = kind, !.client = c,
                                  !.user = u, !.form = form]
    OBVIOUS
  <2>4. n.pc = pc /\ n.form = form
    BY <2>3 DEF Idle
  <2> QED BY <1>0, <2>2, <2>3, <2>4 DEF Proceeds
<1>2. CASE TokenRequest(p)
  <2>1. PICK c \in clients :
        \/ \E k \in Held(Codes) :
              Become(p, [Idle EXCEPT !.pc = "grant", !.kind = "code",
                                     !.client = c, !.grant = k])
        \/ \E t \in Held(Refreshes) : \E form \in SUBSET TokenTypes[c] :
              Become(p, [Idle EXCEPT !.pc = "grant", !.kind = "refresh",
                                     !.client = c, !.grant = t, !.form = form])
        \/ \E u \in Users : \E form \in SUBSET TokenTypes[c] :
              Become(p, [Idle EXCEPT !.pc = "grant", !.kind = "password",
                                     !.client = c, !.user = u, !.form = form])
        \/ \E form \in SUBSET TokenTypes[c] :
              Become(p, [Idle EXCEPT !.pc = "save", !.kind = "client",
                                     !.client = c, !.form = form])
    BY <1>2 DEF TokenRequest, Start
  <2>2. ASSUME NEW n, Become(p, n), n.pc \in {"grant", "save"}, "jwt" \notin n.form
        PROVE  \E m : Become(p, m) /\ Proceeds(p, m)
    BY <2>2 DEF Proceeds
  <2>3. ASSUME NEW k, Become(p, [Idle EXCEPT !.pc = "grant", !.kind = "code",
                                            !.client = c, !.grant = k])
        PROVE  \E m : Become(p, m) /\ Proceeds(p, m)
    BY <2>2, <2>3 DEF Idle
  <2>4. ASSUME NEW t, NEW form \in SUBSET TokenTypes[c],
               Become(p, [Idle EXCEPT !.pc = "grant", !.kind = "refresh",
                                      !.client = c, !.grant = t, !.form = form])
        PROVE  \E m : Become(p, m) /\ Proceeds(p, m)
    BY <1>0, <2>2, <2>4 DEF Idle
  <2>5. ASSUME NEW u, NEW form \in SUBSET TokenTypes[c],
               Become(p, [Idle EXCEPT !.pc = "grant", !.kind = "password",
                                      !.client = c, !.user = u, !.form = form])
        PROVE  \E m : Become(p, m) /\ Proceeds(p, m)
    BY <1>0, <2>2, <2>5 DEF Idle
  <2>6. ASSUME NEW form \in SUBSET TokenTypes[c],
               Become(p, [Idle EXCEPT !.pc = "save", !.kind = "client",
                                      !.client = c, !.form = form])
        PROVE  \E m : Become(p, m) /\ Proceeds(p, m)
    BY <1>0, <2>2, <2>6 DEF Idle
  <2> QED BY <2>1, <2>3, <2>4, <2>5, <2>6
<1>3. CASE IshareTokenRequest(p)
  <2>1. \E c \in Clients : \E k \in Held(Codes) :
           Become(p, [Idle EXCEPT !.pc = "ishareCode", !.kind = "ishare",
                                  !.client = c, !.grant = k])
    BY <1>3 DEF IshareTokenRequest, Start
  <2>2. PICK n : Become(p, n) /\ n.pc = "ishareCode" /\ n.form = {}
    <3>1. \A c, k : LET n == [Idle EXCEPT !.pc = "ishareCode", !.kind = "ishare",
                                         !.client = c, !.grant = k]
                   IN  n.pc = "ishareCode" /\ n.form = {}
      BY DEF Idle
    <3> QED BY <2>1, <3>1
  <2> QED BY <2>2 DEF Proceeds
<1>4. CASE RevokeRequest(p)
  <2>1. PICK c \in clients, t \in Held(Refreshes \union Accesses) :
           Become(p, [Idle EXCEPT !.pc = IF t \in Refreshes THEN "revokeRefresh"
                                                            ELSE "revokeAccess",
                                  !.kind = "revoke", !.client = c, !.grant = t])
    BY <1>4 DEF RevokeRequest, Start
  <2>2. PICK n : n = [Idle EXCEPT !.pc = IF t \in Refreshes THEN "revokeRefresh"
                                                            ELSE "revokeAccess",
                                  !.kind = "revoke", !.client = c, !.grant = t]
    OBVIOUS
  <2>3. /\ n.pc = IF t \in Refreshes THEN "revokeRefresh" ELSE "revokeAccess"
        /\ n.grant = t /\ n.r = None /\ n.form = {}
    BY <2>2 DEF Idle
  <2>4. t \in Refreshes \union Accesses
    BY <1>0
  <2>5. Presents(n) /\ n.pc \in {"revokeRefresh", "revokeAccess"}
    BY <2>3, <2>4 DEF Presents
  <2> QED BY <2>1, <2>2, <2>3, <2>5 DEF Proceeds
<1> QED BY <1>1, <1>2, <1>3, <1>4 DEF Arrive

LEMMA HandleProceeds ==
  ASSUME IInv, PInv, DInv, Calm, NEW p \in Requests, Handle(p)
  PROVE  \E n : Become(p, n) /\ Proceeds(p, n)
<1>q. PICK q : q = req[p]
  OBVIOUS
<1>0. q \in Request /\ "jwt" \notin q.form
  BY <1>q DEF IInv, TypeOK, Calm, NoJwts
<1>1. ASSUME NEW pc, Goto(p, pc), pc \notin {"ishareStore", "storeConsent"},
             q.kind # "revoke" \/ pc \notin {"revokeRefresh", "revokeAccess"}
      PROVE  \E n : Become(p, n) /\ Proceeds(p, n)
  <2>1. PICK n : n = [q EXCEPT !.pc = pc]
    OBVIOUS
  <2>2. n.pc = pc /\ n.form = q.form /\ n.kind = q.kind
    BY <1>0, <2>1 DEF Request
  <2> QED BY <1>0, <1>1, <1>q, <2>1, <2>2 DEF Proceeds, Goto
<1>2. Finish(p) => \E n : Become(p, n) /\ Proceeds(p, n)
  <2>1. Proceeds(p, Idle)
    BY DEF Proceeds, Idle
  <2> QED BY <2>1 DEF Finish
<1>3. CASE \/ CheckUserAuthorizedApplication(p) \/ EnableApp(p) \/ SaveAuthorizationCode(p)
           \/ GetIdentity(p) \/ RevokeAuthorizationCode(p) \/ RevokeAccessToken(p)
           \/ StoreRefresh(p) \/ RespondToken(p)
  BY <1>1, <1>2, <1>3 DEF CheckUserAuthorizedApplication, EnableApp, AfterConsent,
     SaveAuthorizationCode, GetIdentity, RevokeAuthorizationCode, RevokeAccessToken,
     StoreRefresh, RespondToken, Reject
<1>4. CASE GetAuthorizationCode(p)
  <2>1. ASSUME NEW row \in ValidCode(p),
               Become(p, [q EXCEPT !.pc = "revokeCode", !.user = row.user, !.form = row.form])
        PROVE  \E n : Become(p, n) /\ Proceeds(p, n)
    <3>1. PICK n : n = [q EXCEPT !.pc = "revokeCode", !.user = row.user, !.form = row.form]
      OBVIOUS
    <3>2. n.pc = "revokeCode" /\ n.form = row.form
      BY <1>0, <3>1 DEF Request
    <3>3. "jwt" \notin row.form
      BY DEF ValidCode, Presented, Calm, NoJwts
    <3> QED BY <2>1, <3>1, <3>2, <3>3 DEF Proceeds
  <2>2. q.kind = "code"
    BY <1>4, <1>q DEF GetAuthorizationCode
  <2> QED BY <1>1, <1>2, <1>4, <1>q, <2>1, <2>2 DEF GetAuthorizationCode
<1>5. CASE GetRefreshToken(p)
  <2>1. ASSUME NEW row, Become(p, [q EXCEPT !.pc = "revokeRefresh", !.user = row.user])
        PROVE  \E n : Become(p, n) /\ Proceeds(p, n)
    <3>1. PICK n : n = [q EXCEPT !.pc = "revokeRefresh", !.user = row.user]
      OBVIOUS
    <3>2. n.pc = "revokeRefresh" /\ n.form = q.form /\ n.kind = "refresh"
      BY <1>0, <1>5, <1>q, <3>1 DEF Request, GetRefreshToken
    <3> QED BY <1>0, <2>1, <3>1, <3>2 DEF Proceeds
  <2> QED BY <1>2, <1>5, <1>q, <2>1 DEF GetRefreshToken
<1>6. CASE RevokeRefreshToken(p)
  <2>1. ASSUME NEW n, Become(p, n), n.pc \in {"save", "revokeAccess"}, n.form = q.form
        PROVE  \E m : Become(p, m) /\ Proceeds(p, m)
    BY <1>0, <1>6, <2>1 DEF Proceeds
  <2>2. ASSUME NEW pc \in {"save", "revokeAccess"}, Goto(p, pc)
        PROVE  \E m : Become(p, m) /\ Proceeds(p, m)
    <3>1. PICK n : n = [q EXCEPT !.pc = pc]
      OBVIOUS
    <3>2. n.pc = pc /\ n.form = q.form /\ Become(p, n)
      BY <1>0, <1>q, <2>2, <3>1 DEF Request, Goto
    <3> QED BY <2>1, <3>2
  <2>3. ASSUME NEW row, Become(p, [q EXCEPT !.pc = "revokeAccess", !.r = row.id])
        PROVE  \E m : Become(p, m) /\ Proceeds(p, m)
    <3>1. PICK n : n = [q EXCEPT !.pc = "revokeAccess", !.r = row.id]
      OBVIOUS
    <3>2. n.pc = "revokeAccess" /\ n.form = q.form /\ Become(p, n)
      BY <1>0, <2>3, <3>1 DEF Request
    <3> QED BY <2>1, <3>2
  <2> QED BY <1>2, <1>6, <1>q, <2>2, <2>3 DEF RevokeRefreshToken
<1>7. CASE SaveToken(p)
  <2>1. PICK a \in Fresh(Accesses), r \in OrNone(Fresh(Refreshes)), n \in Request :
           /\ n = [q EXCEPT !.a = a, !.r = r,
                            !.pc = IF "jwt" \in q.form THEN "jwt"
                                   ELSE IF r # None THEN "storeRefresh"
                                   ELSE "storeAccess"]
           /\ Become(p, n)
    BY <1>7, <1>q, SaveTokenDraws
  <2>2. n.form = q.form /\ n.pc \in {"storeRefresh", "storeAccess"}
    BY <1>0, <2>1 DEF Request
  <2> QED BY <1>0, <2>1, <2>2 DEF Proceeds
<1>8. ~GenerateJwtToken(p)
  <2>1. q.pc # "jwt"
    BY <1>0, <1>q DEF DInv, Written
  <2> QED BY <1>q, <2>1 DEF GenerateJwtToken, At
<1>9. CASE StoreAccess(p)
  <2>1. CASE Reject(p)
    BY <1>2, <2>1 DEF Reject
  <2>2. CASE access' = access \union {AccessRowOf(q)} /\ Goto(p, "storeConsent")
    <3>1. PICK n : n = [q EXCEPT !.pc = "storeConsent"]
      OBVIOUS
    <3>2. n.pc = "storeConsent" /\ n.form = q.form /\ n.a = q.a /\ n.r = q.r /\ n.kind = q.kind
      BY <1>0, <3>1 DEF Request
    <3>3. AccessRowOf(q).id = q.a /\ AccessRowOf(q).refresh = q.r
      BY DEF AccessRowOf
    <3>4. LentOut(n.a, n.r, access')
      BY <2>2, <3>2, <3>3 DEF LentOut
    <3> QED BY <1>0, <1>q, <2>2, <3>1, <3>2, <3>4 DEF Proceeds, Goto
  <2> QED BY <1>9, <1>q, <2>1, <2>2 DEF StoreAccess
<1>10. CASE IshareReadCode(p)
  <2>1. ASSUME NEW row \in ValidCode(p), NEW a \in Fresh(Accesses), NEW n \in Request,
               n = [req[p] EXCEPT !.pc = "ishareStore", !.a = a, !.user = row.user],
               Become(p, n)
        PROVE  Proceeds(p, n)
    <3>1. n.pc = "ishareStore" /\ n.grant = q.grant /\ n.form = q.form /\ n.kind = q.kind
      BY <1>0, <1>q, <2>1 DEF Request
    <3>2. row \in codes /\ row.id = q.grant
      BY <1>q DEF ValidCode, Presented
    <3>3. CodeOf(n) \in OrNone(IdsOf(codes))
      BY <3>1, <3>2, IdsOfIs DEF CodeOf, OrNone
    <3> QED BY <1>0, <3>1, <3>3 DEF Proceeds
  <2> QED BY <1>2, <1>10, <2>1, IshareReadDraws
<1>11. CASE IshareStoreToken(p)
  BY <1>2, <1>11, IshareStored
<1> QED BY <1>3, <1>4, <1>5, <1>6, <1>7, <1>8, <1>9, <1>10, <1>11 DEF Handle

LEMMA NextProceeds ==
  ASSUME IInv, PInv, DInv, Calm, Undisturbed, [Next]_vars
  PROVE  \/ req' = req /\ ledger' = ledger /\ acked' = acked
         \/ \E p \in Requests : /\ Arrive(p) \/ Handle(p)
                                /\ \E n : Become(p, n) /\ Proceeds(p, n)
<1>1. \A p \in Requests : Arrive(p) \/ Handle(p) => \E n : Become(p, n) /\ Proceeds(p, n)
  BY ArriveProceeds, HandleProceeds
<1>2. Execute => req' = req /\ ledger' = ledger /\ acked' = acked
  BY CalmExecutes DEF Execute, ExecuteInvalidate, ExecuteRefresh, ExecuteConsent, history
<1>3. Environment \/ UNCHANGED vars => req' = req /\ ledger' = ledger /\ acked' = acked
  BY NothingDeleted DEF vars, history
<1> QED BY <1>1, <1>2, <1>3 DEF Next

LEMMA NoJwtComes ==
  ASSUME IInv, PInv, DInv, Calm, Undisturbed, [Next]_vars
  PROVE  NoJwts'
<1>0. /\ \A q \in Requests : "jwt" \notin req[q].form /\ req[q].pc # "jwt"
      /\ TypeOK /\ codes \subseteq CodeRow
  BY DEF IInv, TypeOK, Calm, NoJwts, DInv, Written
<1>1. Sent' = {}
  BY <1>0, NextSent DEF Calm, NoJwts
<1>2. \A q \in Requests : "jwt" \notin req'[q].form
  <2>1. ASSUME NEW p \in Requests, NEW n, Become(p, n), Proceeds(p, n)
        PROVE  \A q \in Requests : "jwt" \notin req'[q].form
    BY <1>0, <2>1, OnlyOne DEF Proceeds
  <2> QED BY <1>0, <2>1, NextProceeds
<1>3. ASSUME NEW p \in Requests, Arrive(p) PROVE UNCHANGED <<codes, jwts>>
  BY <1>0, <1>3, ArriveStep DEF tables
<1>4. ASSUME NEW p \in Requests, SaveAuthorizationCode(p)
      PROVE  jwts' = {} /\ \A row \in codes' : "jwt" \notin row.form
  <2>1. \A k : "jwt" \notin CodeRowOf(p, k).form
    BY <1>0 DEF CodeRowOf
  <2>2. jwts' = {}
    BY <1>4 DEF SaveAuthorizationCode, Calm, NoJwts
  <2>3. \A row \in codes : "jwt" \notin row.form
    BY DEF Calm, NoJwts
  <2>4. codes' = codes \/ \E k : codes' = codes \union {CodeRowOf(p, k)}
    BY <1>4 DEF SaveAuthorizationCode
  <2> QED BY <2>1, <2>2, <2>3, <2>4
<1>5. ASSUME NEW p \in Requests, RespondToken(p) PROVE UNCHANGED <<codes, jwts>>
  BY <1>0, <1>5 DEF RespondToken
<1>6. ASSUME NEW p \in Requests, Handle(p), ~SaveAuthorizationCode(p), ~RespondToken(p)
      PROVE  UNCHANGED <<codes, jwts>>
  BY <1>6 DEF Handle, CheckUserAuthorizedApplication, EnableApp, GetAuthorizationCode,
     GetRefreshToken, GetIdentity, RevokeAuthorizationCode, RevokeRefreshToken,
     RevokeAccessToken, SaveToken, GenerateJwtToken, StoreRefresh, StoreAccess,
     IshareReadCode, IshareStoreToken, tables
<1>7. ASSUME NEW w \in writes, ExecuteInvalidate(w)
      PROVE  jwts' = {} /\ \A row \in codes' : "jwt" \notin row.form
  <2>1. \A row \in codes : [row EXCEPT !.valid = FALSE].form = row.form
    BY <1>0 DEF CodeRow
  <2> QED BY <1>7, <2>1 DEF ExecuteInvalidate, Invalidated, Calm, NoJwts
<1>8. ASSUME NEW w \in writes, ExecuteRefresh(w) \/ ExecuteConsent(w) PROVE UNCHANGED <<codes, jwts>>
  BY <1>8 DEF ExecuteRefresh, ExecuteConsent
<1>9. Environment \/ UNCHANGED vars => UNCHANGED <<codes, jwts>>
  BY NothingDeleted DEF vars, tables
<1>10. jwts' = {} /\ \A row \in codes' : "jwt" \notin row.form
  <2>1. UNCHANGED <<codes, jwts>> => jwts' = {} /\ \A row \in codes' : "jwt" \notin row.form
    BY DEF Calm, NoJwts
  <2> QED BY <1>3, <1>4, <1>5, <1>6, <1>7, <1>8, <1>9, <2>1 DEF Next, Execute
<1> QED BY <1>1, <1>2, <1>10 DEF NoJwts

LEMMA CalmStays ==
  ASSUME IInv, PInv, DInv, Calm, Undisturbed, [Next]_vars
  PROVE  Calm'
<1>1. ASSUME NEW q \in Requests, At(q, "ishareStore")'
      PROVE  CodeOf(req'[q]) \in OrNone(IdsOf(codes'))
  <2>1. CodeOf(req'[q]) \in OrNone(IdsOf(codes))
    <3>1. CASE req'[q] = req[q]
      BY <1>1, <3>1 DEF Calm, CodesFound, At
    <3>2. ASSUME NEW p \in Requests, NEW n, Become(p, n), Proceeds(p, n)
          PROVE  CodeOf(req'[q]) \in OrNone(IdsOf(codes))
      BY <1>1, <3>1, <3>2, OnlyOne DEF Proceeds, At
    <3> QED BY <3>1, <3>2, NextProceeds
  <2> QED BY <2>1, RowsStay DEF OrNone
<1>2. CodesFound'
  <2>1. \A q \in Requests : At(q, "ishareStore")' => CodeOf(req[q])' \in OrNone(IdsOf(codes))'
    <3>1. \A q : CodeOf(req[q])' = CodeOf(req'[q])
      BY DEF CodeOf
    <3>2. OrNone(IdsOf(codes))' = OrNone(IdsOf(codes'))
      BY DEF OrNone, IdsOf
    <3> QED BY <1>1, <3>1, <3>2
  <2> QED BY <2>1 DEF CodesFound
<1> QED BY <1>2, StaysThere, NoJwtComes DEF Calm

LEMMA AnswerableStays ==
  ASSUME IInv, PInv, DInv, Calm, Answerable, Undisturbed, [Next]_vars
  PROVE  Answerable'
<1>1. ASSUME NEW q \in Requests, req'[q].pc = "storeConsent"
      PROVE  LentOut(req'[q].a, req'[q].r, access')
  <2>1. CASE req'[q] = req[q]
    BY <1>1, <2>1, LentOutStays DEF Answerable, At
  <2>2. ASSUME NEW p \in Requests, NEW n, Become(p, n), Proceeds(p, n)
        PROVE  LentOut(req'[q].a, req'[q].r, access')
    BY <1>1, <2>1, <2>2, OnlyOne DEF Proceeds
  <2> QED BY <2>1, <2>2, NextProceeds
<1> QED BY <1>1 DEF Answerable, At, LentOut

\* A refresh token is handed over when its access token is stored.
LEMMA HeldLentStays ==
  ASSUME IInv, PInv, DInv, Calm, Answerable, HeldLent, Undisturbed, [Next]_vars
  PROVE  HeldLent'
<1> SUFFICES ASSUME NEW x \in Refreshes, ledger'[x].held
             PROVE  \E row \in access' : row.refresh = x
  BY DEF HeldLent
<1>0. /\ TypeOK /\ x \in Ids /\ x \notin Codes /\ x \notin Accesses /\ x # None
      /\ \A p \in Requests : req[p].a \in OrNone(Accesses)
  BY IdsAssumption, NoneAssumption DEF IInv, TypeOK, Ids, Request
<1>1. CASE ledger[x].held
  <2>1. PICK row \in access : row.refresh = x
    BY <1>1 DEF HeldLent
  <2> QED BY <2>1, RowsStay DEF LentOut
<1>2. ASSUME ~ledger[x].held PROVE \E p \in Requests : RespondToken(p) /\ req[p].r = x
  <2>1. ASSUME NEW xs, ledger' = Delivered(xs) PROVE x \in xs
    BY <1>0, <1>2, <2>1 DEF TypeOK, Delivered, Entry
  <2>2. ASSUME NEW q, NEW xs, ledger' = Drawn(q, xs, FALSE) PROVE FALSE
    BY <1>0, <1>2, <2>2 DEF Drawn
  <2>3. ledger' # ledger
    BY <1>2
  <2>4. ASSUME NEW p \in Requests, SaveAuthorizationCode(p) PROVE FALSE
    <3>1. PICK k \in Codes : ledger' = Drawn(req[p], {k}, TRUE) \/ ledger' = ledger
      BY <2>4 DEF SaveAuthorizationCode, Fresh
    <3> QED BY <1>0, <1>2, <3>1 DEF Drawn
  <2>5. ASSUME NEW p \in Requests, SaveToken(p) PROVE FALSE
    BY <2>2, <2>5 DEF SaveToken
  <2>6. ASSUME NEW p \in Requests, IshareReadCode(p) PROVE FALSE
    BY <2>2, <2>3, <2>6, IshareReadDraws
  <2>7. ASSUME NEW p \in Requests, IshareStoreToken(p) PROVE FALSE
    <3>1. x = req[p].a
      BY <2>1, <2>7, IshareStored
    <3> QED BY <1>0, <3>1 DEF OrNone
  <2>8. ASSUME NEW p \in Requests, RespondToken(p) PROVE x = req[p].r
    <3>1. x \in {req[p].a, req[p].r}
      BY <2>1, <2>3, <2>8 DEF RespondToken
    <3> QED BY <1>0, <3>1 DEF OrNone
  <2>9. ASSUME NEW p \in Requests, Arrive(p) PROVE FALSE
    BY <1>0, <2>3, <2>9, ArriveStep DEF history
  <2>10. ASSUME NEW p \in Requests, Handle(p)
         PROVE  \/ SaveAuthorizationCode(p) \/ SaveToken(p) \/ RespondToken(p)
                \/ IshareReadCode(p) \/ IshareStoreToken(p)
    BY <2>3, <2>10 DEF Handle, CheckUserAuthorizedApplication, EnableApp, GetAuthorizationCode,
       GetRefreshToken, GetIdentity, RevokeAuthorizationCode, RevokeRefreshToken,
       RevokeAccessToken, GenerateJwtToken, StoreRefresh, StoreAccess, history
  <2> QED BY <2>3, <2>4, <2>5, <2>6, <2>7, <2>8, <2>9, <2>10, NextProceeds
<1>3. ASSUME NEW p \in Requests, RespondToken(p), req[p].r = x
      PROVE  \E row \in access' : row.refresh = x
  BY <1>3 DEF RespondToken, Answerable, LentOut
<1> QED BY <1>1, <1>2, <1>3

(***************************************************************************)
(* What a revocation finds out, and what its answer is worth.              *)
(***************************************************************************)
\* Only credentials of a token's own kind and client bear it.
LEMMA RefreshUsable ==
  ASSUME IInv, Calm, NEW t \in Refreshes, Usable(t)
  PROVE  \E row \in refresh : row.id = t /\ row.client = ledger[t].client /\ row.valid
<1>1. PICK row \in codes \union refresh \union access : row.id = t /\ row.valid
  BY DEF Usable, Calm, NoJwts
<1>2. row \in refresh
  BY <1>1, IdsAssumption DEF IInv, TypeOK, CodeRow, AccessRow
<1>3. row.client = ledger[t].client
  BY <1>1 DEF IInv, Ownership, RowsOwned, Owned, Owns
<1> QED BY <1>1, <1>2, <1>3

LEMMA AccessUsable ==
  ASSUME IInv, PInv, Calm, NEW row \in access, Usable(row.id)
  PROVE  row.valid
<1>0. row.id \in Accesses
  BY DEF IInv, TypeOK, AccessRow
<1>1. PICK o \in codes \union refresh \union access : o.id = row.id /\ o.valid
  BY DEF Usable, Calm, NoJwts
<1>2. o \in access
  BY <1>0, <1>1, IdsAssumption DEF IInv, TypeOK, CodeRow, RefreshRow
<1> QED BY <1>1, <1>2 DEF PInv, Places, AccessPlaces, Unique

\* What is spoiled stays so while updates are issued and the rows do not change.
LEMMA SpoiledMore ==
  ASSUME UNCHANGED tables, writes \subseteq writes', NEW x, Spoiled(x)
  PROVE  Spoiled(x)'
  BY DEF Spoiled, Usable, tables, Invalidate

\* revokeRefreshToken issues the update of a refresh token of the client that asks, or there is
\* none that is honoured.
LEMMA RefreshRevoked ==
  ASSUME IInv, Calm, NEW p \in Requests, Revokes(req[p]), RevokeRefreshToken(p),
         NEW n, Become(p, n)
  PROVE  Revokes(n)'
<1> SUFFICES ASSUME n.kind = "revoke", n.pc \in {"revokeRefresh", "revokeAccess"}
             PROVE  Revokes(n)'
  BY DEF Revokes
<1>q. PICK q : q = req[p]
  OBVIOUS
<1>0. /\ q \in Request /\ q.pc = "revokeRefresh" /\ req'[p] = n
      /\ UNCHANGED tables /\ ledger' = ledger
  BY <1>q, OnlyOne DEF IInv, TypeOK, RevokeRefreshToken, At, history
<1>1. \/ n.kind # "revoke" \/ n.pc \notin {"revokeRefresh", "revokeAccess"}
      \/ /\ q.kind = "revoke" /\ n.pc = "revokeAccess" /\ n.grant = q.grant /\ n.client = q.client
         /\ \/ \E row \in RefreshMatches(p) : Invalidate(row.id) \in writes' /\ n.r = row.id
            \/ RefreshMatches(p) = {} /\ n.r = q.r
  <2>1. ASSUME NEW row \in RefreshMatches(p), n = [q EXCEPT !.pc = "revokeAccess", !.r = row.id],
               writes' = writes \union {Invalidate(row.id)}
        PROVE  /\ n.kind = q.kind /\ n.pc = "revokeAccess" /\ n.grant = q.grant
               /\ n.client = q.client
               /\ Invalidate(row.id) \in writes' /\ n.r = row.id
    BY <1>0, <2>1 DEF Request
  <2>2. ASSUME NEW pc, n = [q EXCEPT !.pc = pc]
        PROVE  /\ n.kind = q.kind /\ n.pc = pc /\ n.grant = q.grant /\ n.client = q.client
               /\ n.r = q.r
    BY <1>0, <2>2 DEF Request
  <2>3. \A m : Become(p, m) => m = n
    BY <1>0, OnlyOne
  <2>4. Finish(p) => n.kind # "revoke"
    BY <2>3 DEF Finish, Idle
  <2>5. \A pc : Goto(p, pc) => n = [q EXCEPT !.pc = pc]
    BY <1>q, <2>3 DEF Goto
  <2>6. CASE \E row \in RefreshMatches(p) :
                /\ writes' = writes \union {Invalidate(row.id)}
                /\ IF q.kind = "refresh" THEN Goto(p, "save")
                   ELSE Become(p, [q EXCEPT !.pc = "revokeAccess", !.r = row.id])
    <3>1. PICK row \in RefreshMatches(p) :
             /\ writes' = writes \union {Invalidate(row.id)}
             /\ IF q.kind = "refresh" THEN Goto(p, "save")
                ELSE Become(p, [q EXCEPT !.pc = "revokeAccess", !.r = row.id])
      BY <2>6
    <3>2. CASE q.kind = "refresh"
      BY <2>2, <2>5, <3>1, <3>2
    <3>3. CASE q.kind # "refresh"
      <4>1. n = [q EXCEPT !.pc = "revokeAccess", !.r = row.id]
        BY <2>3, <3>1, <3>3
      <4> QED BY <2>1, <3>1, <4>1
    <3> QED BY <3>2, <3>3
  <2>7. CASE /\ RefreshMatches(p) = {}
             /\ \/ Goto(p, IF q.kind = "refresh" THEN "save" ELSE "revokeAccess")
                \/ Finish(p)
    BY <2>2, <2>4, <2>5, <2>7
  <2> QED BY <1>q, <2>6, <2>7 DEF RevokeRefreshToken
<1>2. q.grant \in Refreshes /\ q.r = None /\ n.grant \in Refreshes /\ n.grant \notin Accesses
  BY <1>0, <1>1, <1>q, IdsAssumption DEF Revokes
<1>3. \A row \in RefreshMatches(p) : /\ row.id = q.grant /\ row.id # None
                                     /\ ledger[q.grant].client = q.client
  <2>1. q.grant \notin Codes
    BY <1>2, IdsAssumption
  <2>2. \A row \in RefreshMatches(p) : row \in refresh /\ row.id = q.grant /\ row.client = q.client
    BY <1>q, <2>1 DEF RefreshMatches
  <2> QED BY <1>2, <2>2, NoneAssumption DEF IInv, Ownership, RowsOwned, Owned, Owns, Ids
<1>4. CASE \E row \in RefreshMatches(p) : Invalidate(row.id) \in writes' /\ n.r = row.id
  <2>1. Invalidate(n.grant) \in writes'
    BY <1>1, <1>3, <1>4
  <2>2. Spoiled(n.grant)'
    BY <2>1 DEF Spoiled, Invalidate
  <2> QED BY <1>0, <1>1, <1>2, <1>3, <1>4, <2>2 DEF Revokes
<1>5. CASE RefreshMatches(p) = {} /\ n.r = q.r
  <2>1. ASSUME ledger[n.grant].client = n.client PROVE ~Usable(n.grant)
    <3> SUFFICES ASSUME Usable(n.grant) PROVE FALSE
      OBVIOUS
    <3>1. PICK row \in refresh : row.id = n.grant /\ row.client = n.client /\ row.valid
      BY <1>2, <2>1, RefreshUsable
    <3>2. q.grant \notin Codes /\ n.grant = q.grant /\ n.client = q.client
      BY <1>1, <1>2, IdsAssumption
    <3> QED BY <1>5, <1>q, <3>1, <3>2 DEF RefreshMatches
  <2>2. ASSUME ledger[n.grant].client = n.client PROVE Spoiled(n.grant)'
    <3>1. ~Usable(n.grant)'
      BY <1>0, <2>1, <2>2 DEF Usable, tables
    <3> QED BY <3>1 DEF Spoiled
  <2> QED BY <1>0, <1>1, <1>2, <1>5, <2>2 DEF Revokes
<1> QED BY <1>1, <1>4, <1>5

LEMMA RevokersStay ==
  ASSUME IInv, PInv, DInv, Calm, Calm', HeldLent, Revokers, Undisturbed, Moves, LedgerGrows,
         [Next]_vars
  PROVE  Revokers'
<1>1. ASSUME NEW q, Revokes(q), Seeded(q) PROVE Revokes(q)'
  <2> SUFFICES ASSUME q.kind = "revoke", q.pc \in {"revokeRefresh", "revokeAccess"}
               PROVE  Revokes(q)'
    BY DEF Revokes
  <2>1. q.grant \in Refreshes \union Accesses /\ q.grant # None
    BY <1>1, NoneAssumption DEF Revokes, Ids
  <2>2. ledger[q.grant].held
    BY <1>1, <2>1 DEF Seeded
  <2>3. q.grant \in Ids /\ ~OnItsWay(q.grant) /\ Drawn1(q.grant)
    BY <2>1, <2>2, HeldAtRest
  <2>4. ledger'[q.grant].client = ledger[q.grant].client
    BY <2>3 DEF LedgerGrows, Drawn1
  <2>5. Spoiled(q.grant) => Spoiled(q.grant)'
    BY <2>3, SpoiledStays
  <2> QED BY <1>1, <2>4, <2>5 DEF Revokes
<1>2. ASSUME NEW p \in Requests, NEW n, Become(p, n), Proceeds(p, n) PROVE Revokes(n)'
  <2>1. CASE Presents(n)
    BY <2>1, IdsAssumption DEF Presents, Revokes
  <2>2. CASE RevokeRefreshToken(p)
    BY <1>2, <2>2, RefreshRevoked DEF Revokers
  <2>3. CASE n.kind # "revoke" \/ n.pc \notin {"revokeRefresh", "revokeAccess"}
    BY <2>3 DEF Revokes
  <2> QED BY <1>2, <2>1, <2>2, <2>3 DEF Proceeds
<1>3. ASSUME NEW o \in Requests, req'[o] = req[o] PROVE Revokes(req[o])'
  <2>1. PICK q : q = req[o]
    OBVIOUS
  <2>2. Revokes(q)'
    BY <1>1, <2>1 DEF Revokers, PInv, AllSeeded
  <2> QED BY <1>3, <2>1, <2>2 DEF Revokes
<1>4. ASSUME NEW o \in Requests, NEW p \in Requests, NEW n, Become(p, n), Proceeds(p, n)
      PROVE  Revokes(req[o])'
  <2>1. CASE o = p
    <3>1. Revokes(n)' /\ req'[o] = n
      BY <1>2, <1>4, <2>1, OnlyOne
    <3> QED BY <3>1 DEF Revokes
  <2>2. CASE o # p
    <3>1. req'[o] = req[o]
      BY <1>4, <2>2, OnlyOne
    <3> QED BY <1>3, <3>1
  <2> QED BY <2>1, <2>2
<1>5. ASSUME NEW o \in Requests, req' = req PROVE Revokes(req[o])'
  BY <1>3, <1>5
<1>6. \A o \in Requests : Revokes(req[o])'
  BY <1>4, <1>5, NextProceeds
<1> QED BY <1>6 DEF Revokers

\* revokeAccessToken answers 200 for what it or revokeRefreshToken has found; its one update
\* reaches the one access token that can have been bought with a refresh token.
LEMMA AccessRevoked ==
  ASSUME IInv, PInv, DInv, Calm, Calm', Revokers, NEW p \in Requests, RevokeAccessToken(p),
         NEW t \in acked' \ acked
  PROVE  /\ t \in Refreshes \union Accesses /\ ledger'[t].held
         /\ \A x \in {t} \union BoughtWith(t)' : Spoiled(x)'
<1>q. PICK q : q = req[p]
  OBVIOUS
<1>0. /\ UNCHANGED tables /\ ledger' = ledger
      /\ writes \subseteq writes'
      /\ q.pc = "revokeAccess"
      /\ \/ \E row \in AccessMatches(p) : Invalidate(row.id) \in writes'
         \/ AccessMatches(p) = {}
  BY <1>q DEF RevokeAccessToken, At
<1>1. q.kind = "revoke" /\ t = q.grant /\ (q.r # None \/ AccessMatches(p) # {})
  BY <1>q DEF RevokeAccessToken
<1>2. /\ t \in Refreshes \union Accesses
      /\ t \in Accesses => q.r = None
      /\ t \in Refreshes /\ ledger[t].client = q.client => Spoiled(t)
      /\ q.r # None => t \in Refreshes /\ ledger[t].client = q.client
  BY <1>0, <1>1, <1>q DEF Revokers, Revokes
<1>3. t \in Ids /\ t # None /\ t \notin Codes
  BY <1>2, IdsAssumption, NoneAssumption DEF Ids
<1>4. ledger[t].held
  BY <1>1, <1>3, <1>q DEF PInv, AllSeeded, Seeded
<1>5. BoughtWith(t)' = {row.id : row \in {a \in access : a.refresh = t}}
  BY <1>0 DEF BoughtWith, Calm, NoJwts, tables
<1>6. ASSUME NEW x, Invalidate(x) \in writes' PROVE Spoiled(x)'
  BY <1>6 DEF Spoiled, Invalidate
<1>7. CASE t \in Accesses
  <2>1. t \notin Refreshes
    BY <1>7, IdsAssumption
  <2>2. \A row \in AccessMatches(p) : row.id = t
    BY <1>1, <1>3, <1>q, <2>1 DEF AccessMatches
  <2>3. Spoiled(t)'
    BY <1>0, <1>1, <1>2, <1>6, <1>7, <2>2
  <2>4. \A row \in access : row.refresh # t
    BY <1>3, <2>1 DEF IInv, TypeOK, AccessRow, OrNone
  <2> QED BY <1>0, <1>2, <1>4, <1>5, <2>3, <2>4
<1>8. CASE t \in Refreshes
  <2>1. \A row \in AccessMatches(p) : row \in access /\ row.refresh = t /\ row.client = q.client
    BY <1>1, <1>3, <1>8, <1>q DEF AccessMatches
  <2>2. \A row \in access : row.refresh = t => row.client = ledger[t].client
    BY <1>3 DEF DInv, Kinship, Owns
  <2>3. ledger[t].client = q.client
    BY <1>1, <1>2, <2>1, <2>2
  <2>4. Spoiled(t)'
    BY <1>0, <1>2, <1>8, <2>3, SpoiledMore
  <2>5. ASSUME NEW row \in access, row.refresh = t PROVE Spoiled(row.id)'
    <3>1. CASE row.valid
      <4>1. row \in AccessMatches(p)
        BY <1>1, <1>3, <1>8, <1>q, <2>2, <2>3, <2>5, <3>1 DEF AccessMatches
      <4>2. \A o \in AccessMatches(p) : o = row
        BY <1>3, <2>1, <2>5 DEF PInv, Places, Loans, OneAccessPerRefresh
      <4> QED BY <1>0, <1>6, <4>1, <4>2
    <3>2. CASE ~row.valid
      <4>1. Spoiled(row.id)
        BY <3>2, AccessUsable DEF Spoiled
      <4> QED BY <1>0, <4>1, SpoiledMore
    <3> QED BY <3>1, <3>2 DEF IInv, TypeOK, AccessRow
  <2> QED BY <1>0, <1>2, <1>4, <1>5, <2>4, <2>5
<1> QED BY <1>2, <1>7, <1>8

LEMMA RevokedStay ==
  ASSUME IInv, PInv, DInv, Calm, Calm', HeldLent, Revokers, Revoked, Undisturbed, Moves,
         LedgerGrows, [Next]_vars
  PROVE  Revoked'
<1>1. ASSUME NEW t \in acked
      PROVE  /\ t \in Refreshes \union Accesses /\ ledger'[t].held
             /\ \A x \in {t} \union BoughtWith(t)' : Spoiled(x)'
  BY RevokedStays DEF Revoked
<1>2. \/ acked' = acked
      \/ \E p \in Requests : RevokeAccessToken(p)
  <2>1. ASSUME NEW p \in Requests, Arrive(p) PROVE acked' = acked
    BY <2>1, ArriveStep DEF IInv, history
  <2>2. ASSUME NEW p \in Requests, Handle(p), ~RevokeAccessToken(p) PROVE acked' = acked
    BY <2>2 DEF Handle, CheckUserAuthorizedApplication, EnableApp, SaveAuthorizationCode,
       GetAuthorizationCode, GetRefreshToken, GetIdentity, RevokeAuthorizationCode,
       RevokeRefreshToken, SaveToken, GenerateJwtToken, StoreRefresh, StoreAccess,
       RespondToken, IshareReadCode, IshareStoreToken, history
  <2> QED BY <2>1, <2>2, NextProceeds
<1>3. \A t \in acked' : /\ t \in Refreshes \union Accesses /\ ledger'[t].held
                        /\ \A x \in {t} \union BoughtWith(t)' : Spoiled(x)'
  BY <1>1, <1>2, AccessRevoked
<1> QED BY <1>3 DEF Revoked

LEMMA InitRevokes == Undisturbed /\ Init => RInv
<1> SUFFICES ASSUME Init PROVE RInv
  OBVIOUS
<1>1. /\ users = Users /\ clients = Clients /\ codes = {} /\ access = {} /\ jwts = {}
      /\ Sent = {} /\ acked = {}
      /\ \A p \in Requests : req[p] = Idle
      /\ \A x \in Ids : ~ledger[x].held
  BY DEF Init, Sent, Unused
<1> QED BY <1>1 DEF RInv, Calm, StillThere, NoJwts, CodesFound, Answerable, HeldLent,
        Revokers, Revokes, Revoked, Idle, At, Ids

LEMMA NextKeepsRevoked ==
  Undisturbed /\ IInv /\ PInv /\ DInv /\ RInv /\ [Next]_vars => RInv'
<1> SUFFICES ASSUME Undisturbed, IInv, PInv, DInv, RInv, [Next]_vars PROVE RInv'
  OBVIOUS
<1>1. HeldIsDrawn
  BY DEF PInv, Known, HeldIsDrawn
<1>2. Moves /\ LedgerGrows
  BY <1>1, NextMoves, NextGrows
<1>3. Calm'
  BY CalmStays DEF RInv
<1> QED BY <1>2, <1>3, AnswerableStays, HeldLentStays, RevokersStay, RevokedStay DEF RInv

\* A token whose revocation was answered 200 is refused once the update it issued is executed,
\* and so are the access tokens of a refresh token, for every number of requests in flight: a
\* refresh token and its access token are revoked by two functions, each looking at one row and
\* awaiting nothing (revoke_token, revokeRefreshToken, revokeAccessToken).
THEOREM AcknowledgedRevocationsHold == Undisturbed /\ Spec => []AckedRevocationHolds
<1>1. Init => DInv
  BY InitDelivered
<1>2. IInv /\ IInv' /\ PInv /\ DInv /\ [Next]_vars => DInv'
  BY NextKeepsDelivered
<1>3. SUFFICES ASSUME Undisturbed PROVE Spec => []AckedRevocationHolds
  OBVIOUS
<1>4. Init => RInv
  BY <1>3, InitRevokes
<1>5. IInv /\ PInv /\ DInv /\ RInv /\ [Next]_vars => RInv'
  BY <1>3, NextKeepsRevoked
<1>6. RInv => AckedRevocationHolds
  BY DEF RInv, Revoked, Spoiled, AckedRevocationHolds
<1> QED BY <1>1, <1>2, <1>4, <1>5, <1>6, OnePlace, PTL DEF Spec
=============================================================================
