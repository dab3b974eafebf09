------------------------- MODULE OAuthTokensProofs -------------------------
(***************************************************************************)
(* Proofs about OAuthTokens, for any number of accounts, applications,     *)
(* values and requests in flight.                                          *)
(***************************************************************************)
EXTENDS OAuthTokens, TLAPS

\* What the program counter of a request says of its other fields.
Storing == {"jwt", "storeRefresh", "storeAccess", "storeConsent", "ishareStore"}
WellFormed(q) ==
    /\ q.pc # "idle" => q.client \in Clients
    /\ q.pc \in Storing => q.a \in Accesses
    /\ q.pc = "storeRefresh" => q.r \in Refreshes
    /\ q.pc = "ishareCode" => q.r = None
    /\ q.kind = "revoke" => q.grant \in Ids
ReqOK == \A p \in Requests : WellFormed(req[p])

\* Who a value was drawn for, and the requests that are about to draw from a
\* grant or have drawn: theirs is the client and the user of that value.
Owns(x, c, u) == ledger[x].client = c /\ ledger[x].user = u
Owned(row) == Owns(row.id, row.client, row.user)
Buying(q) == \/ q.pc \in {"consentCheck", "enable", "saveCode", "revokeCode", "save"}
             \/ q.pc = "revokeRefresh" /\ q.kind = "refresh"
             \/ q.pc = "grant" /\ q.kind = "password"
Entitled(q) ==
    /\ Buying(q) /\ q.grant # None => Owns(q.grant, q.client, q.user)
    /\ q.pc \in Storing => Owns(q.a, q.client, q.user)
    /\ q.pc \in Storing /\ q.r # None => Owns(q.r, q.client, q.user)

RowsOwned == \A row \in codes \union refresh \union access : Owned(row)
WritesOwned == \A w \in writes : w.op = "refresh" => Owned(w.row)
Descent == \A x \in Ids : ledger[x].from # None =>
              /\ ledger[x].client # None
              /\ Owns(ledger[x].from, ledger[x].client, ledger[x].user)
Ownership == /\ RowsOwned /\ WritesOwned /\ Descent
             /\ \A p \in Requests : Entitled(req[p])

\* The inductive invariant.
IInv == TypeOK /\ ReqOK /\ Ownership

\* An entry of the ledger, once written, keeps its owner.
LedgerKeeps == \A x \in Ids : ledger[x].client # None =>
                  /\ ledger'[x].client = ledger[x].client
                  /\ ledger'[x].user = ledger[x].user

Tables == /\ users \subseteq Users /\ clients \subseteq Clients
          /\ codes \subseteq CodeRow
          /\ refresh \subseteq RefreshRow
          /\ access \subseteq AccessRow
          /\ jwts \subseteq Jwt
          /\ consent \subseteq Consent
Reqs == req \in [Requests -> Request]

LEMMA IdleType == Idle \in Request
  BY DEF Idle, Request, Steps, AllKinds, OrNone, Forms

LEMMA BecomeType ==
  ASSUME Reqs, NEW p \in Requests, NEW q \in Request, Become(p, q)
  PROVE  Reqs'
  BY DEF Reqs, Become

LEMMA GotoType ==
  ASSUME Reqs, NEW p \in Requests, NEW pc \in Steps, Goto(p, pc)
  PROVE  Reqs'
<1>1. [req[p] EXCEPT !.pc = pc] \in Request
  BY DEF Reqs, Request
<1> QED BY <1>1, BecomeType DEF Goto

LEMMA FinishType ==
  ASSUME Reqs, NEW p \in Requests, Finish(p)
  PROVE  Reqs'
  BY IdleType, BecomeType DEF Finish

LEMMA DieType == ASSUME Die PROVE Reqs' /\ writes' = {}
  BY IdleType DEF Reqs, Die

\* A step of a handler that touches no table, no statement and no history.
LEMMA OnlyReqsType ==
  ASSUME TypeOK, Reqs', UNCHANGED <<tables, writes, history>>
  PROVE  TypeOK'
  BY DEF TypeOK, Reqs, tables, history

LEMMA FormType ==
  ASSUME NEW c \in Clients, NEW f \in SUBSET TokenTypes[c]
  PROVE  f \in SUBSET Forms
  BY ConfigAssumption

\* What a request is when it has arrived.
GoodRequest == {q \in Request : WellFormed(q) /\ Entitled(q)}

LEMMA ArriveStep ==
  ASSUME TypeOK, NEW p \in Requests, Arrive(p)
  PROVE  /\ \E q \in GoodRequest : Become(p, q)
         /\ UNCHANGED <<tables, writes, history>>
<1>0. Reqs /\ clients \subseteq Clients
  BY DEF TypeOK, Reqs
<1>1. CASE LoadApplication(p)
  <2>0. PICK kind \in {"authorize", "implicit"}, pc \in {"consentCheck", "enable"},
             u \in Users, c \in clients :
          \E form \in SUBSET TokenTypes[c] :
             Start(p, [Idle EXCEPT !.pc = pc, !.kind = kind, !.client = c,
                                   !.user = u, !.form = form])
    BY <1>1 DEF LoadApplication
  <2>1. PICK form \in SUBSET TokenTypes[c] :
             Start(p, [Idle EXCEPT !.pc = pc, !.kind = kind, !.client = c,
                                   !.user = u, !.form = form])
    BY <2>0
  <2>2. [Idle EXCEPT !.pc = pc, !.kind = kind, !.client = c,
                     !.user = u, !.form = form] \in GoodRequest
    BY <1>0, FormType DEF Idle, Request, Steps, AllKinds, OrNone, GoodRequest,
       WellFormed, Entitled, Storing, Buying
  <2> QED BY <1>1, <2>1, <2>2 DEF Start, LoadApplication
<1>2. CASE TokenRequest(p)
  <2>1. PICK c \in clients :
          \/ \E k \in Held(Codes) :
                Start(p, [Idle EXCEPT !.pc = "grant", !.kind = "code",
                                      !.client = c, !.grant = k])
          \/ \E t \in Held(Refreshes), form \in SUBSET TokenTypes[c] :
                Start(p, [Idle EXCEPT !.pc = "grant", !.kind = "refresh",
                                      !.client = c, !.grant = t, !.form = form])
          \/ \E u \in Users, form \in SUBSET TokenTypes[c] :
                Start(p, [Idle EXCEPT !.pc = "grant", !.kind = "password",
                                      !.client = c, !.user = u, !.form = form])
          \/ \E form \in SUBSET TokenTypes[c] :
                Start(p, [Idle EXCEPT !.pc = "save", !.kind = "client",
                                      !.client = c, !.form = form])
    BY <1>2 DEF TokenRequest
  <2>2. ASSUME NEW k \in Held(Codes)
        PROVE  [Idle EXCEPT !.pc = "grant", !.kind = "code",
                            !.client = c, !.grant = k] \in GoodRequest
    BY <1>0 DEF Idle, Request, Steps, AllKinds, OrNone, GoodRequest,
       WellFormed, Entitled, Storing, Buying, Held, Ids
  <2>3. ASSUME NEW t \in Held(Refreshes), NEW form \in SUBSET TokenTypes[c]
        PROVE  [Idle EXCEPT !.pc = "grant", !.kind = "refresh", !.client = c,
                            !.grant = t, !.form = form] \in GoodRequest
    BY <1>0, FormType DEF Idle, Request, Steps, AllKinds, OrNone, GoodRequest,
       WellFormed, Entitled, Storing, Buying, Held, Ids
  <2>4. ASSUME NEW u \in Users, NEW form \in SUBSET TokenTypes[c]
        PROVE  [Idle EXCEPT !.pc = "grant", !.kind = "password", !.client = c,
                            !.user = u, !.form = form] \in GoodRequest
    BY <1>0, FormType DEF Idle, Request, Steps, AllKinds, OrNone, GoodRequest,
       WellFormed, Entitled, Storing, Buying
  <2>5. ASSUME NEW form \in SUBSET TokenTypes[c]
        PROVE  [Idle EXCEPT !.pc = "save", !.kind = "client",
                            !.client = c, !.form = form] \in GoodRequest
    BY <1>0, FormType DEF Idle, Request, Steps, AllKinds, OrNone, GoodRequest,
       WellFormed, Entitled, Storing, Buying
  <2>6. \E q \in GoodRequest : Become(p, q)
    BY <2>1, <2>2, <2>3, <2>4, <2>5 DEF Start
  <2> QED BY <1>2, <2>6 DEF TokenRequest
<1>3. CASE IshareTokenRequest(p)
  <2>1. PICK c \in Clients, k \in Held(Codes) :
          Start(p, [Idle EXCEPT !.pc = "ishareCode", !.kind = "ishare",
                                !.client = c, !.grant = k])
    BY <1>3 DEF IshareTokenRequest
  <2>2. [Idle EXCEPT !.pc = "ishareCode", !.kind = "ishare",
                     !.client = c, !.grant = k] \in GoodRequest
    BY DEF Idle, Request, Steps, AllKinds, OrNone, GoodRequest,
       WellFormed, Entitled, Storing, Buying, Held, Ids, Forms
  <2> QED BY <1>3, <2>1, <2>2 DEF Start, IshareTokenRequest
<1>4. CASE RevokeRequest(p)
  <2>1. PICK c \in clients, t \in Held(Refreshes \union Accesses) :
          Start(p, [Idle EXCEPT !.pc = IF t \in Refreshes THEN "revokeRefresh"
                                                          ELSE "revokeAccess",
                                !.kind = "revoke", !.client = c, !.grant = t])
    BY <1>4 DEF RevokeRequest
  <2>2. [Idle EXCEPT !.pc = IF t \in Refreshes THEN "revokeRefresh"
                                               ELSE "revokeAccess",
                     !.kind = "revoke", !.client = c, !.grant = t] \in GoodRequest
    BY <1>0 DEF Idle, Request, Steps, AllKinds, OrNone, GoodRequest,
       WellFormed, Entitled, Storing, Buying, Held, Ids, Forms
  <2> QED BY <1>4, <2>1, <2>2 DEF Start, RevokeRequest
<1> QED BY <1>1, <1>2, <1>3, <1>4 DEF Arrive

LEMMA ArriveType ==
  ASSUME TypeOK, NEW p \in Requests, Arrive(p)
  PROVE  TypeOK'
<1>1. Reqs'
  BY ArriveStep, BecomeType DEF TypeOK, Reqs, GoodRequest
<1> QED BY <1>1, ArriveStep, OnlyReqsType

(***************************************************************************)
(* The other variables that handlers write.                                *)
(***************************************************************************)
Writes == InvalidateWrite \union RefreshWrite \union ConsentWrite

LEMMA DrawnType ==
  ASSUME TypeOK, NEW q \in Request, NEW xs, NEW delivered \in BOOLEAN
  PROVE  Drawn(q, xs, delivered) \in [Ids -> Entry]
  BY DEF TypeOK, Drawn, Entry, Request

LEMMA DeliveredType ==
  ASSUME TypeOK, NEW xs
  PROVE  Delivered(xs) \in [Ids -> Entry]
  BY DEF TypeOK, Delivered, Entry

LEMMA InvalidateType ==
  ASSUME NEW x \in Ids
  PROVE  Invalidate(x) \in Writes
  BY DEF Invalidate, Writes, InvalidateWrite

LEMMA OrphanedType ==
  ASSUME writes \subseteq Writes, NEW p \in Requests
  PROVE  Orphaned(p) \subseteq Writes
<1> SUFFICES ASSUME NEW w \in writes, w.op = "consent"
             PROVE  [w EXCEPT !.by = None] \in Writes
  BY DEF Orphaned
<1>1. w \in ConsentWrite
  BY DEF Writes, ConsentWrite, RefreshWrite, InvalidateWrite
<1>2. [w EXCEPT !.by = None] \in ConsentWrite
  BY <1>1 DEF ConsentWrite, OrNone
<1> QED BY <1>2 DEF Writes

LEMMA RejectType ==
  ASSUME TypeOK, NEW p \in Requests, Reject(p)
  PROVE  Reqs' /\ writes' \subseteq Writes
  BY FinishType, OrphanedType DEF TypeOK, Reqs, Reject, Writes

LEMMA ConsentWritesType ==
  ASSUME TypeOK, NEW p \in Requests, req[p].client \in Clients
  PROVE  ConsentWrites(p) \subseteq Writes
<1> SUFFICES ASSUME req[p].user # None
             PROVE  [op |-> "consent", pair |-> Pair(p), by |-> p] \in ConsentWrite
  BY DEF ConsentWrites, Writes
<1>1. Pair(p) \in Consent
  BY DEF TypeOK, Request, OrNone, Pair, Consent
<1> QED BY <1>1 DEF ConsentWrite, OrNone

LEMMA RowTypes ==
  ASSUME TypeOK, NEW p \in Requests, req[p].client \in Clients
  PROVE  /\ req[p].r \in Refreshes => RefreshRowOf(req[p]) \in RefreshRow
         /\ req[p].a \in Accesses => AccessRowOf(req[p]) \in AccessRow
         /\ req[p].a \in Accesses => JwtOf(req[p]) \in Jwt
<1>1. req[p] \in Request
  BY DEF TypeOK
<1>2. CodeOf(req[p]) \in OrNone(Codes)
  BY DEF CodeOf, OrNone
<1> QED
  BY <1>1, <1>2 DEF Request, RefreshRowOf, AccessRowOf, JwtOf, RefreshRow,
                    AccessRow, Jwt

LEMMA InvalidatedType ==
  ASSUME TypeOK, NEW x
  PROVE  /\ Invalidated(codes, x) \subseteq CodeRow
         /\ Invalidated(refresh, x) \subseteq RefreshRow
         /\ Invalidated(access, x) \subseteq AccessRow
<1>1. \A row \in CodeRow : [row EXCEPT !.valid = FALSE] \in CodeRow
  BY DEF CodeRow
<1>2. \A row \in RefreshRow : [row EXCEPT !.valid = FALSE] \in RefreshRow
  BY DEF RefreshRow
<1>3. \A row \in AccessRow : [row EXCEPT !.valid = FALSE] \in AccessRow
  BY DEF AccessRow
<1> QED BY <1>1, <1>2, <1>3 DEF TypeOK, Invalidated

(***************************************************************************)
(* A step of a handler keeps the types.                                    *)
(***************************************************************************)
LEMMA HandleType ==
  ASSUME TypeOK, ReqOK, NEW p \in Requests, Handle(p)
  PROVE  TypeOK'
<1>0. Reqs /\ writes \subseteq Writes
  BY DEF TypeOK, Reqs, Writes
<1>r. req[p] \in Request
  BY DEF TypeOK
<1>1. CASE CheckUserAuthorizedApplication(p)
  <2>1. Reqs'
    BY <1>0, <1>1, FinishType, GotoType
       DEF CheckUserAuthorizedApplication, AfterConsent, Steps
  <2> QED BY <1>1, <2>1, OnlyReqsType DEF CheckUserAuthorizedApplication
<1>2. CASE EnableApp(p)
  <2>1. Reqs'
    BY <1>0, <1>2, FinishType, GotoType DEF EnableApp, AfterConsent, Steps
  <2>2. consent' \subseteq Consent /\ prompted' \subseteq Consent
    BY <1>2 DEF TypeOK, EnableApp, ConsentFk, Pair, Consent
  <2> QED BY <1>2, <2>1, <2>2 DEF TypeOK, Reqs, EnableApp
<1>3. CASE SaveAuthorizationCode(p)
  <2>1. Reqs'
    BY <1>0, <1>3, FinishType DEF SaveAuthorizationCode
  <2>2. codes' \subseteq CodeRow
    <3>1. ASSUME NEW k \in Fresh(Codes), CodeFk(CodeRowOf(p, k), users, clients)
          PROVE  CodeRowOf(p, k) \in CodeRow
      BY <3>1, <1>r DEF TypeOK, CodeFk, CodeRowOf, CodeRow, Fresh, Request
    <3>2. codes \subseteq CodeRow
      BY DEF TypeOK
    <3>3. \E k \in Fresh(Codes) :
            IF CodeFk(CodeRowOf(p, k), users, clients)
            THEN codes' = codes \union {CodeRowOf(p, k)}
            ELSE codes' = codes
      BY <1>3 DEF SaveAuthorizationCode
    <3> QED BY <3>1, <3>2, <3>3
  <2>3. ledger' \in [Ids -> Entry]
    BY <1>3, <1>r, DrawnType DEF TypeOK, SaveAuthorizationCode
  <2> QED BY <1>3, <2>1, <2>2, <2>3 DEF TypeOK, Reqs, SaveAuthorizationCode
<1>4. CASE GetAuthorizationCode(p)
  <2>1. ASSUME NEW row \in ValidCode(p),
               Become(p, [req[p] EXCEPT !.pc = "revokeCode", !.user = row.user,
                                        !.form = row.form])
        PROVE  Reqs'
    <3>1. row \in CodeRow
      BY DEF TypeOK, ValidCode, Presented
    <3>2. [req[p] EXCEPT !.pc = "revokeCode", !.user = row.user,
                         !.form = row.form] \in Request
      BY <1>r, <3>1 DEF CodeRow, Request, Steps, OrNone
    <3> QED BY <1>0, <2>1, <3>2, BecomeType
  <2>2. Reqs'
    BY <1>0, <1>4, <2>1, FinishType, GotoType DEF GetAuthorizationCode, Steps
  <2> QED BY <1>4, <2>2, OnlyReqsType DEF GetAuthorizationCode
<1>5. CASE GetRefreshToken(p)
  <2>1. ASSUME NEW row \in ValidRefresh(p),
               Become(p, [req[p] EXCEPT !.pc = "revokeRefresh", !.user = row.user])
        PROVE  Reqs'
    <3>1. row \in RefreshRow
      BY DEF TypeOK, ValidRefresh, Presented
    <3>2. [req[p] EXCEPT !.pc = "revokeRefresh", !.user = row.user] \in Request
      BY <1>r, <3>1 DEF RefreshRow, Request, Steps
    <3> QED BY <1>0, <2>1, <3>2, BecomeType
  <2>2. Reqs'
    BY <1>0, <1>5, <2>1, FinishType DEF GetRefreshToken
  <2> QED BY <1>5, <2>2, OnlyReqsType DEF GetRefreshToken
<1>6. CASE GetIdentity(p)
  <2>1. Reqs'
    BY <1>0, <1>6, FinishType, GotoType DEF GetIdentity, Steps
  <2> QED BY <1>6, <2>1, OnlyReqsType DEF GetIdentity
<1>7. CASE RevokeAuthorizationCode(p)
  <2>1. Reqs'
    BY <1>0, <1>7, GotoType DEF RevokeAuthorizationCode, Steps
  <2>2. writes' \subseteq Writes
    BY <1>0, <1>7, InvalidateType
       DEF TypeOK, RevokeAuthorizationCode, CodeRow, Ids
  <2> QED BY <1>7, <2>1, <2>2
          DEF TypeOK, Reqs, Writes, RevokeAuthorizationCode, tables, history
<1>8. CASE RevokeRefreshToken(p)
  <2>1. \A row \in RefreshMatches(p) : row.id \in Refreshes
    BY DEF TypeOK, RefreshMatches, RefreshRow
  <2>2. Reqs'
    <3>1. ASSUME NEW row \in RefreshMatches(p),
                 Become(p, [req[p] EXCEPT !.pc = "revokeAccess", !.r = row.id])
          PROVE  Reqs'
      <4>1. [req[p] EXCEPT !.pc = "revokeAccess", !.r = row.id] \in Request
        BY <1>r, <2>1 DEF Request, Steps, OrNone
      <4> QED BY <1>0, <3>1, <4>1, BecomeType
    <3> QED BY <1>0, <1>8, <3>1, FinishType, GotoType
            DEF RevokeRefreshToken, Steps
  <2>3. writes' \subseteq Writes
    <3>1. \A row \in RefreshMatches(p) : Invalidate(row.id) \in Writes
      BY <2>1, InvalidateType DEF Ids
    <3>2. \/ \E row \in RefreshMatches(p) : writes' = writes \union {Invalidate(row.id)}
          \/ writes' = writes
      BY <1>8 DEF RevokeRefreshToken
    <3> QED BY <1>0, <3>1, <3>2
  <2> QED BY <1>8, <2>2, <2>3
          DEF TypeOK, Reqs, Writes, RevokeRefreshToken, tables, history
<1>9. CASE RevokeAccessToken(p)
  <2>1. Reqs'
    BY <1>0, <1>9, FinishType DEF RevokeAccessToken
  <2>2. writes' \subseteq Writes
    BY <1>0, <1>9, InvalidateType
       DEF TypeOK, RevokeAccessToken, AccessMatches, AccessRow, Ids
  <2>3. acked' \subseteq Ids
    BY <1>9 DEF TypeOK, ReqOK, WellFormed, RevokeAccessToken
  <2> QED BY <1>9, <2>1, <2>2, <2>3
          DEF TypeOK, Reqs, Writes, RevokeAccessToken, tables
<1>10. CASE SaveToken(p)
  <2>1. PICK a \in Fresh(Accesses), r \in NewRefreshes(p) :
          /\ ledger' = Drawn(req[p], {a, r}, FALSE)
          /\ Become(p, [req[p] EXCEPT !.a = a, !.r = r,
                                      !.pc = IF "jwt" \in req[p].form THEN "jwt"
                                             ELSE IF r # None THEN "storeRefresh"
                                             ELSE "storeAccess"])
    BY <1>10 DEF SaveToken
  <2>2. a \in Accesses /\ r \in OrNone(Refreshes)
    BY DEF Fresh, NewRefreshes, OrNone
  <2>3. Reqs'
    <3>1. [req[p] EXCEPT !.a = a, !.r = r,
                         !.pc = IF "jwt" \in req[p].form THEN "jwt"
                                ELSE IF r # None THEN "storeRefresh"
                                ELSE "storeAccess"] \in Request
      BY <1>r, <2>2 DEF Request, Steps, OrNone
    <3> QED BY <1>0, <2>1, <3>1, BecomeType
  <2>4. ledger' \in [Ids -> Entry]
    BY <1>r, <2>1, DrawnType
  <2>5. writes' \subseteq Writes
    BY <1>0, <1>10, ConsentWritesType DEF SaveToken, ReqOK, WellFormed, At
  <2> QED BY <1>10, <2>3, <2>4, <2>5 DEF TypeOK, Reqs, Writes, SaveToken, tables
<1>11. CASE GenerateJwtToken(p)
  <2>0. req[p].client \in Clients /\ req[p].a \in Accesses
    BY <1>11 DEF ReqOK, WellFormed, GenerateJwtToken, At, Storing
  <2>1. Reqs'
    BY <1>0, <1>11, GotoType DEF GenerateJwtToken, Steps
  <2>2. req[p].r # None => RefreshRowOf(req[p]) \in RefreshRow
    BY <1>r, <2>0, RowTypes DEF Request, OrNone
  <2>3. writes' \subseteq Writes
    BY <1>0, <1>11, <2>0, <2>2, ConsentWritesType
       DEF GenerateJwtToken, Writes, RefreshWrite
  <2> QED BY <1>11, <2>1, <2>3 DEF TypeOK, Reqs, Writes, GenerateJwtToken,
                                   tables, history
<1>12. CASE StoreRefresh(p)
  <2>1. RefreshRowOf(req[p]) \in RefreshRow
    BY <1>12, RowTypes DEF ReqOK, WellFormed, StoreRefresh, At
  <2>2. Reqs' /\ writes' \subseteq Writes
    BY <1>0, <1>12, GotoType, RejectType DEF StoreRefresh, Steps
  <2> QED BY <1>12, <2>1, <2>2 DEF TypeOK, Reqs, Writes, StoreRefresh, history
<1>13. CASE StoreAccess(p)
  <2>1. AccessRowOf(req[p]) \in AccessRow
    BY <1>13, RowTypes DEF ReqOK, WellFormed, StoreAccess, At, Storing
  <2>2. Reqs' /\ writes' \subseteq Writes
    BY <1>0, <1>13, GotoType, RejectType DEF StoreAccess, Steps
  <2> QED BY <1>13, <2>1, <2>2 DEF TypeOK, Reqs, Writes, StoreAccess, history
<1>14. CASE RespondToken(p)
  <2>1. JwtOf(req[p]) \in Jwt
    BY <1>14, RowTypes DEF ReqOK, WellFormed, RespondToken, At, Storing
  <2>2. Reqs'
    BY <1>0, <1>14, FinishType DEF RespondToken
  <2>3. ledger' \in [Ids -> Entry]
    BY <1>14, DeliveredType DEF TypeOK, RespondToken
  <2> QED BY <1>14, <2>1, <2>2, <2>3 DEF TypeOK, Reqs, RespondToken
<1>15. CASE IshareReadCode(p)
  <2>1. CASE UNCHANGED <<writes, ledger>> /\ Finish(p)
    BY <1>0, <1>15, <2>1, FinishType, OnlyReqsType
       DEF IshareReadCode, history
  <2>2. ASSUME NEW row \in ValidCode(p), NEW a \in Fresh(Accesses), NEW q,
               q = [req[p] EXCEPT !.pc = "ishareStore", !.a = a,
                                  !.user = row.user],
               writes' = writes \union {Invalidate(row.id)},
               Become(p, q), ledger' = Drawn(q, {a}, FALSE)
        PROVE  TypeOK'
    <3>1. row \in CodeRow /\ a \in Accesses
      BY DEF TypeOK, ValidCode, Presented, Fresh
    <3>2. q \in Request
      BY <1>r, <2>2, <3>1 DEF CodeRow, Request, Steps, OrNone
    <3>5. Reqs'
      BY <1>0, <2>2, <3>2, BecomeType
    <3>3. writes' \subseteq Writes
      BY <1>0, <2>2, <3>1, InvalidateType DEF CodeRow, Ids
    <3>4. ledger' \in [Ids -> Entry]
      BY <2>2, <3>2, DrawnType
    <3> QED BY <1>15, <3>5, <3>3, <3>4
            DEF TypeOK, Reqs, Writes, IshareReadCode, tables
  <2> QED BY <1>15, <2>1, <2>2 DEF IshareReadCode
<1>16. CASE IshareStoreToken(p)
  <2>1. AccessRowOf(req[p]) \in AccessRow
    BY <1>16, RowTypes DEF ReqOK, WellFormed, IshareStoreToken, At, Storing
  <2>2. Reqs' /\ writes' \subseteq Writes
    BY <1>0, <1>16, FinishType, DieType DEF IshareStoreToken
  <2>3. ledger' \in [Ids -> Entry]
    BY <1>16, DeliveredType DEF TypeOK, IshareStoreToken
  <2> QED BY <1>16, <2>1, <2>2, <2>3 DEF TypeOK, Reqs, Writes, IshareStoreToken
<1> QED BY <1>1, <1>2, <1>3, <1>4, <1>5, <1>6, <1>7, <1>8, <1>9, <1>10, <1>11,
           <1>12, <1>13, <1>14, <1>15, <1>16 DEF Handle

LEMMA ExecuteType ==
  ASSUME TypeOK, NEW w \in writes,
         ExecuteInvalidate(w) \/ ExecuteRefresh(w) \/ ExecuteConsent(w)
  PROVE  TypeOK'
<1>0. Reqs /\ writes \subseteq Writes
  BY DEF TypeOK, Reqs, Writes
<1>1. CASE ExecuteInvalidate(w)
  BY <1>1, InvalidatedType DEF ExecuteInvalidate, TypeOK, history
<1>2. CASE ExecuteRefresh(w)
  <2>1. w.row \in RefreshRow
    BY <1>0, <1>2 DEF ExecuteRefresh, Writes, RefreshWrite, ConsentWrite,
                      InvalidateWrite
  <2>2. Reqs' /\ writes' \subseteq Writes
    BY <1>0, <1>2, DieType DEF ExecuteRefresh, Reqs
  <2> QED BY <1>2, <2>1, <2>2 DEF TypeOK, Reqs, Writes, ExecuteRefresh, history
<1>3. CASE ExecuteConsent(w)
  <2>1. w.pair \in Consent /\ w.by \in OrNone(Requests)
    BY <1>0, <1>3 DEF ExecuteConsent, Writes, RefreshWrite, ConsentWrite,
                      InvalidateWrite
  <2>2. w.by # None => [req[w.by] EXCEPT !.failed = TRUE] \in Request
    BY <1>0, <2>1 DEF Reqs, Request, OrNone
  <2>3. Reqs' /\ writes' \subseteq Writes
    BY <1>0, <1>3, <2>1, <2>2, DieType, BecomeType DEF ExecuteConsent, Reqs, OrNone
  <2> QED BY <1>3, <2>1, <2>3 DEF TypeOK, Reqs, Writes, ExecuteConsent, history
<1> QED BY <1>1, <1>2, <1>3

LEMMA EnvironmentType ==
  ASSUME TypeOK, Environment
  PROVE  TypeOK'
<1>0. Reqs
  BY DEF TypeOK, Reqs
<1>1. ASSUME NEW u \in users, DeleteUser(u) PROVE TypeOK'
  BY <1>1 DEF TypeOK, DeleteUser, Cascade, history
<1>2. ASSUME NEW c \in clients, DeleteClient(c) PROVE TypeOK'
  BY <1>2 DEF TypeOK, DeleteClient, Cascade, history
<1>3. ASSUME NEW pair \in consent, DeleteThirdPartyApplication(pair) PROVE TypeOK'
  BY <1>3 DEF TypeOK, DeleteThirdPartyApplication
<1>4. CASE ProcessDies
  BY <1>4, DieType DEF TypeOK, Reqs, ProcessDies, tables, history
<1>5. ASSUME NEW p \in Requests, StatementFails(p) PROVE TypeOK'
  <2>1. Reqs' /\ writes' \subseteq Writes
    BY <1>0, <1>5, RejectType, DieType DEF StatementFails
  <2> QED BY <1>5, <2>1 DEF TypeOK, Reqs, Writes, StatementFails, tables, history
<1> QED BY <1>1, <1>2, <1>3, <1>4, <1>5 DEF Environment

(***************************************************************************)
(* How the ledger changes.                                                 *)
(***************************************************************************)
LEMMA DrawnKeeps ==
  ASSUME TypeOK, Descent, NEW q \in Request, q.client \in Clients,
         q.grant # None => Owns(q.grant, q.client, q.user),
         NEW xs, \A x \in xs \intersect Ids : ledger[x].client = None,
         NEW d \in BOOLEAN, ledger' = Drawn(q, xs, d)
  PROVE  /\ LedgerKeeps /\ Descent'
         /\ \A x \in xs \intersect Ids : Owns(x, q.client, q.user)'
<1>0. q.client # None /\ q.grant \in OrNone(Ids)
  BY NoneAssumption DEF Request
<1>1. LedgerKeeps
  BY DEF LedgerKeeps, Drawn
<1>2. \A x \in xs \intersect Ids : Owns(x, q.client, q.user)'
  BY DEF Owns, Drawn
<1>3. Descent'
  <2> SUFFICES ASSUME NEW x \in Ids, ledger'[x].from # None
               PROVE  /\ ledger'[x].client # None
                      /\ Owns(ledger[x].from, ledger[x].client, ledger[x].user)'
    BY DEF Descent
  <2>1. CASE x \in xs
    <3>1. /\ ledger'[x].client = q.client /\ ledger'[x].user = q.user
          /\ ledger'[x].from = q.grant
      BY <2>1 DEF Drawn
    <3>2. q.grant \in Ids /\ q.grant \notin xs
      BY <1>0, <3>1 DEF OrNone, Owns
    <3>3. ledger'[q.grant] = ledger[q.grant]
      BY <3>2 DEF Drawn
    <3> QED BY <1>0, <3>1, <3>3 DEF Owns
  <2>2. CASE x \notin xs
    <3>1. ledger'[x] = ledger[x]
      BY <2>2 DEF Drawn
    <3>2. ledger[x].from \in Ids
      BY <3>1 DEF TypeOK, Entry, OrNone
    <3>3. ledger[x].client # None /\ Owns(ledger[x].from, ledger[x].client, ledger[x].user)
      BY <3>1 DEF Descent
    <3>4. ledger[ledger[x].from].client # None
      BY <3>3 DEF Owns
    <3> QED BY <1>1, <3>1, <3>2, <3>3, <3>4 DEF Owns, LedgerKeeps
  <2> QED BY <2>1, <2>2
<1> QED BY <1>1, <1>2, <1>3

LEMMA DeliveredKeeps ==
  ASSUME TypeOK, Descent, NEW xs, ledger' = Delivered(xs)
  PROVE  LedgerKeeps /\ Descent'
<1>1. ASSUME NEW x \in Ids
      PROVE  /\ ledger'[x].client = ledger[x].client
             /\ ledger'[x].user = ledger[x].user
             /\ ledger'[x].from = ledger[x].from
  BY DEF TypeOK, Delivered, Entry
<1>2. \A x \in Ids : ledger[x].from \in OrNone(Ids)
  BY DEF TypeOK, Entry
<1> QED BY <1>1, <1>2 DEF LedgerKeeps, Descent, Owns, OrNone

LEMMA SameKeeps ==
  ASSUME Descent, UNCHANGED ledger
  PROVE  LedgerKeeps /\ Descent'
  BY DEF LedgerKeeps, Descent, Owns

LEMMA OwnsKept ==
  ASSUME LedgerKeeps, NEW x \in Ids, NEW c \in Clients, NEW u, Owns(x, c, u)
  PROVE  Owns(x, c, u)'
  BY NoneAssumption DEF LedgerKeeps, Owns

\* What a request is entitled to, it stays entitled to.
LEMMA EntitledKept ==
  ASSUME LedgerKeeps, NEW q \in Request, WellFormed(q), Entitled(q)
  PROVE  Entitled(q)'
<1>1. Buying(q) \/ q.pc \in Storing => q.client \in Clients
  BY DEF Buying, Storing, WellFormed
<1>2. /\ q.grant # None => q.grant \in Ids
      /\ q.r # None => q.r \in Ids
      /\ q.pc \in Storing => q.a \in Ids
  BY DEF Request, OrNone, Ids, WellFormed
<1>3. /\ Buying(q) /\ q.grant # None => Owns(q.grant, q.client, q.user)'
      /\ q.pc \in Storing => Owns(q.a, q.client, q.user)'
      /\ q.pc \in Storing /\ q.r # None => Owns(q.r, q.client, q.user)'
  BY <1>1, <1>2, OwnsKept DEF Entitled
<1> QED BY <1>3 DEF Entitled, Owns

\* A row stays owned as long as it keeps its key, client and user.
LEMMA RowKept ==
  ASSUME TypeOK, RowsOwned, LedgerKeeps,
         NEW row \in codes \union refresh \union access
  PROVE  Owned(row)'
<1>1. row.id \in Ids /\ row.client \in Clients
  BY DEF TypeOK, CodeRow, RefreshRow, AccessRow, Ids
<1> QED BY <1>1, OwnsKept DEF RowsOwned, Owned, Owns

LEMMA WritesKept ==
  ASSUME TypeOK, WritesOwned, LedgerKeeps, NEW w \in writes, w.op = "refresh"
  PROVE  Owned(w.row)'
<1>1. w.row \in RefreshRow
  BY DEF TypeOK, RefreshWrite, ConsentWrite, InvalidateWrite
<1>2. w.row.id \in Ids /\ w.row.client \in Clients
  BY <1>1 DEF RefreshRow, Ids
<1> QED BY <1>2, OwnsKept DEF WritesOwned, Owned, Owns

\* The frame of a step: only what is new has to be looked at.
LEMMA StepKeeps ==
  ASSUME IInv, TypeOK', LedgerKeeps, Descent',
         \A row \in (codes \union refresh \union access)' :
            \/ \E old \in codes \union refresh \union access :
                  row.id = old.id /\ row.client = old.client /\ row.user = old.user
            \/ Owned(row)',
         \A w \in writes' : w \in writes \/ (w.op = "refresh" => Owned(w.row)'),
         \A p \in Requests : \/ req'[p] = req[p]
                             \/ WellFormed(req'[p]) /\ Entitled(req[p])'
  PROVE  IInv'
<1>1. RowsOwned'
  BY RowKept DEF IInv, Ownership, RowsOwned, Owned, Owns
<1>2. WritesOwned'
  BY WritesKept DEF IInv, Ownership, WritesOwned
<1>3. ASSUME NEW p \in Requests PROVE WellFormed(req'[p]) /\ Entitled(req[p])'
  <2>1. CASE req'[p] = req[p]
    <3>1. req[p] \in Request /\ WellFormed(req[p]) /\ Entitled(req[p])
      BY DEF IInv, TypeOK, ReqOK, Ownership
    <3> DEFINE q == req[p]
    <3>2. Entitled(q)'
      BY <2>1, <3>1, EntitledKept DEF Entitled, Owns, Buying
    <3> QED BY <2>1, <3>1, <3>2
  <2> QED BY <2>1
<1> QED BY <1>1, <1>2, <1>3 DEF IInv, ReqOK, Ownership

\* The same when a request moves and every row, statement and entry stays.
LEMMA MoveKeeps ==
  ASSUME IInv, TypeOK', NEW p \in Requests, NEW q, Become(p, q),
         WellFormed(q), Entitled(q),
         UNCHANGED <<codes, refresh, access, ledger>>,
         \A w \in writes' : w \in writes \/ w.op # "refresh"
  PROVE  IInv'
<1>1. LedgerKeeps /\ Descent'
  BY SameKeeps DEF IInv, Ownership
<1>2. ASSUME NEW o \in Requests
      PROVE  req'[o] = req[o] \/ (WellFormed(req'[o]) /\ Entitled(req[o])')
  <2>1. req' = [req EXCEPT ![p] = q] /\ req \in [Requests -> Request]
    BY DEF Become, IInv, TypeOK
  <2>2. CASE o = p
    <3>1. req'[o] = q
      BY <2>1, <2>2
    <3> QED BY <3>1 DEF Entitled, Owns, Buying
  <2> QED BY <2>1, <2>2
<1> QED BY <1>1, <1>2, StepKeeps

LEMMA IdleGood == WellFormed(Idle) /\ Entitled(Idle)
  BY DEF WellFormed, Entitled, Idle, Storing, Buying

LEMMA FinishKeeps ==
  ASSUME IInv, TypeOK', NEW p \in Requests, Finish(p),
         UNCHANGED <<codes, refresh, access, ledger>>,
         \A w \in writes' : w \in writes \/ w.op # "refresh"
  PROVE  IInv'
  BY IdleGood, MoveKeeps DEF Finish

LEMMA OrphanedKeeps ==
  ASSUME NEW p \in Requests, writes \subseteq Writes, NEW w \in Orphaned(p)
  PROVE  w \in writes \/ w.op # "refresh"
<1> SUFFICES ASSUME NEW o \in writes, o.op = "consent", w = [o EXCEPT !.by = None]
             PROVE  w.op # "refresh"
  BY DEF Orphaned
<1>1. o \in ConsentWrite
  BY DEF Writes, ConsentWrite, RefreshWrite, InvalidateWrite
<1> QED BY <1>1 DEF ConsentWrite

LEMMA RejectKeeps ==
  ASSUME IInv, TypeOK', NEW p \in Requests, Reject(p),
         UNCHANGED <<codes, refresh, access, ledger>>
  PROVE  IInv'
  BY FinishKeeps, OrphanedKeeps DEF Reject, IInv, TypeOK, Writes

LEMMA DieKeeps ==
  ASSUME IInv, TypeOK', Die, UNCHANGED <<codes, refresh, access, ledger>>
  PROVE  IInv'
<1>1. LedgerKeeps /\ Descent'
  BY SameKeeps DEF IInv, Ownership
<1>2. ASSUME NEW p \in Requests
      PROVE  WellFormed(req'[p]) /\ Entitled(req[p])'
  <2>1. req'[p] = Idle
    BY DEF Die
  <2> QED BY <2>1, IdleGood DEF Entitled, Owns, Buying, Idle, Storing
<1> QED BY <1>1, <1>2, StepKeeps DEF Die

LEMMA ArriveKeeps ==
  ASSUME IInv, TypeOK', NEW p \in Requests, Arrive(p)
  PROVE  IInv'
<1>1. PICK q \in GoodRequest : Become(p, q)
  BY ArriveStep DEF IInv
<1>2. UNCHANGED <<tables, writes, history>>
  BY ArriveStep DEF IInv
<1> QED BY <1>1, <1>2, MoveKeeps DEF tables, history, GoodRequest

\* A request that inserts one row keeps the invariant if it owns the row.
LEMMA InsertKeeps ==
  ASSUME IInv, TypeOK', NEW p \in Requests, NEW q, Become(p, q),
         WellFormed(q), Entitled(q)', LedgerKeeps, Descent', UNCHANGED writes,
         \A row \in (codes \union refresh \union access)' :
            row \in codes \union refresh \union access \/ Owned(row)'
  PROVE  IInv'
<1>1. ASSUME NEW o \in Requests
      PROVE  req'[o] = req[o] \/ (WellFormed(req'[o]) /\ Entitled(req[o])')
  <2>1. req' = [req EXCEPT ![p] = q] /\ req \in [Requests -> Request]
    BY DEF Become, IInv, TypeOK
  <2>2. CASE o = p
    <3>1. req'[o] = q
      BY <2>1, <2>2
    <3> QED BY <3>1 DEF Entitled, Owns, Buying
  <2> QED BY <2>1, <2>2
<1> QED BY <1>1, StepKeeps

LEMMA HandleKeeps ==
  ASSUME IInv, TypeOK', NEW p \in Requests, Handle(p)
  PROVE  IInv'
<1>q. PICK q0 : q0 = req[p]
  OBVIOUS
<1>0. /\ q0 \in Request /\ WellFormed(q0) /\ Entitled(q0)
      /\ TypeOK /\ Descent /\ RowsOwned
  BY <1>q DEF IInv, TypeOK, ReqOK, Ownership
<1>i. WellFormed(Idle)
  BY IdleGood
<1>1. CASE CheckUserAuthorizedApplication(p)
  <2>1. CASE Finish(p)
    BY <1>1, <1>q, <2>1, FinishKeeps DEF CheckUserAuthorizedApplication, tables, history
  <2>2. CASE Goto(p, AfterConsent(p))
    <3> DEFINE q == [q0 EXCEPT !.pc = AfterConsent(p)]
    <3>1. WellFormed(q) /\ Entitled(q)
      BY <1>0, <1>q, <1>1 DEF CheckUserAuthorizedApplication, At, AfterConsent,
         WellFormed, Entitled, Buying, Storing, Request
    <3> QED BY <1>1, <1>q, <2>2, <3>1, MoveKeeps
            DEF Goto, CheckUserAuthorizedApplication, tables, history
  <2> QED BY <1>1, <1>q, <2>1, <2>2 DEF CheckUserAuthorizedApplication
<1>2. CASE EnableApp(p)
  <2>1. CASE Finish(p)
    BY <1>2, <1>q, <2>1, FinishKeeps DEF EnableApp
  <2>2. CASE Goto(p, AfterConsent(p))
    <3> DEFINE q == [q0 EXCEPT !.pc = AfterConsent(p)]
    <3>1. WellFormed(q) /\ Entitled(q)
      BY <1>0, <1>q, <1>2 DEF EnableApp, At, AfterConsent, WellFormed, Entitled,
         Buying, Storing, Request
    <3> QED BY <1>2, <1>q, <2>2, <3>1, MoveKeeps DEF Goto, EnableApp
  <2> QED BY <1>2, <1>q, <2>1, <2>2 DEF EnableApp
<1>3. CASE SaveAuthorizationCode(p)
  <2>1. CASE UNCHANGED <<codes, ledger>>
    BY <1>3, <1>q, <2>1, FinishKeeps DEF SaveAuthorizationCode
  <2>2. ASSUME NEW k \in Fresh(Codes),
               codes' = codes \union {CodeRowOf(p, k)},
               ledger' = Drawn(q0, {k}, TRUE)
        PROVE  IInv'
    <3>1. /\ q0.client \in Clients
          /\ q0.grant # None => Owns(q0.grant, q0.client, q0.user)
      BY <1>0, <1>q, <1>3 DEF SaveAuthorizationCode, At, WellFormed, Entitled, Buying
    <3>2. k \in Codes /\ ledger[k].client = None
      BY DEF Fresh
    <3>3. /\ LedgerKeeps /\ Descent'
          /\ \A x \in {k} \intersect Ids : Owns(x, q0.client, q0.user)'
      <4>1. \A x \in {k} \intersect Ids : ledger[x].client = None
        BY <3>2
      <4> QED BY <1>0, <1>q, <2>2, <3>1, <4>1, DrawnKeeps
    <3> DEFINE row == [id |-> k, client |-> q0.client, user |-> q0.user,
                       form |-> q0.form, valid |-> TRUE]
    <3>r. row = CodeRowOf(p, k)
      BY <1>q DEF CodeRowOf
    <3>4. Owned(row)'
      BY <3>2, <3>3 DEF Owned, Owns, Ids
    <3>5. Entitled(Idle)'
      BY DEF Entitled, Idle, Buying, Storing
    <3>6. \A x \in (codes \union refresh \union access)' :
             x \in codes \union refresh \union access \/ Owned(x)'
      BY <1>3, <2>2, <3>r, <3>4 DEF SaveAuthorizationCode
    <3> QED BY <1>3, <1>i, <3>3, <3>5, <3>6, InsertKeeps
            DEF SaveAuthorizationCode, Finish
  <2> QED BY <1>3, <1>q, <2>1, <2>2 DEF SaveAuthorizationCode
<1>4. CASE GetAuthorizationCode(p)
  <2>1. ASSUME NEW row \in ValidCode(p), NEW q,
               q = [q0 EXCEPT !.pc = "revokeCode", !.user = row.user,
                              !.form = row.form],
               Become(p, q)
        PROVE  IInv'
    <3>1. row \in codes /\ row.id = q0.grant /\ row.client = q0.client
      BY <1>q DEF ValidCode, Presented
    <3>2. Owns(q0.grant, q0.client, row.user)
      BY <1>0, <1>q, <3>1 DEF RowsOwned, Owned
    <3>3. q0.pc = "grant" /\ q0.kind = "code"
      BY <1>4, <1>q DEF GetAuthorizationCode, At
    <3>4. WellFormed(q) /\ Entitled(q)
      BY <1>0, <1>q, <2>1, <3>2, <3>3 DEF WellFormed, Entitled, Buying, Storing, Request
    <3> QED BY <1>4, <1>q, <2>1, <3>4, MoveKeeps
            DEF GetAuthorizationCode, tables, history
  <2>2. CASE Goto(p, "revokeRefresh")
    <3> DEFINE q == [q0 EXCEPT !.pc = "revokeRefresh"]
    <3>1. WellFormed(q) /\ Entitled(q)
      BY <1>0, <1>q, <1>4 DEF GetAuthorizationCode, At, WellFormed, Entitled, Buying,
         Storing, Request
    <3> QED BY <1>4, <1>q, <2>2, <3>1, MoveKeeps
            DEF Goto, GetAuthorizationCode, tables, history
  <2>3. CASE Finish(p)
    BY <1>4, <1>q, <2>3, FinishKeeps DEF GetAuthorizationCode, tables, history
  <2> QED BY <1>4, <1>q, <2>1, <2>2, <2>3 DEF GetAuthorizationCode
<1>5. CASE GetRefreshToken(p)
  <2>1. ASSUME NEW row \in ValidRefresh(p), NEW q,
               q = [q0 EXCEPT !.pc = "revokeRefresh", !.user = row.user],
               Become(p, q)
        PROVE  IInv'
    <3>1. row \in refresh /\ row.id = q0.grant /\ row.client = q0.client
      BY <1>q DEF ValidRefresh, Presented
    <3>2. Owns(q0.grant, q0.client, row.user)
      BY <1>0, <1>q, <3>1 DEF RowsOwned, Owned
    <3>3. q0.pc = "grant" /\ q0.kind = "refresh"
      BY <1>5, <1>q DEF GetRefreshToken, At
    <3>4. WellFormed(q) /\ Entitled(q)
      BY <1>0, <1>q, <2>1, <3>2, <3>3 DEF WellFormed, Entitled, Buying, Storing, Request
    <3> QED BY <1>5, <1>q, <2>1, <3>4, MoveKeeps DEF GetRefreshToken, tables, history
  <2>2. CASE Finish(p)
    BY <1>5, <1>q, <2>2, FinishKeeps DEF GetRefreshToken, tables, history
  <2> QED BY <1>5, <1>q, <2>1, <2>2 DEF GetRefreshToken
<1>6. CASE GetIdentity(p)
  <2>1. CASE Finish(p)
    BY <1>6, <1>q, <2>1, FinishKeeps DEF GetIdentity, tables, history
  <2>2. CASE Goto(p, "save")
    <3> DEFINE q == [q0 EXCEPT !.pc = "save"]
    <3>1. WellFormed(q) /\ Entitled(q)
      BY <1>0, <1>q, <1>6 DEF GetIdentity, At, WellFormed, Entitled, Buying, Storing,
         Request
    <3> QED BY <1>6, <1>q, <2>2, <3>1, MoveKeeps DEF Goto, GetIdentity, tables, history
  <2> QED BY <1>6, <1>q, <2>1, <2>2 DEF GetIdentity
<1>7. CASE RevokeAuthorizationCode(p)
  <2> DEFINE q == [q0 EXCEPT !.pc = "save"]
  <2>1. WellFormed(q) /\ Entitled(q)
    BY <1>0, <1>q, <1>7 DEF RevokeAuthorizationCode, At, WellFormed, Entitled, Buying,
       Storing, Request
  <2>2. \A w \in writes' : w \in writes \/ w.op # "refresh"
    BY <1>7, <1>q DEF RevokeAuthorizationCode, Invalidate
  <2> QED BY <1>7, <1>q, <2>1, <2>2, MoveKeeps
          DEF Goto, RevokeAuthorizationCode, tables, history
<1>8. CASE RevokeRefreshToken(p)
  <2>1. \A w \in writes' : w \in writes \/ w.op # "refresh"
    <3>1. \A row : Invalidate(row.id).op # "refresh"
      BY DEF Invalidate
    <3>2. \/ \E row \in RefreshMatches(p) : writes' = writes \union {Invalidate(row.id)}
          \/ writes' = writes
      BY <1>8 DEF RevokeRefreshToken
    <3> QED BY <3>1, <3>2
  <2>2. CASE Finish(p)
    BY <1>8, <1>q, <2>1, <2>2, FinishKeeps DEF RevokeRefreshToken, tables, history
  <2>3. CASE q0.kind = "refresh" /\ Goto(p, "save")
    <3> DEFINE q == [q0 EXCEPT !.pc = "save"]
    <3>1. WellFormed(q) /\ Entitled(q)
      BY <1>0, <1>q, <1>8, <2>3 DEF RevokeRefreshToken, At, WellFormed, Entitled,
         Buying, Storing, Request
    <3> QED BY <1>8, <1>q, <2>1, <2>3, <3>1, MoveKeeps
            DEF Goto, RevokeRefreshToken, tables, history
  <2>4. CASE q0.kind # "refresh" /\ Goto(p, "revokeAccess")
    <3> DEFINE q == [q0 EXCEPT !.pc = "revokeAccess"]
    <3>1. WellFormed(q) /\ Entitled(q)
      BY <1>0, <1>q, <1>8, <2>4 DEF RevokeRefreshToken, At, WellFormed, Entitled,
         Buying, Storing, Request
    <3> QED BY <1>8, <1>q, <2>1, <2>4, <3>1, MoveKeeps
            DEF Goto, RevokeRefreshToken, tables, history
  <2>5. ASSUME NEW row \in RefreshMatches(p), NEW q,
               q = [q0 EXCEPT !.pc = "revokeAccess", !.r = row.id], Become(p, q)
        PROVE  IInv'
    <3>1. WellFormed(q) /\ Entitled(q)
      BY <1>0, <1>q, <1>8, <2>5 DEF RevokeRefreshToken, At, WellFormed, Entitled,
         Buying, Storing, Request
    <3> QED BY <1>8, <1>q, <2>1, <2>5, <3>1, MoveKeeps
            DEF RevokeRefreshToken, tables, history
  <2> QED BY <1>8, <1>q, <2>2, <2>3, <2>4, <2>5 DEF RevokeRefreshToken
<1>9. CASE RevokeAccessToken(p)
  <2>1. \A w \in writes' : w \in writes \/ w.op # "refresh"
    BY <1>9, <1>q DEF RevokeAccessToken, Invalidate
  <2> QED BY <1>9, <1>q, <2>1, FinishKeeps DEF RevokeAccessToken, tables
<1>10. CASE SaveToken(p)
  <2>1. PICK a \in Fresh(Accesses), r \in NewRefreshes(p) :
          /\ ledger' = Drawn(q0, {a, r}, FALSE)
          /\ Become(p, [q0 EXCEPT !.a = a, !.r = r,
                                  !.pc = IF "jwt" \in q0.form THEN "jwt"
                                         ELSE IF r # None THEN "storeRefresh"
                                         ELSE "storeAccess"])
    BY <1>10, <1>q DEF SaveToken
  <2>2. /\ a \in Accesses /\ ledger[a].client = None
        /\ r \in OrNone(Refreshes)
        /\ r # None => ledger[r].client = None
    BY DEF Fresh, NewRefreshes, OrNone
  <2>3. /\ q0.client \in Clients
        /\ q0.grant # None => Owns(q0.grant, q0.client, q0.user)
    BY <1>0, <1>q, <1>10 DEF SaveToken, At, WellFormed, Entitled, Buying
  <2>4. \A x \in {a, r} \intersect Ids : ledger[x].client = None
    BY <2>2, NoneAssumption DEF OrNone
  <2>5. /\ LedgerKeeps /\ Descent'
        /\ \A x \in {a, r} \intersect Ids : Owns(x, q0.client, q0.user)'
    BY <1>0, <1>q, <2>1, <2>3, <2>4, DrawnKeeps
  <2> DEFINE q == [q0 EXCEPT !.a = a, !.r = r,
                             !.pc = IF "jwt" \in q0.form THEN "jwt"
                                    ELSE IF r # None THEN "storeRefresh"
                                    ELSE "storeAccess"]
  <2>6. /\ q.pc \in {"jwt", "storeRefresh", "storeAccess"}
        /\ q.pc = "storeRefresh" => r # None
        /\ q.client = q0.client /\ q.user = q0.user /\ q.a = a /\ q.r = r
        /\ q.kind = q0.kind /\ q.grant = q0.grant
    BY <1>0, <1>q DEF Request
  <2>7. Owns(a, q0.client, q0.user)' /\ (r # None => Owns(r, q0.client, q0.user)')
    <3>1. a \in {a, r} \intersect Ids /\ (r # None => r \in {a, r} \intersect Ids)
      BY <2>2 DEF Ids, OrNone
    <3> QED BY <2>5, <3>1
  <2>8. WellFormed(q)
    <3> HIDE DEF q
    <3>1. q.kind = "revoke" => q.grant \in Ids
      BY <1>0, <2>6 DEF WellFormed
    <3> QED BY <2>2, <2>3, <2>6, <3>1 DEF WellFormed, OrNone, Storing
  <2>9. Entitled(q)'
    <3>1. ~Buying(q)
      <4> HIDE DEF q
      <4> QED BY <2>6 DEF Buying
    <3>2. /\ Owns(q.a, q.client, q.user)'
          /\ q.r # None => Owns(q.r, q.client, q.user)'
      BY <2>6, <2>7 DEF Owns
    <3> HIDE DEF q
    <3> QED BY <3>1, <3>2 DEF Entitled, Buying, Owns
  <2>10. \A w \in writes' : w \in writes \/ w.op # "refresh"
    BY <1>10, <1>q DEF SaveToken, ConsentWrites
  <2>11. \A o \in Requests : \/ req'[o] = req[o]
                             \/ WellFormed(req'[o]) /\ Entitled(req[o])'
    <3>1. req' = [req EXCEPT ![p] = q] /\ req \in [Requests -> Request]
      BY <1>0, <1>q, <2>1 DEF Become, TypeOK
    <3>2. req'[p] = q /\ \A o \in Requests \ {p} : req'[o] = req[o]
      BY <3>1
    <3>3. Entitled(req[p])'
      BY <2>9, <3>2 DEF Entitled, Buying, Owns
    <3> QED BY <2>8, <3>2, <3>3
  <2> QED BY <1>10, <1>q, <2>5, <2>10, <2>11, StepKeeps DEF SaveToken, tables
<1>11. CASE GenerateJwtToken(p)
  <2> DEFINE q == [q0 EXCEPT !.pc = "storeConsent"]
  <2>1. WellFormed(q) /\ Entitled(q)
    BY <1>0, <1>q, <1>11 DEF GenerateJwtToken, At, WellFormed, Entitled, Buying,
       Storing, Request
  <2>2. LedgerKeeps /\ Descent'
    BY <1>0, <1>q, <1>11, SameKeeps DEF GenerateJwtToken, history
  <2>3. q0.r # None => Owned(RefreshRowOf(q0))'
    BY <1>0, <1>q, <1>11 DEF GenerateJwtToken, At, Entitled, Storing, Owned, Owns,
       RefreshRowOf, history
  <2>4. \A w \in writes' : w \in writes \/ (w.op = "refresh" => Owned(w.row)')
    BY <1>11, <1>q, <2>3 DEF GenerateJwtToken, ConsentWrites, Owned, Owns
  <2>5. \A o \in Requests : \/ req'[o] = req[o]
                            \/ WellFormed(req'[o]) /\ Entitled(req[o])'
    <3>1. req' = [req EXCEPT ![p] = q] /\ req \in [Requests -> Request]
      BY <1>0, <1>q, <1>11 DEF GenerateJwtToken, Goto, Become, TypeOK
    <3>2. req'[p] = q /\ \A o \in Requests \ {p} : req'[o] = req[o]
      BY <3>1
    <3>3. Entitled(req[p])'
      BY <1>11, <1>q, <2>1, <3>2 DEF GenerateJwtToken, history, Entitled, Buying, Owns
    <3> QED BY <2>1, <3>2, <3>3
  <2> QED BY <1>11, <1>q, <2>2, <2>4, <2>5, StepKeeps DEF GenerateJwtToken, tables
<1>12. CASE StoreRefresh(p)
  <2>1. CASE Reject(p) /\ UNCHANGED refresh
    BY <1>12, <1>q, <2>1, RejectKeeps DEF StoreRefresh, history
  <2>2. CASE /\ refresh' = refresh \union {RefreshRowOf(q0)}
             /\ Goto(p, "storeAccess") /\ UNCHANGED writes
    <3> DEFINE q == [q0 EXCEPT !.pc = "storeAccess"]
    <3>1. WellFormed(q) /\ Entitled(q)
      BY <1>0, <1>q, <1>12 DEF StoreRefresh, At, WellFormed, Entitled, Buying, Storing,
         Request
    <3>2. LedgerKeeps /\ Descent' /\ Entitled(q)'
      BY <1>0, <1>q, <1>12, <3>1, SameKeeps DEF StoreRefresh, history, Entitled, Buying,
         Owns
    <3>3. Owned(RefreshRowOf(q0))'
      BY <1>0, <1>q, <1>12, NoneAssumption DEF StoreRefresh, At, WellFormed, Entitled,
         Storing, Owned, Owns, RefreshRowOf, history, Ids
    <3> QED BY <1>12, <1>q, <2>2, <3>1, <3>2, <3>3, InsertKeeps DEF StoreRefresh, Goto
  <2> QED BY <1>12, <1>q, <2>1, <2>2 DEF StoreRefresh
<1>13. CASE StoreAccess(p)
  <2>1. CASE Reject(p) /\ UNCHANGED access
    BY <1>13, <1>q, <2>1, RejectKeeps DEF StoreAccess, history
  <2>2. CASE /\ access' = access \union {AccessRowOf(q0)}
             /\ Goto(p, "storeConsent") /\ UNCHANGED writes
    <3> DEFINE q == [q0 EXCEPT !.pc = "storeConsent"]
    <3>1. WellFormed(q) /\ Entitled(q)
      BY <1>0, <1>q, <1>13 DEF StoreAccess, At, WellFormed, Entitled, Buying, Storing,
         Request
    <3>2. LedgerKeeps /\ Descent' /\ Entitled(q)'
      BY <1>0, <1>q, <1>13, <3>1, SameKeeps DEF StoreAccess, history, Entitled, Buying,
         Owns
    <3>3. Owned(AccessRowOf(q0))'
      BY <1>0, <1>q, <1>13 DEF StoreAccess, At, Entitled, Storing, Owned, Owns,
         AccessRowOf, history
    <3> QED BY <1>13, <1>q, <2>2, <3>1, <3>2, <3>3, InsertKeeps DEF StoreAccess, Goto
  <2> QED BY <1>13, <1>q, <2>1, <2>2 DEF StoreAccess
<1>14. CASE RespondToken(p)
  <2>1. LedgerKeeps /\ Descent'
    BY <1>0, <1>q, <1>14, SameKeeps, DeliveredKeeps DEF RespondToken
  <2>2. Entitled(Idle)'
    BY DEF Entitled, Idle, Buying, Storing
  <2> QED BY <1>14, <1>q, <1>i, <2>1, <2>2, InsertKeeps DEF RespondToken, Finish
<1>15. CASE IshareReadCode(p)
  <2>1. CASE Finish(p) /\ UNCHANGED <<writes, ledger>>
    BY <1>15, <1>q, <2>1, FinishKeeps DEF IshareReadCode, tables
  <2>2. ASSUME NEW row \in ValidCode(p), NEW a \in Fresh(Accesses), NEW q,
               q = [q0 EXCEPT !.pc = "ishareStore", !.a = a, !.user = row.user],
               writes' = writes \union {Invalidate(row.id)},
               Become(p, q), ledger' = Drawn(q, {a}, FALSE)
        PROVE  IInv'
    <3>1. /\ row \in codes /\ row.id = q0.grant /\ row.client = q0.client
          /\ a \in Accesses /\ ledger[a].client = None
      BY <1>q DEF ValidCode, Presented, Fresh
    <3>2. Owns(q0.grant, q0.client, row.user)
      BY <1>0, <1>q, <3>1 DEF RowsOwned, Owned
    <3>3. q0.client \in Clients
      BY <1>0, <1>q, <1>15 DEF IshareReadCode, At, WellFormed
    <3>4. /\ q.client = q0.client /\ q.grant = q0.grant /\ q.user = row.user
          /\ q.a = a /\ q.r = q0.r /\ q.pc = "ishareStore" /\ q.kind = q0.kind
      BY <1>0, <1>q, <2>2 DEF Request
    <3>5. q \in Request
      <4>1. row \in CodeRow
        BY <1>0, <3>1 DEF TypeOK
      <4> QED BY <1>0, <2>2, <3>1, <4>1 DEF CodeRow, Request, Steps, OrNone
    <3>6. /\ LedgerKeeps /\ Descent'
          /\ \A x \in {a} \intersect Ids : Owns(x, q.client, q.user)'
      BY <1>0, <1>q, <2>2, <3>1, <3>2, <3>3, <3>4, <3>5, DrawnKeeps
    <3>7. WellFormed(q)
      BY <1>0, <1>q, <3>1, <3>3, <3>4 DEF WellFormed
    <3>8. Owns(a, q.client, q.user)'
      BY <3>1, <3>6 DEF Ids
    <3>9. ~Buying(q)
      BY <3>4 DEF Buying
    <3>10. q0.pc = "ishareCode" /\ q0.r = None
      BY <1>0, <1>15, <1>q DEF IshareReadCode, At, WellFormed
    <3>11. Entitled(q)'
      BY <3>4, <3>8, <3>9, <3>10 DEF Entitled, Buying, Owns
    <3>12. \A w \in writes' : w \in writes \/ w.op # "refresh"
      BY <2>2 DEF Invalidate
    <3>13. \A o \in Requests : \/ req'[o] = req[o]
                               \/ WellFormed(req'[o]) /\ Entitled(req[o])'
      <4>1. req' = [req EXCEPT ![p] = q] /\ req \in [Requests -> Request]
        BY <1>0, <2>2 DEF Become, TypeOK
      <4>2. req'[p] = q /\ \A o \in Requests \ {p} : req'[o] = req[o]
        BY <4>1
      <4>3. Entitled(req[p])'
        BY <3>11, <4>2 DEF Entitled, Buying, Owns
      <4> QED BY <3>7, <4>2, <4>3
    <3> QED BY <1>15, <3>6, <3>12, <3>13, StepKeeps DEF IshareReadCode, tables
  <2> QED BY <1>15, <1>q, <2>1, <2>2 DEF IshareReadCode
<1>16. CASE IshareStoreToken(p)
  <2>1. CASE Die /\ UNCHANGED <<access, ledger>>
    BY <1>16, <2>1, DieKeeps DEF IshareStoreToken
  <2>2. CASE /\ access' = access \union {AccessRowOf(q0)}
             /\ ledger' = Delivered({q0.a})
             /\ Finish(p) /\ UNCHANGED writes
    <3>1. LedgerKeeps /\ Descent'
      BY <1>0, <2>2, DeliveredKeeps
    <3>2. Entitled(Idle)'
      BY DEF Entitled, Idle, Buying, Storing
    <3>3. /\ q0.a \in Ids /\ q0.client \in Clients
          /\ Owns(q0.a, q0.client, q0.user)
      BY <1>0, <1>16, <1>q DEF IshareStoreToken, At, Storing, WellFormed, Entitled,
         Ids
    <3>4. Owned(AccessRowOf(q0))'
      BY <3>1, <3>3, OwnsKept DEF Owned, Owns, AccessRowOf
    <3> QED BY <1>16, <1>i, <2>2, <3>1, <3>2, <3>4, InsertKeeps
            DEF IshareStoreToken, Finish
  <2> QED BY <1>16, <1>q, <2>1, <2>2 DEF IshareStoreToken
<1> QED BY <1>1, <1>2, <1>3, <1>4, <1>5, <1>6, <1>7, <1>8, <1>9, <1>10, <1>11,
           <1>12, <1>13, <1>14, <1>15, <1>16 DEF Handle

LEMMA ExecuteKeeps ==
  ASSUME IInv, TypeOK', NEW w \in writes,
         ExecuteInvalidate(w) \/ ExecuteRefresh(w) \/ ExecuteConsent(w)
  PROVE  IInv'
<1>0. LedgerKeeps /\ Descent' /\ ledger' = ledger
  BY SameKeeps DEF IInv, Ownership, ExecuteInvalidate, ExecuteRefresh,
                   ExecuteConsent, history
<1>1. CASE ExecuteInvalidate(w)
  <2>1. ASSUME NEW rows, rows \subseteq CodeRow \union RefreshRow \union AccessRow,
               NEW row \in Invalidated(rows, w.id)
        PROVE  \E old \in rows : row.id = old.id /\ row.client = old.client
                                                /\ row.user = old.user
    <3>1. PICK old \in rows : row = old \/ row = [old EXCEPT !.valid = FALSE]
      BY DEF Invalidated
    <3>2. [old EXCEPT !.valid = FALSE].id = old.id
          /\ [old EXCEPT !.valid = FALSE].client = old.client
          /\ [old EXCEPT !.valid = FALSE].user = old.user
      BY <2>1 DEF CodeRow, RefreshRow, AccessRow
    <3> QED BY <3>1, <3>2
  <2>2. \A row \in (codes \union refresh \union access)' :
          \E old \in codes \union refresh \union access :
             row.id = old.id /\ row.client = old.client /\ row.user = old.user
    BY <1>1, <2>1 DEF ExecuteInvalidate, IInv, TypeOK
  <2> QED BY <1>0, <1>1, <2>2, StepKeeps DEF ExecuteInvalidate
<1>2. CASE ExecuteRefresh(w)
  <2>1. CASE Die /\ UNCHANGED refresh
    BY <1>0, <1>2, <2>1, DieKeeps DEF ExecuteRefresh
  <2>2. CASE /\ refresh' = refresh \union {w.row}
             /\ writes' = writes \ {w} /\ UNCHANGED req
    <3>1. Owned(w.row)'
      BY <1>0, <1>2, WritesKept DEF IInv, Ownership, ExecuteRefresh
    <3> QED BY <1>0, <1>2, <2>2, <3>1, StepKeeps DEF ExecuteRefresh
  <2> QED BY <1>2, <2>1, <2>2 DEF ExecuteRefresh
<1>3. CASE ExecuteConsent(w)
  <2>1. CASE Die
    BY <1>0, <1>3, <2>1, DieKeeps DEF ExecuteConsent
  <2>2. CASE writes' = writes \ {w} /\ UNCHANGED req
    BY <1>0, <1>3, <2>2, StepKeeps DEF ExecuteConsent
  <2>3. CASE /\ w.by # None /\ writes' = writes \ {w}
             /\ Become(w.by, [req[w.by] EXCEPT !.failed = TRUE])
    <3>1. w.by \in Requests
      BY <1>3, <2>3 DEF ExecuteConsent, IInv, TypeOK, ConsentWrite, RefreshWrite,
         InvalidateWrite, OrNone
    <3>2. PICK q : q = [req[w.by] EXCEPT !.failed = TRUE]
      OBVIOUS
    <3>3. WellFormed(q) /\ Entitled(q)
      <4>1. /\ req[w.by] \in Request
            /\ WellFormed(req[w.by]) /\ Entitled(req[w.by])
        BY <3>1 DEF IInv, TypeOK, ReqOK, Ownership
      <4> QED BY <3>2, <4>1 DEF WellFormed, Entitled, Buying, Request
    <3> QED BY <1>0, <1>3, <2>3, <3>1, <3>2, <3>3, MoveKeeps DEF ExecuteConsent
  <2> QED BY <1>3, <2>1, <2>2, <2>3 DEF ExecuteConsent
<1> QED BY <1>1, <1>2, <1>3

LEMMA EnvironmentKeeps ==
  ASSUME IInv, TypeOK', Environment
  PROVE  IInv'
<1>1. CASE /\ codes' \subseteq codes /\ refresh' \subseteq refresh
           /\ access' \subseteq access /\ UNCHANGED <<writes, req, ledger>>
  <2>1. LedgerKeeps /\ Descent'
    BY <1>1, SameKeeps DEF IInv, Ownership
  <2> QED BY <1>1, <2>1, StepKeeps
<1>2. ASSUME NEW u \in users, DeleteUser(u) PROVE IInv'
  BY <1>1, <1>2 DEF DeleteUser, Cascade, history
<1>3. ASSUME NEW c \in clients, DeleteClient(c) PROVE IInv'
  BY <1>1, <1>3 DEF DeleteClient, Cascade, history
<1>4. ASSUME NEW pair \in consent, DeleteThirdPartyApplication(pair) PROVE IInv'
  BY <1>1, <1>4 DEF DeleteThirdPartyApplication
<1>5. CASE ProcessDies
  BY <1>5, DieKeeps DEF ProcessDies, tables, history
<1>6. ASSUME NEW p \in Requests, StatementFails(p) PROVE IInv'
  BY <1>6, DieKeeps, RejectKeeps DEF StatementFails, tables, history
<1> QED BY <1>2, <1>3, <1>4, <1>5, <1>6 DEF Environment

(***************************************************************************)
(* The theorems.                                                           *)
(***************************************************************************)
LEMMA InitKeeps == Init => IInv
<1> SUFFICES ASSUME Init PROVE IInv
  OBVIOUS
<1>1. TypeOK
  <2>1. Unused \in Entry
    BY DEF Unused, Entry, OrNone
  <2> QED BY <2>1, IdleType DEF Init, TypeOK
<1>2. \A p \in Requests : WellFormed(req[p]) /\ Entitled(req[p])
  BY IdleGood DEF Init
<1>3. RowsOwned /\ WritesOwned /\ Descent
  BY DEF Init, RowsOwned, WritesOwned, Descent, Unused
<1> QED BY <1>1, <1>2, <1>3 DEF IInv, ReqOK, Ownership

LEMMA NextKeeps == IInv /\ [Next]_vars => IInv'
<1> SUFFICES ASSUME IInv, [Next]_vars PROVE IInv'
  OBVIOUS
<1>0. TypeOK /\ ReqOK
  BY DEF IInv
<1>1. ASSUME NEW p \in Requests, Arrive(p) PROVE IInv'
  BY <1>0, <1>1, ArriveType, ArriveKeeps
<1>2. ASSUME NEW p \in Requests, Handle(p) PROVE IInv'
  BY <1>0, <1>2, HandleType, HandleKeeps
<1>3. CASE Execute
  BY <1>0, <1>3, ExecuteType, ExecuteKeeps DEF Execute
<1>4. CASE Environment
  BY <1>0, <1>4, EnvironmentType, EnvironmentKeeps
<1>5. CASE UNCHANGED vars
  BY <1>5 DEF vars, tables, history, IInv, TypeOK, ReqOK, WellFormed, Ownership,
     RowsOwned, WritesOwned, Descent, Entitled, Owned, Owns, Buying, Storing
<1> QED BY <1>1, <1>2, <1>3, <1>4, <1>5 DEF Next

\* The invariant holds in every reachable state: what the rows, the statements
\* not yet executed, the ledger and the requests in flight say of a value's
\* client and user always agrees (storeToken and _token, on every path).
THEOREM Invariance == Spec => []IInv
<1>1. QED BY InitKeeps, NextKeeps, PTL DEF Spec

\* Every table, request and statement keeps its type: no insert is ever built
\* from a field its handler has not filled in.
THEOREM TypeCorrectness == Spec => []TypeOK
<1>1. IInv => TypeOK
  BY DEF IInv
<1> QED BY <1>1, Invariance, PTL

\* A grant buys tokens for its own client and user only, whatever requests of
\* other clients, deletions, failures and restarts run in between
\* (getAuthorizationCode, getRefreshToken, saveToken, _token).
THEOREM LineageSafety == Spec => []TokenLineage
<1>1. IInv => TokenLineage
  BY DEF IInv, Ownership, RowsOwned, Descent, Owned, Owns, TokenLineage
<1> QED BY <1>1, Invariance, PTL
=============================================================================
