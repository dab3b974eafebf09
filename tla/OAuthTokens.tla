---------------------------- MODULE OAuthTokens ----------------------------
(***************************************************************************)
(* How the authorization server issues, redeems, rotates and revokes its   *)
(* OAuth credentials.  One step of a handler is what runs between two      *)
(* awaits: one database statement and the synchronous code around it.      *)
(*                                                                         *)
(* The tables are sets of rows.  A statement the code issues without       *)
(* awaiting it (row.save() in the revoke functions, the refresh token of a *)
(* JWT, the concurrent findOrCreate of storeToken) waits in "writes" until *)
(* the database executes it.                                               *)
(*                                                                         *)
(* The protocol engine (the oauth2-server package) lives outside the       *)
(* repository: the order in which it calls the model functions, and what   *)
(* it refuses, are read off the functions it is given.  Expiry is left     *)
(* out: an expired credential is one nobody presents again.                *)
(***************************************************************************)
EXTENDS Integers, FiniteSets

CONSTANTS
    Users, Clients,               \* accounts and applications
    Codes, Refreshes, Accesses,   \* the random values the server may draw
    Requests,                     \* requests in flight at a time
    None,                         \* SQL NULL, JavaScript null
    Kinds,                        \* the requests this instance receives
    TokenTypes,                   \* oauth_client.token_types of each client
    AskAuthorization,             \* config.oauth2.ask_authorization
    Deletable,                    \* accounts and applications that may be deleted
    Faults                        \* do statements fail and processes die?

Forms == {"jwt", "permanent"}
AllKinds == {"authorize", "implicit", "code", "refresh", "password",
             "client", "ishare", "revoke"}
Ids == Codes \union Refreshes \union Accesses

ASSUME NoneAssumption ==
    None \notin Users \union Clients \union Ids \union Requests
ASSUME IdsAssumption ==
    /\ Codes \intersect Refreshes = {}
    /\ Codes \intersect Accesses = {}
    /\ Refreshes \intersect Accesses = {}
ASSUME ConfigAssumption ==
    /\ TokenTypes \in [Clients -> SUBSET Forms]
    /\ AskAuthorization \in BOOLEAN
    /\ Faults \in BOOLEAN
    /\ Kinds \subseteq AllKinds
    /\ Deletable \subseteq Users \union Clients

VARIABLES
    users, clients,   \* live rows of user and oauth_client
    codes,            \* oauth_authorization_code
    refresh,          \* oauth_refresh_token
    access,           \* oauth_access_token
    jwts,             \* signed access tokens: no row holds them
    consent,          \* user_authorized_application
    writes,           \* statements issued and not awaited
    req,              \* the handler each request slot is running
    ledger,           \* history: whom each value was drawn for, and delivery
    acked,            \* history: valid tokens whose revocation was answered 200
    prompted          \* history: consent the user gave on the prompt

tables == <<users, clients, codes, refresh, access, jwts, consent>>
history == <<ledger, acked, prompted>>
vars == <<tables, writes, req, history>>

OrNone(S) == S \union {None}

(***************************************************************************)
(* Types.                                                                  *)
(***************************************************************************)
CodeRow == [id: Codes, client: Clients, user: Users, form: SUBSET Forms,
            valid: BOOLEAN]
RefreshRow == [id: Refreshes, client: Clients, user: OrNone(Users),
               code: OrNone(Codes), valid: BOOLEAN]
AccessRow == [id: Accesses, client: Clients, user: OrNone(Users),
              code: OrNone(Codes), refresh: OrNone(Refreshes), valid: BOOLEAN]
Jwt == [id: Accesses, client: Clients, user: OrNone(Users),
        refresh: OrNone(Refreshes)]
Consent == [user: Users, client: Clients]

InvalidateWrite == [op: {"invalidate"}, id: Ids]
RefreshWrite == [op: {"refresh"}, row: RefreshRow]
ConsentWrite == [op: {"consent"}, pair: Consent, by: OrNone(Requests)]

Steps == {"idle", "consentCheck", "enable", "saveCode", "grant", "revokeCode",
          "revokeRefresh", "revokeAccess", "save", "jwt", "storeRefresh",
          "storeAccess", "storeConsent", "ishareCode", "ishareStore"}
Request == [pc: Steps, kind: AllKinds, client: OrNone(Clients),
            user: OrNone(Users), grant: OrNone(Ids), form: SUBSET Forms,
            r: OrNone(Refreshes), a: OrNone(Accesses), failed: BOOLEAN]
Entry == [client: OrNone(Clients), user: OrNone(Users), from: OrNone(Ids),
          held: BOOLEAN]

Idle == [pc |-> "idle", kind |-> "authorize", client |-> None, user |-> None,
         grant |-> None, form |-> {}, r |-> None, a |-> None, failed |-> FALSE]
Unused == [client |-> None, user |-> None, from |-> None, held |-> FALSE]

TypeOK ==
    /\ users \subseteq Users
    /\ clients \subseteq Clients
    /\ codes \subseteq CodeRow
    /\ refresh \subseteq RefreshRow
    /\ access \subseteq AccessRow
    /\ jwts \subseteq Jwt
    /\ consent \subseteq Consent
    /\ writes \subseteq InvalidateWrite \union RefreshWrite \union ConsentWrite
    /\ req \in [Requests -> Request]
    /\ ledger \in [Ids -> Entry]
    /\ acked \subseteq Ids
    /\ prompted \subseteq Consent

(***************************************************************************)
(* Rows, their keys and their foreign keys.                                *)
(***************************************************************************)
IdsOf(rows) == {row.id : row \in rows}

\* (mutant) The column is set to NULL.
Nulled(rows, x) ==
    {IF row.id = x THEN [row EXCEPT !.valid = None] ELSE row : row \in rows}

Invalidated(rows, x) ==
    {IF row.id = x THEN [row EXCEPT !.valid = FALSE] ELSE row : row \in rows}

CodeFk(row, us, cs) == row.user \in us /\ row.client \in cs
RefreshFk(row, us, cs, ks) ==
    row.user \in OrNone(us) /\ row.client \in cs /\ row.code \in OrNone(IdsOf(ks))
AccessFk(row, us, cs, ks, rs) ==
    /\ row.user \in OrNone(us)
    /\ row.client \in cs
    /\ row.code \in OrNone(IdsOf(ks))
    /\ row.refresh \in OrNone(IdsOf(rs))
ConsentFk(row, us, cs) == row.user \in us /\ row.client \in cs

\* onDelete: 'cascade': a row goes with the row it refers to.
Cascade ==
    /\ codes' = {row \in codes : CodeFk(row, users', clients')}
    /\ refresh' = {row \in refresh : RefreshFk(row, users', clients', codes')}
    /\ access' = {row \in access :
                     AccessFk(row, users', clients', codes', refresh')}
    /\ consent' = {row \in consent : ConsentFk(row, users', clients')}

(***************************************************************************)
(* Values drawn and delivered.                                             *)
(***************************************************************************)
Fresh(S) == {x \in S : ledger[x].client = None}
Held(S) == {x \in S : ledger[x].held}
Drawn(q, xs, delivered) ==
    [x \in Ids |-> IF x \in xs
                   THEN [client |-> q.client, user |-> q.user,
                         from |-> q.grant, held |-> delivered]
                   ELSE ledger[x]]
Delivered(xs) ==
    [x \in Ids |-> IF x \in xs THEN [ledger[x] EXCEPT !.held = TRUE]
                               ELSE ledger[x]]

At(p, pc) == req[p].pc = pc
Become(p, q) == req' = [req EXCEPT ![p] = q]
Goto(p, pc) == Become(p, [req[p] EXCEPT !.pc = pc])
Finish(p) == Become(p, Idle)
Pair(p) == [user |-> req[p].user, client |-> req[p].client]

\* The consent insert of a request that has answered runs on, unobserved.
Orphaned(p) ==
    {IF w.op = "consent" /\ w.by = p THEN [w EXCEPT !.by = None] ELSE w :
        w \in writes}
Start(p, r) == /\ At(p, "idle")
               /\ r.kind \in Kinds
               /\ Become(p, r)

\* The process dies: its handlers stop where they are, and statements not yet
\* executed are lost (one that got through first was executed first).
Die == /\ req' = [p \in Requests |-> Idle]
       /\ writes' = {}

(***************************************************************************)
(* Requests arrive.  Room is the model's only bound: a request that draws  *)
(* values starts when enough of them are left for every request in flight. *)
(***************************************************************************)
Needs(kind) ==
    (IF kind = "authorize" THEN {Codes} ELSE {})
    \union (IF kind \in {"code", "refresh", "password"} THEN {Refreshes} ELSE {})
    \union (IF kind \in AllKinds \ {"authorize", "revoke"} THEN {Accesses} ELSE {})
Room(kind) ==
    \A S \in Needs(kind) :
        Cardinality({q \in Requests : /\ ~At(q, "idle")
                                      /\ req[q].a = None
                                      /\ S \in Needs(req[q].kind)})
            < Cardinality(Fresh(S))

\* GET or POST /oauth2/authorize by a user who holds a session, or the answer
\* to the consent prompt (POST /oauth2/enable_app).  The session is a cookie:
\* its user need not exist any more.
LoadApplication(p) ==
    \E kind \in {"authorize", "implicit"}, pc \in {"consentCheck", "enable"},
       u \in Users, c \in clients :
        \E form \in SUBSET TokenTypes[c] :
            /\ Room(kind)
            /\ Start(p, [Idle EXCEPT !.pc = pc, !.kind = kind, !.client = c,
                                     !.user = u, !.form = form])
            /\ UNCHANGED <<tables, writes, history>>

\* POST /oauth2/token, client authenticated by getClient and scope validated.
\* A refresh carries its own scope: getRefreshToken does not read the row's.
TokenRequest(p) ==
    \E c \in clients :
        /\ \/ /\ Room("code")
              /\ \E k \in Held(Codes) :
                    Start(p, [Idle EXCEPT !.pc = "grant", !.kind = "code",
                                          !.client = c, !.grant = k])
           \/ /\ Room("refresh")
              /\ \E t \in Held(Refreshes), form \in SUBSET TokenTypes[c] :
                    Start(p, [Idle EXCEPT !.pc = "grant", !.kind = "refresh",
                                          !.client = c, !.grant = t,
                                          !.form = form])
           \/ /\ Room("password")
              /\ \E u \in Users, form \in SUBSET TokenTypes[c] :
                    Start(p, [Idle EXCEPT !.pc = "grant", !.kind = "password",
                                          !.client = c, !.user = u,
                                          !.form = form])
           \/ /\ Room("client")
              /\ \E form \in SUBSET TokenTypes[c] :
                    Start(p, [Idle EXCEPT !.pc = "save", !.kind = "client",
                                          !.client = c, !.form = form])
        /\ UNCHANGED <<tables, writes, history>>

\* POST /oauth2/token with an iSHARE client assertion: its signature alone
\* authenticates the client.
IshareTokenRequest(p) ==
    \E c \in Clients, k \in Held(Codes) :
        /\ Room("ishare")
        /\ Start(p, [Idle EXCEPT !.pc = "ishareCode", !.kind = "ishare",
                                 !.client = c, !.grant = k])
        /\ UNCHANGED <<tables, writes, history>>

\* POST /oauth2/revoke
RevokeRequest(p) ==
    \E c \in clients, t \in Held(Refreshes \union Accesses) :
        /\ Start(p, [Idle EXCEPT !.pc = IF t \in Refreshes THEN "revokeRefresh"
                                                           ELSE "revokeAccess",
                                 !.kind = "revoke", !.client = c, !.grant = t])
        /\ UNCHANGED <<tables, writes, history>>

(***************************************************************************)
(* The authorization endpoint.                                             *)
(***************************************************************************)
AfterConsent(p) == IF req[p].kind = "authorize" THEN "saveCode" ELSE "save"

CheckUserAuthorizedApplication(p) ==
    /\ At(p, "consentCheck")
    /\ IF AskAuthorization /\ Pair(p) \notin consent
       THEN Finish(p)                          \* the prompt is rendered
       ELSE Goto(p, AfterConsent(p))
    /\ UNCHANGED <<tables, writes, history>>

EnableApp(p) ==
    /\ At(p, "enable")
    /\ IF ~AskAuthorization
       THEN Goto(p, AfterConsent(p)) /\ UNCHANGED <<consent, prompted>>
       ELSE IF ConsentFk(Pair(p), users, clients)
       THEN /\ consent' = consent \union {Pair(p)}
            /\ prompted' = prompted \union {Pair(p)}
            /\ Goto(p, AfterConsent(p))
       ELSE Finish(p) /\ UNCHANGED <<consent, prompted>>
    /\ UNCHANGED <<users, clients, codes, refresh, access, jwts, writes,
                   ledger, acked>>

CodeRowOf(p, k) == [id |-> k, client |-> req[p].client, user |-> req[p].user,
                    form |-> req[p].form, valid |-> TRUE]

\* The code is in the redirect that answers the request.
SaveAuthorizationCode(p) ==
    /\ At(p, "saveCode")
    /\ \E k \in Fresh(Codes) :
        IF CodeFk(CodeRowOf(p, k), users, clients)
        THEN /\ codes' = codes \union {CodeRowOf(p, k)}
             /\ ledger' = Drawn(req[p], {k}, TRUE)
        ELSE UNCHANGED <<codes, ledger>>
    /\ Finish(p)
    /\ UNCHANGED <<users, clients, refresh, access, jwts, consent, writes,
                   acked, prompted>>

(***************************************************************************)
(* The token endpoint: is the grant good?                                  *)
(***************************************************************************)
\* (mutant) The client that asks is not compared with the grant's.
PresentedByAnyone(p, rows) == {row \in rows : row.id = req[p].grant}

\* The rows the presented grant finds, if its client is the one that asks.
Presented(p, rows) ==
    {row \in rows : row.id = req[p].grant /\ row.client = req[p].client}

\* (mutant) The valid column is not looked at.
UsedCodeToo(p) == Presented(p, codes)
UsedRefreshToo(p) == Presented(p, refresh)

ValidCode(p) == {row \in Presented(p, codes) : row.valid}
ValidRefresh(p) == {row \in Presented(p, refresh) : row.valid}

\* A code that was redeemed before is refused; the engine may first revoke
\* what it bought (the model's revoke functions take a code for that).
GetAuthorizationCode(p) ==
    /\ At(p, "grant") /\ req[p].kind = "code"
    /\ \/ \E row \in ValidCode(p) :
            Become(p, [req[p] EXCEPT !.pc = "revokeCode", !.user = row.user,
                                     !.form = row.form])
       \/ ValidCode(p) = {} /\ Finish(p)
       \/ /\ ValidCode(p) = {} /\ Presented(p, codes) # {}
          /\ Goto(p, "revokeRefresh")
    /\ UNCHANGED <<tables, writes, history>>

GetRefreshToken(p) ==
    /\ At(p, "grant") /\ req[p].kind = "refresh"
    /\ \/ \E row \in ValidRefresh(p) :
            Become(p, [req[p] EXCEPT !.pc = "revokeRefresh", !.user = row.user])
       \/ ValidRefresh(p) = {} /\ Finish(p)
    /\ UNCHANGED <<tables, writes, history>>

\* (mutant) Nothing answers when the user is not found.
GetIdentityHangs(p) ==
    /\ At(p, "grant") /\ req[p].kind = "password"
    /\ req[p].user \in users /\ Goto(p, "save")
    /\ UNCHANGED <<tables, writes, history>>

GetIdentity(p) ==
    /\ At(p, "grant") /\ req[p].kind = "password"
    /\ IF req[p].user \in users THEN Goto(p, "save") ELSE Finish(p)
    /\ UNCHANGED <<tables, writes, history>>

(***************************************************************************)
(* Revocation.  Each function looks for one valid row and issues the       *)
(* update that makes it invalid, without waiting for it.                   *)
(***************************************************************************)
Invalidate(x) == [op |-> "invalidate", id |-> x]

\* (mutant) The row is changed in memory and never saved.
RevokeAuthorizationCodeUnsaved(p) ==
    /\ At(p, "revokeCode")
    /\ Goto(p, "save")
    /\ UNCHANGED <<tables, writes, history>>

RevokeAuthorizationCode(p) ==
    /\ At(p, "revokeCode")
    /\ writes' = writes \union
                    {Invalidate(row.id) :
                        row \in {k \in codes : k.id = req[p].grant /\ k.valid}}
    /\ Goto(p, "save")
    /\ UNCHANGED <<tables, history>>

RefreshMatches(p) ==
    {row \in refresh :
        /\ row.valid
        /\ row.client = req[p].client
        /\ IF req[p].grant \in Codes THEN row.code = req[p].grant
                                     ELSE row.id = req[p].grant}

\* (mutant) The refresh_token clause is missing.
AccessMatchesByValue(p) ==
    {row \in access : row.valid /\ row.client = req[p].client
                      /\ row.id = req[p].grant}

AccessMatches(p) ==
    {row \in access :
        /\ row.valid
        /\ row.client = req[p].client
        /\ IF req[p].grant \in Codes THEN row.code = req[p].grant
           ELSE IF req[p].grant \in Refreshes THEN row.refresh = req[p].grant
           ELSE row.id = req[p].grant}

\* Called by a refresh (next the new tokens, unless the engine refuses a null
\* answer) and by a revocation or a replayed code (next the access tokens).
RevokeRefreshToken(p) ==
    /\ At(p, "revokeRefresh")
    /\ \/ \E row \in RefreshMatches(p) :
            /\ writes' = writes \union {Invalidate(row.id)}
            /\ IF req[p].kind = "refresh"
               THEN Goto(p, "save")
               ELSE Become(p, [req[p] EXCEPT !.pc = "revokeAccess", !.r = row.id])
       \/ /\ RefreshMatches(p) = {}
          /\ \/ Goto(p, IF req[p].kind = "refresh" THEN "save" ELSE "revokeAccess")
             \/ Finish(p)
          /\ UNCHANGED writes
    /\ UNCHANGED <<tables, history>>

\* The last step of a revocation, answered 200 whatever it found.
RevokeAccessToken(p) ==
    /\ At(p, "revokeAccess")
    /\ \/ \E row \in AccessMatches(p) : writes' = writes \union {Invalidate(row.id)}
       \/ AccessMatches(p) = {} /\ UNCHANGED writes
    /\ acked' = IF req[p].kind = "revoke" /\ (req[p].r # None \/ AccessMatches(p) # {})
                THEN acked \union {req[p].grant}
                ELSE acked
    /\ Finish(p)
    /\ UNCHANGED <<tables, ledger, prompted>>

(***************************************************************************)
(* The token endpoint: saveToken and storeToken.                           *)
(***************************************************************************)
CodeOf(q) == IF q.grant \in Codes THEN q.grant ELSE None
RefreshRowOf(q) == [id |-> q.r, client |-> q.client, user |-> q.user,
                    code |-> CodeOf(q), valid |-> TRUE]
AccessRowOf(q) == [id |-> q.a, client |-> q.client, user |-> q.user,
                   code |-> CodeOf(q), refresh |-> q.r, valid |-> TRUE]
JwtOf(q) == [id |-> q.a, client |-> q.client, user |-> q.user, refresh |-> q.r]

\* storeToken starts its findOrCreate of the consent at once.
ConsentWrites(p) ==
    IF AskAuthorization /\ req[p].user # None
    THEN {[op |-> "consent", pair |-> Pair(p), by |-> p]}
    ELSE {}

GetsRefresh(p) == /\ req[p].kind \in {"code", "refresh", "password"}
                  /\ "permanent" \notin req[p].form

\* (mutant) A refresh keeps its refresh token instead of rotating it.
UnrotatedRefreshes(p) ==
    IF ~GetsRefresh(p) THEN {None}
    ELSE IF req[p].kind = "refresh" THEN {req[p].grant} ELSE Fresh(Refreshes)

NewRefreshes(p) == IF GetsRefresh(p) THEN Fresh(Refreshes) ELSE {None}

SaveToken(p) ==
    /\ At(p, "save")
    /\ \E a \in Fresh(Accesses), r \in NewRefreshes(p) :
        /\ ledger' = Drawn(req[p], {a, r}, FALSE)
        /\ Become(p, [req[p] EXCEPT !.a = a, !.r = r,
                                    !.pc = IF "jwt" \in req[p].form THEN "jwt"
                                           ELSE IF r # None THEN "storeRefresh"
                                           ELSE "storeAccess"])
        /\ writes' = IF "jwt" \in req[p].form THEN writes
                                              ELSE writes \union ConsentWrites(p)
    /\ UNCHANGED <<tables, acked, prompted>>

\* (mutant) With a JWT the refresh token's row is left to the caller.
GenerateJwtTokenOnly(p) ==
    /\ At(p, "jwt")
    /\ writes' = writes \union ConsentWrites(p)
    /\ Goto(p, "storeConsent")
    /\ UNCHANGED <<tables, history>>

\* The claims are read, the token is signed, and storeToken(.., jwt = true)
\* creates the refresh token and the consent, awaiting only the consent.
GenerateJwtToken(p) ==
    /\ At(p, "jwt")
    /\ writes' = writes \union ConsentWrites(p)
                    \union (IF req[p].r = None THEN {}
                            ELSE {[op |-> "refresh", row |-> RefreshRowOf(req[p])]})
    /\ Goto(p, "storeConsent")
    /\ UNCHANGED <<tables, history>>

\* (mutant) The catch swallows the error and the chain goes on.
Swallow(p) == Goto(p, "storeConsent") /\ UNCHANGED writes

\* A rejected create is caught: the engine gets no token and answers an error.
Reject(p) == Finish(p) /\ writes' = Orphaned(p)

StoreRefresh(p) ==
    /\ At(p, "storeRefresh")
    /\ IF RefreshFk(RefreshRowOf(req[p]), users, clients, codes)
       THEN /\ refresh' = refresh \union {RefreshRowOf(req[p])}
            /\ Goto(p, "storeAccess")
            /\ UNCHANGED writes
       ELSE Reject(p) /\ UNCHANGED refresh
    /\ UNCHANGED <<users, clients, codes, access, jwts, consent, history>>

StoreAccess(p) ==
    /\ At(p, "storeAccess")
    /\ IF AccessFk(AccessRowOf(req[p]), users, clients, codes, refresh)
       THEN /\ access' = access \union {AccessRowOf(req[p])}
            /\ Goto(p, "storeConsent")
            /\ UNCHANGED writes
       ELSE Reject(p) /\ UNCHANGED access
    /\ UNCHANGED <<users, clients, codes, refresh, jwts, consent, history>>

\* Both promises are settled: the tokens are answered, or the error is.
RespondToken(p) ==
    /\ At(p, "storeConsent")
    /\ \A w \in writes : w.op = "consent" => w.by # p
    /\ IF req[p].failed
       THEN UNCHANGED <<jwts, ledger>>
       ELSE /\ ledger' = Delivered({req[p].a, req[p].r})
            /\ jwts' = IF "jwt" \in req[p].form
                       THEN jwts \union {JwtOf(req[p])} ELSE jwts
    /\ Finish(p)
    /\ UNCHANGED <<users, clients, codes, refresh, access, consent, writes,
                   acked, prompted>>

(***************************************************************************)
(* The iSHARE token endpoint.                                              *)
(***************************************************************************)
IshareReadCode(p) ==
    /\ At(p, "ishareCode")
    /\ \/ \E row \in ValidCode(p), a \in Fresh(Accesses) :
            /\ writes' = writes \union {Invalidate(row.id)}
            /\ LET q == [req[p] EXCEPT !.pc = "ishareStore", !.a = a,
                                       !.user = row.user]
               IN  Become(p, q) /\ ledger' = Drawn(q, {a}, FALSE)
       \/ ValidCode(p) = {} /\ Finish(p) /\ UNCHANGED <<writes, ledger>>
    /\ UNCHANGED <<tables, acked, prompted>>

\* An error that is no OAuthError is thrown again inside the rejection handler
\* of exports.token, where nothing catches it.
IshareStoreToken(p) ==
    /\ At(p, "ishareStore")
    /\ IF AccessFk(AccessRowOf(req[p]), users, clients, codes, refresh)
       THEN /\ access' = access \union {AccessRowOf(req[p])}
            /\ ledger' = Delivered({req[p].a})
            /\ Finish(p)
            /\ UNCHANGED writes
       ELSE Die /\ UNCHANGED <<access, ledger>>
    /\ UNCHANGED <<users, clients, codes, refresh, jwts, consent, acked, prompted>>

(***************************************************************************)
(* The database executes a statement nobody awaits.  When it is refused    *)
(* the rejection is unhandled, which ends a Node process (16 and later);   *)
(* only the consent of a request that has come to await it is caught.      *)
(***************************************************************************)
ExecuteInvalidate(w) ==
    /\ w.op = "invalidate"
    /\ codes' = Invalidated(codes, w.id)
    /\ refresh' = Invalidated(refresh, w.id)
    /\ access' = Invalidated(access, w.id)
    /\ writes' = writes \ {w}
    /\ UNCHANGED <<users, clients, jwts, consent, req, history>>

\* (mutant) The insert is sent again after it was executed.
ExecuteRefreshAgain(w) ==
    /\ w.op = "refresh"
    /\ RefreshFk(w.row, users, clients, codes)
    /\ refresh' = refresh \union {w.row}
    /\ UNCHANGED <<users, clients, codes, access, jwts, consent, writes, req, history>>

ExecuteRefresh(w) ==
    /\ w.op = "refresh"
    /\ IF RefreshFk(w.row, users, clients, codes)
       THEN /\ refresh' = refresh \union {w.row}
            /\ writes' = writes \ {w}
            /\ UNCHANGED req
       ELSE Die /\ UNCHANGED refresh
    /\ UNCHANGED <<users, clients, codes, access, jwts, consent, history>>

ExecuteConsent(w) ==
    /\ w.op = "consent"
    /\ IF ConsentFk(w.pair, users, clients)
       THEN /\ consent' = consent \union {w.pair}
            /\ writes' = writes \ {w}
            /\ UNCHANGED req
       ELSE /\ IF w.by # None /\ At(w.by, "storeConsent")
               THEN /\ Become(w.by, [req[w.by] EXCEPT !.failed = TRUE])
                    /\ writes' = writes \ {w}
               ELSE Die
            /\ UNCHANGED consent
    /\ UNCHANGED <<users, clients, codes, refresh, access, jwts, history>>

(***************************************************************************)
(* What happens around the requests.                                       *)
(***************************************************************************)
DeleteUser(u) ==
    /\ users' = users \ {u}
    /\ clients' = clients
    /\ Cascade
    /\ UNCHANGED <<jwts, writes, req, history>>

DeleteClient(c) ==
    /\ clients' = clients \ {c}
    /\ users' = users
    /\ Cascade
    /\ UNCHANGED <<jwts, writes, req, history>>

\* The user withdraws the consent on the list of third party applications.
DeleteThirdPartyApplication(pair) ==
    /\ consent' = consent \ {pair}
    /\ prompted' = prompted \ {pair}
    /\ UNCHANGED <<users, clients, codes, refresh, access, jwts, writes, req,
                   ledger, acked>>

\* Any awaited statement may fail; the process may stop at any time.
StatementFails(p) ==
    /\ ~At(p, "idle")
    /\ IF req[p].kind = "ishare" THEN Die ELSE Reject(p)
    /\ UNCHANGED <<tables, history>>
ProcessDies ==
    /\ Die
    /\ UNCHANGED <<tables, history>>

(***************************************************************************)
(* The specification.                                                      *)
(***************************************************************************)
Init ==
    /\ users = Users /\ clients = Clients
    /\ codes = {} /\ refresh = {} /\ access = {} /\ jwts = {} /\ consent = {}
    /\ writes = {}
    /\ req = [p \in Requests |-> Idle]
    /\ ledger = [x \in Ids |-> Unused]
    /\ acked = {} /\ prompted = {}

Arrive(p) == \/ LoadApplication(p) \/ TokenRequest(p)
             \/ IshareTokenRequest(p) \/ RevokeRequest(p)

Handle(p) ==
    \/ CheckUserAuthorizedApplication(p) \/ EnableApp(p) \/ SaveAuthorizationCode(p)
    \/ GetAuthorizationCode(p) \/ GetRefreshToken(p) \/ GetIdentity(p)
    \/ RevokeAuthorizationCode(p) \/ RevokeRefreshToken(p) \/ RevokeAccessToken(p)
    \/ SaveToken(p) \/ GenerateJwtToken(p)
    \/ StoreRefresh(p) \/ StoreAccess(p) \/ RespondToken(p)
    \/ IshareReadCode(p) \/ IshareStoreToken(p)

Execute == \E w \in writes :
    ExecuteInvalidate(w) \/ ExecuteRefresh(w) \/ ExecuteConsent(w)

Environment ==
    \/ \E u \in users \intersect Deletable : DeleteUser(u)
    \/ \E c \in clients \intersect Deletable : DeleteClient(c)
    \/ \E pair \in consent : DeleteThirdPartyApplication(pair)
    \/ /\ Faults
       /\ ProcessDies \/ \E p \in Requests : StatementFails(p)

Next == \/ \E p \in Requests : Arrive(p) \/ Handle(p)
        \/ Execute
        \/ Environment

Spec == Init /\ [][Next]_vars

\* A handler that runs goes on (each awaited statement ends), and the database
\* executes what it was sent.  Nobody owes the server a request.
FairSpec == /\ Spec
            /\ \A p \in Requests : WF_vars(Handle(p))
            /\ WF_vars(Execute)

(***************************************************************************)
(* Safety.                                                                 *)
(***************************************************************************)
\* Every row belongs to the client and user it was drawn for, and whatever was
\* bought with a grant belongs to the grant's own client and user: a code or a
\* refresh token presented by another client buys nothing, on any path
\* (getAuthorizationCode, getRefreshToken, _token).
TokenLineage ==
    /\ \A row \in codes \union refresh \union access :
          /\ ledger[row.id].client = row.client
          /\ ledger[row.id].user = row.user
    /\ \A x \in Ids : ledger[x].from # None =>
          /\ ledger[ledger[x].from].client = ledger[x].client
          /\ ledger[ledger[x].from].user = ledger[x].user

\* A refresh token has at most one access token, ever: it is what makes the
\* single findOne of revokeAccessToken(.., refresh_token) enough.
OneAccessPerRefresh ==
    \A a, b \in access : a.refresh # None /\ a.refresh = b.refresh => a = b

\* storeToken answers only after the rows are there: a bearer token in its
\* client's hands has its row, for as long as its user and client exist,
\* whatever fails or dies in between.
DeliveredIsStored ==
    \A a \in Accesses :
        /\ ledger[a].held
        /\ \A j \in jwts : j.id # a
        /\ ledger[a].user \in OrNone(users) /\ ledger[a].client \in clients
        => a \in IdsOf(access)

\* Does the server still honour it?  (authenticate_bearer, authenticate_jwt,
\* getRefreshToken, getAuthorizationCode)
Usable(x) == \/ \E row \in codes \union refresh \union access :
                    row.id = x /\ row.valid
             \/ \E j \in jwts : j.id = x
BoughtWith(t) == {row.id : row \in {a \in access : a.refresh = t}}
                 \union {j.id : j \in {i \in jwts : i.refresh = t}}

\* A token whose revocation was answered 200 is refused once the update it
\* issued is executed, and so are the access tokens of a refresh token
\* (revoke_token, revokeRefreshToken, revokeAccessToken).
AckedRevocationHolds ==
    \A t \in acked : \A x \in {t} \union BoughtWith(t) :
        Invalidate(x) \in writes \/ ~Usable(x)

(***************************************************************************)
(* Action properties.                                                      *)
(***************************************************************************)
\* Requests that saw the grant good and have not drawn its tokens yet.
Redeeming(g) ==
    {p \in Requests : /\ req[p].grant = g
                      /\ req[p].a = None
                      /\ \/ req[p].pc \in {"revokeCode", "save"}
                         \/ req[p].pc = "revokeRefresh" /\ req[p].kind = "refresh"}
Spent(g) == /\ \E row \in codes \union refresh : row.id = g /\ ~row.valid
            /\ Redeeming(g) = {}
BoughtFrom(g) == {x \in Ids : ledger[x].from = g}

\* Once a code or refresh token is invalid in the database and no request that
\* read it valid is still in flight, no request gets past its check again and
\* it never buys another token, through either token endpoint, although every
\* invalidation is sent and not awaited.
SpentBuysNothing ==
    [][\A g \in Codes \union Refreshes :
          Spent(g) => Redeeming(g)' = {} /\ BoughtFrom(g)' = BoughtFrom(g)]_vars

(***************************************************************************)
(* What the tables, the requests and the pending statements amount to.     *)
(***************************************************************************)
\* Drawn by a request, or sent in an insert, that has still to store it.
OnItsWay(x) ==
    \/ \E p \in Requests :
          \/ req[p].r = x /\ req[p].pc \in {"jwt", "storeRefresh"}
          \/ /\ req[p].a = x
             /\ \/ req[p].pc \in {"jwt", "storeRefresh", "storeAccess", "ishareStore"}
                \/ req[p].pc = "storeConsent" /\ "jwt" \in req[p].form
    \/ \E w \in writes : w.op = "refresh" /\ w.row.id = x
Stage(x) == IF ledger[x].client = None THEN "unused"
            ELSE IF Usable(x) THEN "live"
            ELSE IF OnItsWay(x) THEN "drawn"
            ELSE "dead"
OwnerOf(x) == IF ledger[x].client = None THEN None
              ELSE <<ledger[x].client, ledger[x].user>>

Lifecycle == INSTANCE CredentialLifecycle WITH
    Owners <- Clients \X OrNone(Users),
    stage <- [x \in Ids |-> Stage(x)],
    owner <- [x \in Ids |-> OwnerOf(x)],
    source <- [x \in Ids |-> ledger[x].from],
    held <- Held(Ids)

\* The server implements the life cycle of a credential: a value is drawn once,
\* for the owner of the grant that buys it, and a credential that was revoked,
\* deleted or lost is not honoured again, although rows are inserted by
\* statements nobody awaits (storeToken, the revoke functions, the cascades).
ImplementsLifecycle == Lifecycle!Spec

(***************************************************************************)
(* Liveness.                                                               *)
(***************************************************************************)
\* Every request is answered, whatever is deleted or refused while it runs.
RequestsAreAnswered == \A p \in Requests : ~At(p, "idle") ~> At(p, "idle")

\* A code that bought a delivered token becomes unusable, although nobody waits
\* for the update that says so (revokeAuthorizationCode, _token).
RedeemedCodeDies ==
    \A k \in Codes :
        (\E x \in Ids : ledger[x].held /\ ledger[x].from = k) ~> ~Usable(k)

\* The refresh token that comes with a JWT is handed over before its row is
\* inserted (generateJwtToken does not await storeToken's create): the row comes
\* in the end, or its user or application is gone.
HandedRefreshIsStored ==
    \A t \in Refreshes :
        ledger[t].held ~> \/ t \in IdsOf(refresh)
                         \/ ledger[t].user \notin users
                         \/ ledger[t].client \notin clients

(***************************************************************************)
(* What a comment, a document or a test says, and the code does not do.    *)
(***************************************************************************)
\* "Authorization code validated, marking it as invalid so it cannot be used
\* anymore": a code buys at most one iSHARE token (extparticipant.js _token).
CodeBuysOnce == \A k \in Codes : Cardinality(BoughtFrom(k)) <= 1

\* "Prompt a message to users to allow the application to read their details":
\* an application reads only what a user allowed on the prompt and has not
\* withdrawn since (enable_app, storeToken, delete_third_party_application).
ConsentWasPrompted == consent \subseteq prompted

=============================================================================
