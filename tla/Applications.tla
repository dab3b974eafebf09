---------------------------- MODULE Applications ----------------------------
(***************************************************************************)
(* Applications and what hangs on them: their provider, their token types  *)
(* and JWT secret, their image on disk, their PEP proxies and IoT agents,  *)
(* the applications they trust, and the API tokens of users and proxies.   *)
(* A step of a handler is what runs between two awaits; a handler works on *)
(* the application as it was loaded when the request came.                 *)
(*                                                                         *)
(* Who may send these requests is the subject of AppAuthorization; names,  *)
(* addresses, grant types and certificates are left out.                   *)
(***************************************************************************)
EXTENDS Integers, FiniteSets, Keys

CONSTANTS
    Admins,         \* accounts whose administrator flag is set
    Participants,   \* applications that external participants appear as
    Creatable,      \* applications that may be created
    Images,         \* names drawn for uploaded images
    Secrets,        \* drawn for JWT secrets and for machines' passwords
    Machines,       \* keys of PEP proxies and IoT agents
    Tokens,         \* API tokens
    Requests,       \* requests in flight at a time
    Groups,         \* the sets of request kinds that are explored together
    Starts          \* what each group of requests starts from

ASSUME AppsAssumption == Participants \union Creatable \subseteq Apps /\ Admins \subseteq Users
\* Keys are UUIDs, images' names end in .jpg.
ASSUME FreshAssumption ==
    /\ None \notin Users \union Apps \union Images \union Secrets \union Machines \union Tokens
    /\ Users \intersect Machines = {}
    /\ "organization" \notin Users
    /\ Images \intersect {"default", "party", "logo"} = {}
    /\ IsFiniteSet(Requests)

VARIABLES
    users,      \* live rows of user
    owners,     \* owners of the organization that may be an application's provider
    app,        \* oauth_client: token types, JWT secret and image of each row
    provided,   \* applications whose provider is assigned, and to whom
    files,      \* public/img
    machine,    \* pep_proxy and iot
    trusts,     \* trusted_application
    token,      \* auth_token: the owner of each
    req,        \* the handler each request slot is running
    group,      \* the kinds of requests this behaviour sees
    proof,      \* history: whose credentials each API token was bought with
    excused,    \* history: applications whose provider's account went, or whose
                \* creation or image change was cut off by the end of the process
    stale,      \* history: applications written from a copy that was outdated
    raced       \* history: applications to which two requests added a proxy at a time

creation == <<users, owners, provided>>
machinery == <<machine, token>>
applicationVars == <<creation, app, files, machinery, trusts, req, group,
                     proof, excused, stale, raced>>

AppRow == [jwt: BOOLEAN, secret: Secrets \union {None},
           image: Images \union {"default", "party"}]
Machine == [app: Apps, kind: {"pep", "iot"}, password: Secrets]
Provider == Users \union {"organization"}
ASSUME RowAssumption == None \notin AppRow

\* A behaviour starts from tables the handlers can have left.
SoundStart(s) ==
    LET live == DOMAIN s.app   machines == DOMAIN s.machine IN
    /\ live \subseteq Apps /\ s.app \in [live -> AppRow]
    /\ \A a \in live : s.app[a].jwt => s.app[a].secret # None
    /\ s.files \subseteq Images \union {"logo"}
    /\ \A a \in live : s.app[a].image \in s.files \union {"default", "party"}
    /\ \A a, b \in live : s.app[a].image = s.app[b].image /\ s.app[a].image \in Images => a = b
    /\ s.provided \subseteq live \X Provider
    /\ \A a \in live \ Participants : \E w \in s.provided : w[1] = a
    /\ s.owners \subseteq Users
    /\ machines \subseteq Machines /\ s.machine \in [machines -> Machine]
    /\ \A m \in machines : s.machine[m].app \in live
    /\ \A m, n \in machines : /\ s.machine[m].app = s.machine[n].app
                              /\ s.machine[m].kind = "pep" /\ s.machine[n].kind = "pep"
                              => m = n
    /\ DOMAIN s.token \subseteq Tokens
    /\ s.token \in [DOMAIN s.token ->
                       Users \union {m \in machines : s.machine[m].kind = "pep"}]
ASSUME StartsAssumption == \A g \in Groups : \A s \in Starts[g] : SoundStart(s)

Quiet == [pc |-> "idle", kind |-> "none", who |-> None, app |-> None, copy |-> None,
          row |-> "none", choice |-> "none", valid |-> TRUE, file |-> None,
          machine |-> None, secret |-> None, list |-> {}, todo |-> {}, by |-> None,
          with |-> None, token |-> None, proofs |-> {}]

Live == DOMAIN app
Holders == users \union {m \in DOMAIN machine : machine[m].kind = "pep"}

ApplicationsTypeOK ==
    /\ users \subseteq Users /\ owners \subseteq users
    /\ Live \subseteq Apps /\ \A a \in Live : app[a] \in AppRow
    /\ provided \subseteq Live \X (users \union {"organization"})
    /\ files \subseteq Images \union {"logo"}
    /\ \A m \in DOMAIN machine : machine[m] \in Machine /\ machine[m].app \in Live
    /\ trusts \subseteq Live \X Live
    /\ \A t \in DOMAIN token : t \in Tokens /\ token[t] \in Holders
    /\ DOMAIN proof = DOMAIN token
    /\ excused \union stale \union raced \subseteq Apps

(***************************************************************************)
(* Requests.                                                               *)
(***************************************************************************)
At(p, pc) == req[p].pc = pc
Become(p, q) == req' = [req EXCEPT ![p] = q]
Goto(p, pc) == Become(p, [req[p] EXCEPT !.pc = pc])
Finish(p) == Become(p, Quiet)
Start(p, kind, q) == /\ At(p, "idle")
                     /\ kind \in group
                     /\ Become(p, [q EXCEPT !.kind = kind, !.pc = IF q.pc = "idle" THEN kind
                                                                  ELSE q.pc])

\* A rejection that nobody handles ends the process, and every request with it.
Lost == [p \in Requests |-> IF At(p, "idle") THEN Quiet ELSE [Quiet EXCEPT !.pc = "lost"]]
Die == req' = Lost
Restart(p) == At(p, "lost") /\ Finish(p)

Held(field) == {req[p][field] : p \in Requests}
FreshSecret(old) == Secrets \ {old}
Loaded(a) == [Quiet EXCEPT !.app = a, !.copy = app[a]]

(***************************************************************************)
(* Rows go with the rows they refer to.                                    *)
(***************************************************************************)
Bought(t) == [x \in t |-> token[x]]
TokensOf(us, ms) == Bought({t \in DOMAIN token : token[t] \in us \union DOMAIN ms})
MachinesIn(as) == [m \in {n \in DOMAIN machine : machine[n].app \in as} |-> machine[m]]

Destroy(a) ==
    /\ app' = [x \in Live \ {a} |-> app[x]]
    /\ provided' = {w \in provided : w[1] # a}
    /\ trusts' = {r \in trusts : a \notin {r[1], r[2]}}
    /\ machine' = MachinesIn(Live \ {a})
    /\ token' = TokensOf(users, MachinesIn(Live \ {a}))

DeleteAccount ==
    /\ "deleteAccount" \in group
    /\ \E u \in users :
        /\ users' = users \ {u}
        /\ owners' = owners \ {u}
        /\ provided' = {w \in provided : w[2] # u}
        /\ token' = TokensOf(users \ {u}, machine)
    /\ UNCHANGED <<app, files, machine, trusts, req>>

\* Members of the organization are replaced (module Organizations).
LoseOrganization ==
    /\ "loseOrganization" \in group
    /\ \E u \in owners : owners' = owners \ {u}
    /\ UNCHANGED <<users, app, provided, files, machinery, trusts, req>>

(***************************************************************************)
(* Creation.  The form's user comes from a cookie and may be gone.  When   *)
(* the provider is an organization, its assignment is made beside the      *)
(* application's row, not after it: a rejection is only handled once the   *)
(* row is saved.                                                           *)
(***************************************************************************)
NewApps == Creatable \ (Live \union Held("app"))
Untouched == UNCHANGED <<users, owners, files, machinery, trusts>>

WebCreate(p) ==
    /\ \E u \in Users, a \in NewApps, org, openid, valid \in BOOLEAN :
        Start(p, "webCreate",
              [Quiet EXCEPT !.pc = "save", !.who = u, !.app = a, !.valid = valid,
                            !.row = IF org THEN "find" ELSE "none",
                            !.choice = IF openid THEN "openid" ELSE "none"])
    /\ UNCHANGED <<app, provided>> /\ Untouched

ApiCreate(p) ==
    /\ \E u \in users, a \in NewApps, jwt \in BOOLEAN :
        Start(p, "apiCreate",
              [Quiet EXCEPT !.pc = "save", !.who = u, !.app = a,
                            !.choice = IF jwt THEN "jwt" ELSE "none"])
    /\ UNCHANGED <<app, provided>> /\ Untouched

\* The form's list of columns leaves the token types out.
NewRow(choice, secret) ==
    [jwt |-> choice = "jwt", secret |-> IF choice = "none" THEN None ELSE secret,
     image |-> "default"]

SaveApplication(p) ==
    /\ At(p, "save")
    /\ \/ /\ req[p].valid
          /\ \E s \in FreshSecret(None) :
                app' = [x \in Live \union {req[p].app} |->
                          IF x = req[p].app THEN NewRow(req[p].choice, s) ELSE app[x]]
          /\ Goto(p, "inserted")
       \/ /\ ~req[p].valid
          /\ IF req[p].row = "none" THEN Finish(p) ELSE Goto(p, "abandoned")
          /\ UNCHANGED app
    /\ UNCHANGED provided /\ Untouched

SaveResolves(p) ==
    /\ At(p, "inserted") /\ Goto(p, "assign")
    /\ UNCHANGED <<app, provided>> /\ Untouched

NoOrganization(p) ==
    IF At(p, "assign") THEN Become(p, [req[p] EXCEPT !.pc = "undo", !.row = "none"]) ELSE Die

FindProvider(p) ==
    /\ req[p].row = "find"
    /\ IF req[p].who \in owners THEN Become(p, [req[p] EXCEPT !.row = "create"])
       ELSE NoOrganization(p)
    /\ UNCHANGED <<app, provided>> /\ Untouched

CreateProviderRow(p) ==
    /\ req[p].row = "create"
    /\ \/ /\ req[p].app \in Live
          /\ provided' = provided \union {<<req[p].app, "organization">>}
          /\ Become(p, [req[p] EXCEPT !.row = "made"])
       \/ /\ req[p].app \notin Live
          /\ NoOrganization(p)
          /\ UNCHANGED provided
    /\ UNCHANGED app /\ Untouched

\* The form's catch expects a validation error: it fails on a refused row.
AssignProvider(p) ==
    /\ At(p, "assign") /\ req[p].row \in {"none", "made"}
    /\ \/ /\ req[p].row = "made" /\ Finish(p)
          /\ UNCHANGED provided
       \/ /\ req[p].row = "none" /\ req[p].who \in users /\ req[p].app \in Live
          /\ provided' = provided \union {<<req[p].app, req[p].who>>}
          /\ Finish(p)
       \/ /\ req[p].row = "none" /\ (req[p].who \notin users \/ req[p].app \notin Live)
          /\ IF req[p].kind = "webCreate" THEN Die ELSE Finish(p)
          /\ UNCHANGED provided
    /\ UNCHANGED app /\ Untouched

\* (mutant) The form is shown again, and the row stays.
KeepRow(p) ==
    /\ At(p, "undo") /\ Finish(p)
    /\ UNCHANGED <<app, provided>> /\ Untouched

UndoCreation(p) ==
    /\ At(p, "undo")
    /\ Destroy(req[p].app)
    /\ Finish(p)
    /\ UNCHANGED <<users, owners, files>>

(***************************************************************************)
(* Requests about an application begin with the row as it is now.  One     *)
(* that its handler refuses before it has written anything is left out.    *)
(***************************************************************************)
ApplicationKinds == {"updateInfo", "changeTypes", "resetSecret", "apiUpdate", "apiRetype",
                     "deleteAvatar", "webDestroy", "apiDestroy"}
ApplicationRequest(p) ==
    /\ \E a \in Live, kind \in ApplicationKinds, choice \in {"none", "bearer", "jwt"},
          valid \in BOOLEAN :
        /\ choice = "none" <=> kind \notin {"changeTypes", "apiRetype", "updateInfo"}
        /\ kind # "apiUpdate" => valid
        /\ Start(p, kind, [Loaded(a) EXCEPT !.choice = choice, !.valid = valid])
    /\ UNCHANGED <<app, provided>> /\ Untouched

Write(a, row) == app' = IF a \in Live THEN [app EXCEPT ![a] = row] ELSE app
Now(p) == IF req[p].app \in Live THEN app[req[p].app] ELSE req[p].copy

\* update_info writes the secret it has loaded, or a new one if OpenID is asked for
\* ("jwt" stands for that) and there was none.
UpdateInfo(p) ==
    /\ At(p, "updateInfo")
    /\ \E s \in FreshSecret(req[p].copy.secret) :
        Write(req[p].app, [Now(p) EXCEPT
            !.secret = IF req[p].choice = "jwt" /\ req[p].copy.secret = None THEN s
                       ELSE req[p].copy.secret])
    /\ Finish(p)
    /\ UNCHANGED provided /\ Untouched

\* (mutant) The secret is left as it is.
ChangeTypesOnly(p) ==
    /\ At(p, "changeTypes")
    /\ Write(req[p].app, [Now(p) EXCEPT !.jwt = req[p].choice = "jwt"])
    /\ Finish(p)
    /\ UNCHANGED provided /\ Untouched

ChangeTokenType(p) ==
    /\ At(p, "changeTypes")
    /\ \E s \in FreshSecret(Now(p).secret) :
        Write(req[p].app, [Now(p) EXCEPT
            !.jwt = req[p].choice = "jwt",
            !.secret = IF req[p].choice = "jwt" THEN s ELSE None])
    /\ Finish(p)
    /\ UNCHANGED provided /\ Untouched

ResetJwtSecret(p) ==
    /\ At(p, "resetSecret")
    /\ IF req[p].copy.jwt
       THEN \E s \in FreshSecret(Now(p).secret) : Write(req[p].app, [Now(p) EXCEPT !.secret = s])
       ELSE UNCHANGED app
    /\ Finish(p)
    /\ UNCHANGED provided /\ Untouched

\* The API answers while save() is on its way: the columns that differ from the copy,
\* the image among them (token types other than jwt may be the same or not).  A name of
\* blanks is found invalid only now, and nobody handles the rejection.  "apiRetype" is
\* the update whose body names token types.
Update(p) ==
    /\ At(p, "apiUpdate") \/ At(p, "apiRetype")
    /\ Goto(p, "flush")
    /\ UNCHANGED <<app, provided>> /\ Untouched

FlushUpdate(p) ==
    /\ At(p, "flush")
    /\ LET copy == req[p].copy   jwt == req[p].choice = "jwt" IN
       \/ /\ req[p].valid
          /\ \E s \in FreshSecret(copy.secret), same \in BOOLEAN :
              Write(req[p].app,
                [jwt |-> IF req[p].choice = "none" \/ (jwt = copy.jwt /\ same)
                         THEN Now(p).jwt ELSE jwt,
                 secret |-> IF req[p].choice = "none" THEN Now(p).secret
                            ELSE IF jwt THEN s
                            ELSE IF copy.secret = None THEN Now(p).secret ELSE None,
                 image |-> IF copy.image = "default" THEN Now(p).image ELSE "default"])
          /\ Finish(p)
       \/ ~req[p].valid /\ Die /\ UNCHANGED app
    /\ UNCHANGED provided /\ Untouched

(***************************************************************************)
(* Images.  The upload is on disk, under a new name, before the handler    *)
(* runs; the row takes it; what the row held when it was loaded is then    *)
(* unlinked.                                                               *)
(***************************************************************************)
Elsewhere == UNCHANGED <<creation, machinery, trusts>>
FileOf(image) == IF image = "default" THEN "logo" ELSE image

\* Names are never drawn twice: one that a row or a handler still holds is not reused.
FreshImages == Images \ (files \union Held("file") \union {app[a].image : a \in Live}
                              \union {req[p].copy.image : p \in {q \in Requests : req[q].copy # None}})

Upload(p) ==
    /\ \E a \in Live, f \in FreshImages :
        /\ Start(p, "upload", [Loaded(a) EXCEPT !.pc = "check", !.file = f])
        /\ files' = files \union {f}
    /\ UNCHANGED app /\ Elsewhere

CheckImage(p) ==
    /\ At(p, "check")
    /\ Goto(p, "setImage") \/ Goto(p, "unlinkNew")
    /\ UNCHANGED <<app, files>> /\ Elsewhere

SetImage(p) ==
    /\ At(p, "setImage")
    /\ Write(req[p].app, [Now(p) EXCEPT !.image = req[p].file])
    /\ IF req[p].app \notin Live THEN Goto(p, "unlinkNew")
       ELSE IF req[p].copy.image = "default" THEN Finish(p)
       ELSE Goto(p, "unlinkOld")
    /\ UNCHANGED files /\ Elsewhere

\* (mutant) What the row holds is unlinked, not what it held.
UnlinkCurrent(p) ==
    /\ \/ At(p, "unlinkOld") /\ files' = files \ {Now(p).image}
       \/ At(p, "unlinkNew") /\ files' = files \ {req[p].file}
    /\ Finish(p)
    /\ UNCHANGED app /\ Elsewhere

DeleteImage(p) ==
    /\ \/ At(p, "unlinkOld") /\ files' = files \ {req[p].copy.image}
       \/ At(p, "unlinkNew") /\ files' = files \ {req[p].file}
    /\ Finish(p)
    /\ UNCHANGED app /\ Elsewhere

\* An application without image shows the logo, and that is what is unlinked.
DeleteAvatar(p) ==
    /\ At(p, "deleteAvatar")
    /\ files' = files \ {FileOf(req[p].copy.image)}
    /\ IF FileOf(req[p].copy.image) \in files THEN Goto(p, "clearImage") ELSE Finish(p)
    /\ UNCHANGED app /\ Elsewhere

ClearImage(p) ==
    /\ At(p, "clearImage")
    /\ Write(req[p].app, [Now(p) EXCEPT !.image = "default"])
    /\ Finish(p)
    /\ UNCHANGED files /\ Elsewhere

WebDestroy(p) ==
    /\ At(p, "webDestroy")
    /\ Destroy(req[p].app)
    /\ Goto(p, "unlinkOfApplication")
    /\ UNCHANGED <<users, owners, files>>
UnlinkOfApplication(p) ==
    /\ At(p, "unlinkOfApplication")
    /\ files' = files \ {req[p].copy.image}
    /\ Finish(p)
    /\ UNCHANGED app /\ Elsewhere
ApiDestroy(p) ==
    /\ At(p, "apiDestroy")
    /\ Destroy(req[p].app)
    /\ Finish(p)
    /\ UNCHANGED <<users, owners, files>>

(***************************************************************************)
(* PEP proxies, one for an application, and IoT agents.                    *)
(***************************************************************************)
MachinesOf(a, kind) == {m \in DOMAIN machine : machine[m].app = a /\ machine[m].kind = kind}
Beside == UNCHANGED <<creation, app, files, trusts>>

AddKinds == {"registerPep", "createPep", "registerIot", "createIot"}
WebMachineKinds == {"resetPep", "resetIot", "deletePep", "deleteIot"}
ApiMachineKinds == {"updatePep", "updateIot", "destroyPep", "destroyIot"}
Pep(kind) == IF kind \in {"resetPep", "deletePep", "updatePep", "destroyPep"} THEN "pep" ELSE "iot"

\* The browser names the proxy or agent; the API looks the row up.
MachineRequest(p) ==
    /\ \/ \E a \in Live, kind \in AddKinds : Start(p, kind, Loaded(a))
       \/ \E a \in Live, m \in Machines, kind \in WebMachineKinds :
            Start(p, kind, [Loaded(a) EXCEPT !.machine = m])
       \/ \E a \in Live, kind \in ApiMachineKinds : \E m \in MachinesOf(a, Pep(kind)) :
            Start(p, kind, [Loaded(a) EXCEPT !.machine = m])
    /\ UNCHANGED machinery /\ Beside

\* (mutant) The proxy there is is not looked for.
RegisterPepBlindly(p) ==
    /\ At(p, "registerPep") /\ Goto(p, "savePep")
    /\ UNCHANGED machinery /\ Beside

\* With a proxy there already the browser is answered twice, and then a third time by
\* the catch that is to handle the second.
RegisterPep(p) ==
    /\ At(p, "registerPep")
    /\ IF MachinesOf(req[p].app, "pep") # {} THEN Die ELSE Goto(p, "savePep")
    /\ UNCHANGED machinery /\ Beside
CreatePep(p) ==
    /\ At(p, "createPep")
    /\ IF MachinesOf(req[p].app, "pep") # {} THEN Finish(p) ELSE Goto(p, "savePep")
    /\ UNCHANGED machinery /\ Beside

Add(p, kind) ==
    /\ \/ /\ req[p].app \in Live
          /\ \E m \in Machines \ (DOMAIN machine \union Held("machine")), s \in Secrets :
              machine' = [x \in DOMAIN machine \union {m} |->
                            IF x = m THEN [app |-> req[p].app, kind |-> kind, password |-> s]
                            ELSE machine[x]]
       \/ req[p].app \notin Live /\ UNCHANGED machine
    /\ Finish(p)
    /\ UNCHANGED token /\ Beside
SavePep(p) == At(p, "savePep") /\ Add(p, "pep")
RegisterIot(p) == At(p, "registerIot") /\ Add(p, "iot")
CreateIot(p) == At(p, "createIot") /\ Add(p, "iot")

ResetPassword(p) ==
    LET m == req[p].machine IN
    /\ IF m \in DOMAIN machine /\ machine[m].app = req[p].app
       THEN \E s \in FreshSecret(machine[m].password) :
              machine' = [machine EXCEPT ![m].password = s]
       ELSE UNCHANGED machine
    /\ Finish(p)
    /\ UNCHANGED token /\ Beside
ResetPasswordPep(p) == At(p, "resetPep") /\ ResetPassword(p)
ResetPasswordIot(p) == At(p, "resetIot") /\ ResetPassword(p)
UpdatePep(p) == At(p, "updatePep") /\ ResetPassword(p)
UpdateIot(p) == At(p, "updateIot") /\ ResetPassword(p)

\* (mutant) The tokens of the machine stay behind.
RemoveAlone(p) ==
    /\ machine' = [m \in DOMAIN machine \ {req[p].machine} |-> machine[m]]
    /\ UNCHANGED token
    /\ Finish(p)
    /\ Beside

Remove(p) ==
    LET rest == {m \in DOMAIN machine : m # req[p].machine \/ machine[m].app # req[p].app} IN
    /\ machine' = [m \in rest |-> machine[m]]
    /\ token' = TokensOf(users, machine')
    /\ Finish(p)
    /\ Beside
DeletePep(p) == At(p, "deletePep") /\ Remove(p)
DeleteIot(p) == At(p, "deleteIot") /\ Remove(p)
DestroyPep(p) == At(p, "destroyPep") /\ Remove(p)
DestroyIot(p) == At(p, "destroyIot") /\ Remove(p)

(***************************************************************************)
(* API tokens are bought with a name and password, with another token, or  *)
(* with both; the two are looked up side by side.  What a password of a    *)
(* user is, and whether the account is enabled, is left to Accounts: the   *)
(* user's password is right here, or the request is refused.               *)
(***************************************************************************)
Aside == UNCHANGED <<creation, app, files, machine, trusts>>

CreateTokenRequest(p) ==
    /\ \E methods \in {{"password"}, {"token"}, {"password", "token"}},
          name \in users \union DOMAIN machine, s \in Secrets, t \in DOMAIN token :
        /\ "token" \notin methods => t = CHOOSE x \in DOMAIN token : TRUE
        /\ "password" \notin methods => name = CHOOSE x \in users \union DOMAIN machine : TRUE
        /\ "password" \notin methods \/ name \in users => s = CHOOSE x \in Secrets : TRUE
        /\ Start(p, "createToken",
                 [Quiet EXCEPT !.todo = methods, !.who = name, !.secret = s, !.token = t,
                               !.proofs = IF "token" \in methods THEN proof[t] ELSE {}])
    /\ UNCHANGED token /\ Aside

SearchIdentity(p) ==
    /\ At(p, "createToken") /\ "password" \in req[p].todo
    /\ LET who == req[p].who IN
       \/ /\ \/ who \in users
             \/ /\ who \in Holders \intersect DOMAIN machine
                /\ machine[who].password = req[p].secret
          /\ Become(p, [req[p] EXCEPT !.todo = @ \ {"password"}, !.by = who,
                                      !.proofs = @ \union {who}])
       \/ Finish(p)
    /\ UNCHANGED token /\ Aside

SearchTokenOwner(p) ==
    /\ At(p, "createToken") /\ "token" \in req[p].todo
    /\ \/ /\ req[p].token \in DOMAIN token
          /\ Become(p, [req[p] EXCEPT !.todo = @ \ {"token"}, !.with = token[req[p].token]])
       \/ Finish(p)
    /\ UNCHANGED token /\ Aside

\* (mutant) The two are not compared.
CreateTokenForFirst(p) ==
    /\ At(p, "createToken") /\ req[p].todo = {}
    /\ LET owner == IF req[p].by # None THEN req[p].by ELSE req[p].with IN
       \/ /\ owner \in Holders
          /\ \E t \in Tokens \ (DOMAIN token \union Held("token")) :
                token' = [x \in DOMAIN token \union {t} |-> IF x = t THEN owner ELSE token[x]]
          /\ Finish(p)
       \/ owner \notin Holders /\ Finish(p) /\ UNCHANGED token
    /\ Aside

CreateToken(p) ==
    /\ At(p, "createToken") /\ req[p].todo = {}
    /\ LET owner == IF req[p].by # None THEN req[p].by ELSE req[p].with
           agree == None \in {req[p].by, req[p].with} \/ req[p].by = req[p].with IN
       \/ /\ agree /\ owner \in Holders
          /\ \E t \in Tokens \ (DOMAIN token \union Held("token")) :
                token' = [x \in DOMAIN token \union {t} |-> IF x = t THEN owner ELSE token[x]]
          /\ Finish(p)
       \/ ~(agree /\ owner \in Holders) /\ Finish(p) /\ UNCHANGED token
    /\ Aside

\* delete_token reads the token it is authorized with and the one it is about, then
\* destroys the latter.
DeleteTokenRequest(p) ==
    /\ \E t, subject \in DOMAIN token :
        /\ \/ token[t] = token[subject]
           \/ token[t] \in Admins /\ token[subject] \in Users
        /\ Start(p, "deleteToken", [Quiet EXCEPT !.token = subject])
    /\ UNCHANGED token /\ Aside
DeleteToken(p) ==
    /\ At(p, "deleteToken")
    /\ token' = Bought(DOMAIN token \ {req[p].token})
    /\ Finish(p)
    /\ Aside

(***************************************************************************)
(* Trusted applications: the form replaces the list by a destroy and a     *)
(* bulkCreate, the API adds and removes one.                               *)
(***************************************************************************)
Apart == UNCHANGED <<creation, app, files, machinery>>

TrustRequest(p) ==
    /\ \E a \in Live :
        \/ \E list \in SUBSET Apps : Start(p, "setTrusted", [Loaded(a) EXCEPT !.list = list])
        \/ \E b \in Live, kind \in {"addTrusted", "removeTrusted"} :
              Start(p, kind, [Loaded(a) EXCEPT !.list = {b}])
    /\ UNCHANGED trusts /\ Apart

Pairs(p) == {req[p].app} \X (req[p].list \ {req[p].app})

DestroyTrusts(p) ==
    /\ At(p, "setTrusted")
    /\ trusts' = {r \in trusts : r[1] # req[p].app}
    /\ Goto(p, "bulkTrusts")
    /\ Apart

\* One INSERT: it is refused as a whole.
BulkCreateTrusts(p) ==
    /\ At(p, "bulkTrusts")
    /\ trusts' = trusts \union (IF Pairs(p) \subseteq Live \X Live THEN Pairs(p) ELSE {})
    /\ Finish(p)
    /\ Apart

AddTrusted(p) ==
    /\ At(p, "addTrusted")
    /\ trusts' = trusts \union (Pairs(p) \intersect (Live \X Live))
    /\ Finish(p)
    /\ Apart
RemoveTrusted(p) ==
    /\ At(p, "removeTrusted")
    /\ trusts' = trusts \ Pairs(p)
    /\ Finish(p)
    /\ Apart

(***************************************************************************)
(* Behaviours.                                                             *)
(***************************************************************************)
Creating(p) == \/ WebCreate(p) \/ ApiCreate(p) \/ SaveApplication(p) \/ SaveResolves(p)
               \/ FindProvider(p) \/ CreateProviderRow(p) \/ AssignProvider(p)
               \/ UndoCreation(p)
Updating(p) == \/ ApplicationRequest(p) \/ UpdateInfo(p) \/ ChangeTokenType(p)
               \/ ResetJwtSecret(p) \/ Update(p) \/ FlushUpdate(p)
Picturing(p) == \/ Upload(p) \/ CheckImage(p) \/ SetImage(p) \/ DeleteImage(p)
                \/ DeleteAvatar(p) \/ ClearImage(p) \/ WebDestroy(p)
                \/ UnlinkOfApplication(p) \/ ApiDestroy(p)
Equipping(p) == \/ MachineRequest(p) \/ RegisterPep(p) \/ CreatePep(p) \/ SavePep(p)
                \/ RegisterIot(p) \/ CreateIot(p) \/ ResetPasswordPep(p)
                \/ ResetPasswordIot(p) \/ UpdatePep(p) \/ UpdateIot(p) \/ DeletePep(p)
                \/ DeleteIot(p) \/ DestroyPep(p) \/ DestroyIot(p)
Authenticating(p) == \/ CreateTokenRequest(p) \/ SearchIdentity(p) \/ SearchTokenOwner(p)
                     \/ CreateToken(p) \/ DeleteTokenRequest(p) \/ DeleteToken(p)
Trusting(p) == \/ TrustRequest(p) \/ DestroyTrusts(p) \/ BulkCreateTrusts(p)
               \/ AddTrusted(p) \/ RemoveTrusted(p)
Reviving(p) == Restart(p) /\ UNCHANGED <<app, provided>> /\ Untouched

ApplicationStep ==
    \/ \E p \in Requests : \/ Creating(p) \/ Updating(p) \/ Picturing(p) \/ Equipping(p)
                           \/ Authenticating(p) \/ Trusting(p) \/ Reviving(p)
    \/ DeleteAccount \/ LoseOrganization

\* Histories follow what a step did to the rows.
CreationSteps == {"inserted", "assign", "undo"}
ApplicationHistory ==
    LET acted(p) == req'[p] # req[p]
        lost == {p \in Requests : ~At(p, "lost") /\ req'[p].pc = "lost"}
        gone == users \ users'
        both(a) == Cardinality({p \in Requests : At(p, "savePep") /\ req[p].app = a}) > 1
        seen(p) == <<req[p].copy.jwt, req[p].copy.secret>>
        now(a) == <<app[a].jwt, app[a].secret>> IN
    /\ excused' = {a \in DOMAIN app' :
          \/ a \in excused
          \/ \E u \in gone : <<a, u>> \in provided
          \/ \E p \in Requests : /\ req[p].app = a
                                 /\ \/ p \in lost /\ req[p].pc \in CreationSteps \union {"clearImage"}
                                    \/ /\ acted(p) /\ At(p, "assign") /\ req[p].kind = "apiCreate"
                                       /\ req[p].who \notin users}
    /\ stale' = {a \in Live \intersect DOMAIN app' :
          \/ a \in stale
          \/ \E p \in Requests : /\ acted(p) /\ req[p].app = a
                                 /\ req[p].pc \in {"updateInfo", "resetSecret", "flush"}
                                 /\ seen(p) # now(a)}
    /\ raced' = {a \in DOMAIN app' : a \in raced \/ (a \in Live /\ both(a))}
    /\ proof' = [t \in DOMAIN token' |->
          IF t \in DOMAIN token THEN proof[t]
          ELSE UNION {req[p].proofs : p \in {q \in Requests : acted(q)}}]
    /\ group' = group

ApplicationInit ==
    /\ group \in Groups
    /\ \E s \in Starts[group] :
        /\ app = s.app
        /\ provided = s.provided
        /\ machine = s.machine
        /\ files = s.files
        /\ token = s.token
        /\ owners = s.owners
    /\ users = Users
    /\ trusts = {}
    /\ req = [p \in Requests |-> Quiet]
    /\ proof = [t \in DOMAIN token |-> {token[t]}]
    /\ excused = {} /\ stale = {} /\ raced = {}

ApplicationSpec ==
    ApplicationInit /\ [][ApplicationStep /\ ApplicationHistory]_applicationVars

(***************************************************************************)
(* Properties.                                                             *)
(***************************************************************************)
\* An application has a provider, who alone can manage it: whatever fails between its row
\* and the assignment, either the row goes again or somebody is at it.  Left over are
\* those whose provider's account was deleted, and those whose creation was cut short by
\* the end of the process (which the creation form causes itself when it fails late).
ApplicationsHaveAProvider ==
    \A a \in Live \ Participants :
        \/ \E w \in provided : w[1] = a
        \/ a \in excused
        \/ \E p \in Requests : req[p].app = a /\ req[p].pc \in CreationSteps

\* An application whose tokens are JWTs has a secret to sign them with, unless a request
\* wrote a secret it had loaded before another request changed it.
JwtHasSecret == \A a \in Live : app[a].jwt => app[a].secret # None \/ a \in stale

\* The image a row names is on disk, however uploads, removals and updates overlap; only
\* a removal in flight has unlinked it before the row is told, and one that the end of
\* the process cut short.
ImageIsOnDisk ==
    \A a \in Live :
        \/ app[a].image \in files \union {"default", "party"}
        \/ a \in excused
        \/ \E p \in Requests : At(p, "clearImage") /\ req[p].copy.image = app[a].image

\* An application has at most one PEP proxy, unless two requests looked for it before
\* either had added it.
OneProxyPerApplication ==
    \A a \in Live : Cardinality(MachinesOf(a, "pep")) <= 1 \/ a \in raced

\* An API token belongs to the one user or proxy whose password, or whose tokens, bought
\* it, back to the first of the chain of renewals.
TokensComeFromTheirOwner == \A t \in DOMAIN token : proof[t] = {token[t]}
=============================================================================
