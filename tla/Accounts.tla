------------------------------ MODULE Accounts ------------------------------
(***************************************************************************)
(* Accounts, the keys mailed to them, and the sessions browsers hold.      *)
(*                                                                         *)
(* A session is a signed cookie: the server keeps nothing of it.  A        *)
(* handler works on the copy that came with its request, and the answer    *)
(* that arrives last is the cookie the browser keeps.  The copy includes   *)
(* the account's "extra" column, two-factor settings and all, and several  *)
(* handlers save that column from a copy.                                  *)
(*                                                                         *)
(* A step is a statement with what its callback does before the next one.  *)
(* Of "extra" only the two-factor settings are kept; an account's names,   *)
(* images and the age of its password are left out.                        *)
(***************************************************************************)
EXTENDS Naturals, FiniteSets

CONSTANTS
    Accounts, Emails,   \* account ids and e-mail addresses
    Passwords,
    Secrets,            \* two-factor secrets an application may be set up with
    Keys,               \* keys that are mailed, each drawn at most once
    Rows,               \* keys of user_registration_profile
    Browsers,
    Requests,           \* requests in flight at a time
    None,
    External,           \* accounts of the external directory, if there is one
    Groups,             \* the sets of request kinds that are explored together
    Starts              \* for each group, the states it may start from

ASSUME AccountsNoneAssumption ==
    None \notin Accounts \union Emails \union Passwords \union Secrets \union Keys \union Rows

VARIABLES
    account,    \* live rows of user
    profile,    \* live rows of user_registration_profile
    cookie,     \* the session each browser holds
    letters,    \* links that have been mailed
    req,        \* the handler each request slot is running
    born,       \* account ids that have been drawn
    drawnFor,   \* history: the account each key was drawn for, the one whose profile got
                \* it, and the one that had the address when it was mailed
    admins,     \* history: accounts that have been administrators
    latest,     \* history: the key last mailed to an account, of each kind
    torn,       \* history: accounts for which two keys were drawn at once, or one while
                \* they came to their address, or none that a row could keep
    lost,       \* history: accounts of which a process died with a statement on its way
    group

data == <<account, profile, letters, born, drawnFor>>
vars == <<account, profile, cookie, letters, req, born,
          drawnFor, admins, latest, torn, lost, group>>

\* Two-factor settings: None when switched off.
Tfa == [secret: Secrets, known: SUBSET Browsers] \union {None}
Account == [email: Emails, pass: Passwords, enabled: BOOLEAN, admin: BOOLEAN, tfa: Tfa]
KeyKinds == {"activation", "reset", "verification", "disable_2fa"}
Profile == [email: Emails, keys: [KeyKinds -> Keys \union {None}]]
Letter == [kind: KeyKinds, key: Keys, to: Emails, new: Emails \union {None}]

\* "current" is history: nobody else has changed the two-factor settings of the
\* account since the copy was made.  An error taken for a user has no id.
Session == [id: Accounts \union {None}, email: Emails \union {None}, admin: BOOLEAN,
            tfa: Tfa, current: BOOLEAN]

ASSUME AccountsNoRecordAssumption ==
    /\ None \notin [secret: Secrets, known: SUBSET Browsers]
    /\ None \notin Account /\ None \notin Session

VisitorKinds == {"login", "externalLogin", "signUp", "activate",
                 "passwordRequest", "reset", "resend", "avoid", "disable2fa"}
SettingsKinds == {"updateInfo", "enableTfa", "disableTfa", "changePassword",
                  "changeEmail", "emailVerify", "cancel", "logout", "visit"}
AdminKinds == {"adminCreate", "adminEdit", "adminPassword", "adminEnable",
               "adminDelete", "admins"}
ApiKinds == {"apiCreate", "apiUpdate", "apiDelete"}
Kinds == VisitorKinds \union SettingsKinds \union AdminKinds \union ApiKinds
Steps == Kinds \union {"idle", "insert", "find", "write", "save", "flush",
                       "tokenPage", "tfaVerify", "promote", "demote",
                       "destroy", "local", "saveLocal", "enable", "setPassword",
                       "setOwnPassword", "emailCheck", "setEmail", "mailAgain"}
Request == [pc: Steps, kind: Kinds, at: Browsers \union {None},
            sess: Session \union {None}, who: Accounts \union {None},
            email: Emails \union {None}, new: Emails \union {None},
            word: Passwords \union {None}, old: Passwords \union {None}, key: Keys \union {None},
            row: Rows \union {None}, tfa: Tfa, flag: BOOLEAN,
            form: SUBSET Accounts, drop: SUBSET Accounts,
            copy: Account \union {None}]
NoRequest == [pc |-> "idle", kind |-> "logout", at |-> None, sess |-> None,
              who |-> None, email |-> None, new |-> None, word |-> None,
              old |-> None, key |-> None, row |-> None, tfa |-> None, flag |-> FALSE,
              form |-> {}, drop |-> {},
              copy |-> None]

Live == DOMAIN account
Addresses == {account[u].email : u \in Live}
Owner(e) == CHOOSE u \in Live : account[u].email = e
RowsOf(e) == {r \in DOMAIN profile : profile[r].email = e}

AccountsTypeOK ==
    /\ account \in [Live -> Account] /\ Live \subseteq born /\ born \subseteq Accounts
    /\ \A u, v \in Live : account[u].email = account[v].email => u = v
    /\ profile \in [DOMAIN profile -> Profile] /\ DOMAIN profile \subseteq Rows
    /\ \A r \in DOMAIN profile : profile[r].email \in Addresses
    /\ cookie \in [Browsers -> Session \union {None}]
    /\ letters \subseteq Letter
    /\ req \in [Requests -> Request]
    /\ group \in Groups

(***************************************************************************)
(* Requests and answers.                                                   *)
(***************************************************************************)
At(p, pc) == req[p].pc = pc
Goto(p, q) == req' = [req EXCEPT ![p] = q] /\ UNCHANGED cookie
Finish(p) == Goto(p, NoRequest)
\* The answer carries session s; the browser keeps it, whatever came meanwhile.
Respond(p, s) == /\ req' = [req EXCEPT ![p] = NoRequest]
                 /\ cookie' = [cookie EXCEPT ![req[p].at] = s]
RespondSame(p) == Respond(p, req[p].sess)
\* A rejection nobody handles ends the process; the next one starts with no request.
Die == req' = [p \in Requests |-> NoRequest]

SessionOf(u, a) == [id |-> u, email |-> a.email, admin |-> a.admin,
                    tfa |-> a.tfa, current |-> TRUE]

Start(p, kind, q) == At(p, "idle") /\ Goto(p, [q EXCEPT !.pc = kind, !.kind = kind])

\* What the link in a letter, opened by browser b, sends.
Following(b, l) == [NoRequest EXCEPT !.at = b, !.sess = cookie[b], !.email = l.to,
                                     !.key = l.key, !.new = l.new]
Mailed(kind) == {l \in letters : l.kind = kind}

VisitorRequest(p) ==
    /\ \E b \in {c \in Browsers : cookie[c] = None} :
       LET from == [NoRequest EXCEPT !.at = b] IN
        \/ \E kind \in {"login", "signUp"} \intersect group, e \in Emails, w \in Passwords :
              Start(p, kind, [from EXCEPT !.email = e, !.word = w])
        \/ \E kind \in {"externalLogin"} \intersect group, u \in External, e \in Emails :
              Start(p, kind, [from EXCEPT !.who = u, !.email = e])
        \/ \E kind \in {"passwordRequest", "resend", "avoid"} \intersect group, e \in Emails :
              Start(p, kind, [from EXCEPT !.email = e])
        \/ \E kind \in {"activate"} \intersect group, l \in Mailed("activation") :
              Start(p, kind, Following(b, l))
        \/ \E kind \in {"reset"} \intersect group, l \in Mailed("reset"), w \in Passwords :
              Start(p, kind, [Following(b, l) EXCEPT !.word = w])
        \/ \E kind \in {"disable2fa"} \intersect group, l \in Mailed("disable_2fa") :
              Start(p, kind, Following(b, l))
    /\ UNCHANGED data

SettingsRequest(p) ==
    /\ \E b \in {c \in Browsers : cookie[c] # None} :
       LET from == [NoRequest EXCEPT !.at = b, !.sess = cookie[b]] IN
        \/ \E kind \in {"disableTfa", "cancel", "logout", "visit"} \intersect group : Start(p, kind, from)
        \/ \E kind \in {"updateInfo"} \intersect group :
              cookie[b].id \in Live /\ Start(p, kind, from)
        \/ \E kind \in {"enableTfa"} \intersect group, s \in Secrets :
              Start(p, kind, [from EXCEPT !.tfa = [secret |-> s, known |-> {}]])
        \/ \E kind \in {"changePassword"} \intersect group, old, w \in Passwords :
              Start(p, kind, [from EXCEPT !.old = old, !.word = w])
        \/ \E kind \in {"changeEmail"} \intersect group, e \in Emails, w \in Passwords :
              Start(p, kind, [from EXCEPT !.new = e, !.word = w])
        \/ \E kind \in {"emailVerify"} \intersect group, l \in Mailed("verification") :
              Start(p, kind, Following(b, l))
    /\ UNCHANGED data
\* An administrator's pages: the edit form holds the settings it was loaded with.
AdminRequest(p) ==
    /\ \E b \in {c \in Browsers : cookie[c] # None /\ cookie[c].admin} :
       LET from == [NoRequest EXCEPT !.at = b, !.sess = cookie[b]] IN
        \/ \E kind \in {"adminCreate"} \intersect group, e \in Emails, w \in Passwords,
              enabled \in BOOLEAN :
              Start(p, kind, [from EXCEPT !.email = e, !.word = w, !.flag = enabled])
        \/ \E kind \in {"adminEdit"} \intersect group, u \in Live, e \in Emails :
              Start(p, kind, [from EXCEPT !.who = u, !.new = e, !.copy = account[u]])
        \/ \E kind \in {"adminPassword"} \intersect group, u \in Live, w \in Passwords :
              Start(p, kind, [from EXCEPT !.who = u, !.word = w])
        \/ \E kind \in {"adminEnable"} \intersect group, u \in Live, enabled \in BOOLEAN :
              Start(p, kind, [from EXCEPT !.who = u, !.flag = enabled])
        \/ \E kind \in {"adminDelete"} \intersect group, u \in born :
              Start(p, kind, [from EXCEPT !.who = u])
        \/ \E kind \in {"admins"} \intersect group, form \in SUBSET born :
              Start(p, kind, [from EXCEPT !.form = form])
    /\ UNCHANGED data

\* The API: a token's owner, who is looked up with the token, acts on itself, or on
\* anybody if it is an administrator.  An update that names "extra" replaces it
\* (flag), and fills the copy that was loaded.
ApiRequest(p) ==
    /\ \E u \in Live :
       LET from == [NoRequest EXCEPT !.sess = SessionOf(u, account[u])] IN
        \/ \E kind \in {"apiCreate"} \intersect group, e \in Emails, w \in Passwords :
              account[u].admin
              /\ Start(p, kind, [from EXCEPT !.email = e, !.word = w, !.flag = TRUE])
        \/ \E kind \in {"apiUpdate"} \intersect group, v \in Live, e \in Emails,
              w \in Passwords \union {None}, extra \in BOOLEAN :
              (u = v \/ account[u].admin)
              /\ Start(p, kind, [from EXCEPT !.who = v, !.new = e, !.word = w,
                                                !.flag = extra, !.copy = account[v]])
        \/ \E kind \in {"apiDelete"} \intersect group, v \in Live :
              (u = v \/ account[u].admin) /\ Start(p, kind, [from EXCEPT !.who = v])
    /\ UNCHANGED data

(***************************************************************************)
(* Changes of rows.  A profile follows the e-mail of its account.          *)
(***************************************************************************)
\* (mutant) The profile keeps the old address.
RenameAlone(u, e) == account' = [account EXCEPT ![u].email = e] /\ UNCHANGED profile
Rename(u, e) ==
    /\ account' = [account EXCEPT ![u].email = e]
    /\ profile' = [r \in DOMAIN profile |->
                      IF profile[r].email = account[u].email
                      THEN [profile[r] EXCEPT !.email = e] ELSE profile[r]]

Destroyed(u) ==
    /\ account' = [v \in Live \ {u} |-> account[v]]
    /\ profile' = [r \in {s \in DOMAIN profile : profile[s].email \in
                             {account[v].email : v \in Live \ {u}}} |-> profile[r]]

Insert(u, a) == /\ account' = [v \in Live \union {u} |-> IF v = u THEN a ELSE account[v]]
                /\ born' = born \union {u}
NewAccount(q, enabled) == [email |-> q.email, pass |-> q.word, enabled |-> enabled,
                           admin |-> FALSE, tfa |-> None]

\* The two-factor settings of u become t, saved by p, whose browser then holds s.
\* Every other copy of u's settings is now an old one.
Outdated(s, u, t) == IF s # None /\ s.id = u /\ u \in Live /\ t # account[u].tfa
                     THEN [s EXCEPT !.current = FALSE] ELSE s
SaveExtra(p, u, t) ==
    account' = IF u \in Live THEN [account EXCEPT ![u].tfa = t] ELSE account
OthersOutdated(p, u, t) ==
    [q \in Requests |-> IF q = p THEN NoRequest
                        ELSE [req[q] EXCEPT !.sess = Outdated(@, u, t)]]
AnswerExtra(p, u, t, s) ==
    /\ req' = OthersOutdated(p, u, t)
    /\ cookie' = [b \in Browsers |-> IF b = req[p].at THEN s ELSE Outdated(cookie[b], u, t)]

(***************************************************************************)
(* Keys are drawn for an account found by its address, and kept in its     *)
(* profile, which is found by address again, or created: two requests may  *)
(* both find none.                                                         *)
(***************************************************************************)
Undrawn == {k \in Keys : drawnFor[k] = {}}
KindOf == [signUp |-> "activation", resend |-> "activation", passwordRequest |-> "reset",
           changeEmail |-> "verification", avoid |-> "disable_2fa"]
Drawing(p, pc, u, e) ==
    \E k \in Undrawn :
        /\ drawnFor' = [drawnFor EXCEPT ![k] = {u}]
        /\ Goto(p, [req[p] EXCEPT !.pc = pc, !.who = u, !.key = k, !.email = e])
NoKeys == [kind \in KeyKinds |-> None]

\* (mutant) A profile that is found keeps its old keys.
KeptKeys(keys, kind, k) == keys
WithKey(keys, kind, k) == [keys EXCEPT ![kind] = k]

FindProfile(p) ==
    /\ At(p, "find")
    /\ \/ \E r \in RowsOf(req[p].email) : Goto(p, [req[p] EXCEPT !.pc = "write", !.row = r])
       \/ RowsOf(req[p].email) = {} /\ Goto(p, [req[p] EXCEPT !.pc = "write", !.row = None])
    /\ UNCHANGED data

Mail(p, holders) ==
    /\ letters' = letters \union {[kind |-> KindOf[req[p].kind], key |-> req[p].key,
                                   to |-> req[p].email, new |-> req[p].new]}
    /\ drawnFor' = [drawnFor EXCEPT ![req[p].key] =
                       @ \union holders \union {u \in Live : account[u].email = req[p].email}]
\* Only the two forms a visitor fills leave a message in the session.
Mailing(p, holders) ==
    /\ Mail(p, holders)
    /\ IF req[p].kind \in {"passwordRequest", "avoid"} THEN RespondSame(p) ELSE Finish(p)

FreeRows == Rows \ (DOMAIN profile \union {req[q].row : q \in Requests})

UpdateProfile(p) ==
    /\ At(p, "write") /\ req[p].row # None
    /\ profile' = [r \in DOMAIN profile |->
            IF r = req[p].row
            THEN [profile[r] EXCEPT !.keys = WithKey(@, KindOf[req[p].kind], req[p].key)]
            ELSE profile[r]]
    /\ Mailing(p, {u \in Live : req[p].row \in RowsOf(account[u].email)})
    /\ UNCHANGED <<account, born>>

\* The address may be gone: sign_up does not catch the refusal, and avoid_2fa_email
\* throws it again where nothing catches it.
CreateProfile(p) ==
    /\ At(p, "write") /\ req[p].row = None
    /\ IF req[p].email \in Addresses
       THEN /\ \E r \in FreeRows :
               profile' = [s \in DOMAIN profile \union {r} |->
                   IF s = r THEN [email |-> req[p].email,
                                  keys |-> [NoKeys EXCEPT ![KindOf[req[p].kind]] = req[p].key]]
                            ELSE profile[s]]
            /\ Mailing(p, {})
       ELSE /\ IF req[p].kind \in {"signUp", "avoid"} THEN Die /\ UNCHANGED cookie ELSE Finish(p)
            /\ UNCHANGED <<profile, letters, drawnFor>>
    /\ UNCHANGED <<account, born>>

(***************************************************************************)
(* Accounts are made.                                                      *)
(***************************************************************************)
\* The form is validated first, which looks for the address.
ValidateNew(p) ==
    /\ \E pc \in {"signUp", "adminCreate", "apiCreate"} : At(p, pc)
    /\ IF req[p].email \in Addresses THEN Finish(p) ELSE Goto(p, [req[p] EXCEPT !.pc = "insert"])
    /\ UNCHANGED data

\* The row is saved.  Its address may be taken by now, and sign_up does not catch that.
SignUp(p) ==
    /\ At(p, "insert") /\ req[p].kind = "signUp"
    /\ IF req[p].email \in Addresses
       THEN Die /\ UNCHANGED <<account, born, cookie, drawnFor>>
       ELSE \E u \in Accounts \ (born \union External) :
               Insert(u, NewAccount(req[p], FALSE)) /\ Drawing(p, "find", u, req[p].email)
    /\ UNCHANGED <<profile, letters>>

CreateByAdministrator(p) ==
    /\ At(p, "insert") /\ req[p].kind # "signUp"
    /\ IF req[p].email \in Addresses
       THEN UNCHANGED <<account, born>>
       ELSE \E u \in Accounts \ (born \union External) :
               Insert(u, NewAccount(req[p], req[p].flag))
    /\ Finish(p)
    /\ UNCHANGED <<profile, letters, drawnFor>>
AdminCreate(p) == CreateByAdministrator(p) /\ req[p].kind = "adminCreate"
ApiCreate(p) == CreateByAdministrator(p) /\ req[p].kind = "apiCreate"

(***************************************************************************)
(* Forms and links that need no session.                                   *)
(***************************************************************************)
\* authenticate, create (session): a password opens a session, or, on a device that
\* is not familiar, the page that asks for a token.
Login(p) ==
    /\ At(p, "login")
    /\ LET e == req[p].email
           found == e \in Addresses /\ account[Owner(e)].pass = req[p].word
                    /\ account[Owner(e)].enabled
           u == Owner(e)
       IN  \/ ~found /\ RespondSame(p)
           \/ /\ found
              /\ IF account[u].tfa = None \/ req[p].at \in account[u].tfa.known
                 THEN Respond(p, SessionOf(u, account[u]))
                 ELSE Goto(p, [req[p] EXCEPT !.pc = "tokenPage", !.who = u])
    /\ UNCHANGED data

\* The token is posted with the cookie of that moment; or the page is left.
SubmitToken(p) ==
    /\ At(p, "tokenPage")
    /\ \/ \E s \in Secrets, remember \in BOOLEAN :
              Goto(p, [req[p] EXCEPT !.pc = "tfaVerify", !.flag = remember,
                         !.sess = cookie[req[p].at], !.tfa = [secret |-> s, known |-> {}]])
       \/ Finish(p)
    /\ UNCHANGED data

\* Neither the password nor whether the account is enabled is looked at again.  A
\* familiar device is saved without waiting, with the settings read here.
TfaVerify(p) ==
    /\ At(p, "tfaVerify")
    /\ LET u == req[p].who IN
       IF u \notin Live \/ account[u].tfa = None
       THEN Die /\ UNCHANGED cookie
       ELSE IF account[u].tfa.secret # req[p].tfa.secret THEN Finish(p)
       ELSE LET t == IF req[p].flag
                     THEN [account[u].tfa EXCEPT !.known = @ \union {req[p].at}]
                     ELSE account[u].tfa
            IN  /\ cookie' = [cookie EXCEPT ![req[p].at] =
                                 [SessionOf(u, account[u]) EXCEPT !.tfa = t]]
                /\ req' = [req EXCEPT ![p] = IF req[p].flag
                             THEN [req[p] EXCEPT !.pc = "flush", !.tfa = t, !.sess = None]
                             ELSE NoRequest]
    /\ UNCHANGED data

\* The statement that was not awaited is executed.
FlushExtra(p) ==
    /\ At(p, "flush")
    /\ SaveExtra(p, req[p].who, req[p].tfa)
    /\ req' = OthersOutdated(p, req[p].who, req[p].tfa)
    /\ cookie' = [b \in Browsers |->
            IF b = req[p].at /\ cookie[b] # None /\ cookie[b].tfa = req[p].tfa THEN cookie[b]
            ELSE Outdated(cookie[b], req[p].who, req[p].tfa)]
    /\ UNCHANGED <<profile, letters, born, drawnFor>>

\* The external directory accepts the password; the local account, which it shares
\* its id with, is looked up without "enabled" or "extra", and made if missing.  A
\* refused form is handed on as if it were the account.
BareSession(u, e, admin) == [id |-> u, email |-> e, admin |-> admin, tfa |-> None,
                             current |-> FALSE]
ExternalLogin(p) ==
    /\ At(p, "externalLogin")
    /\ LET u == req[p].who IN
       \/ RespondSame(p)
       \/ u \in Live /\ Respond(p, BareSession(u, account[u].email, account[u].admin))
       \/ u \notin Live /\ Goto(p, [req[p] EXCEPT !.pc = "local"])
    /\ UNCHANGED data

ValidateLocal(p) ==
    /\ At(p, "local")
    /\ IF req[p].email \in Addresses
       THEN Respond(p, BareSession(None, None, FALSE))
       ELSE Goto(p, [req[p] EXCEPT !.pc = "saveLocal"])
    /\ UNCHANGED data

CreateLocal(p) ==
    /\ At(p, "saveLocal")
    /\ LET u == req[p].who IN
       IF req[p].email \in Addresses \/ u \in Live
       THEN Die /\ UNCHANGED <<cookie, account, born>>
       ELSE \E w \in Passwords :
              /\ Insert(u, NewAccount([req[p] EXCEPT !.word = w], TRUE))
              /\ Respond(p, BareSession(u, req[p].email, FALSE))
    /\ UNCHANGED <<profile, letters, drawnFor>>

PasswordSendEmail(p) ==
    /\ At(p, "passwordRequest")
    /\ LET e == req[p].email IN
       IF e \in Addresses /\ account[Owner(e)].enabled
       THEN Drawing(p, "find", Owner(e), e)
       ELSE Finish(p) /\ UNCHANGED drawnFor
    /\ UNCHANGED <<account, profile, letters, born>>

AvoidTfaEmail(p) ==
    /\ At(p, "avoid")
    /\ LET e == req[p].email IN
       IF e \in Addresses THEN Drawing(p, "find", Owner(e), e)
                         ELSE Finish(p) /\ UNCHANGED drawnFor
    /\ UNCHANGED <<account, profile, letters, born>>

ResendConfirmation(p) ==
    /\ At(p, "resend")
    /\ LET e == req[p].email IN
       IF e \in Addresses /\ ~account[Owner(e)].enabled
       THEN Drawing(p, "mailAgain", Owner(e), e)
       ELSE Finish(p) /\ UNCHANGED drawnFor
    /\ UNCHANGED <<account, profile, letters, born>>

\* An update of the rows there are, which may be none; the link is mailed all the same.
MailAgain(p) ==
    /\ At(p, "mailAgain")
    /\ profile' = [r \in DOMAIN profile |->
            IF r \in RowsOf(req[p].email)
            THEN [profile[r] EXCEPT !.keys = WithKey(@, "activation", req[p].key)]
            ELSE profile[r]]
    /\ Mail(p, {}) /\ RespondSame(p)
    /\ UNCHANGED <<account, born>>

\* (mutant) A key that was never drawn compares equal.
OpensUnset(p, kind, r) == profile[r].keys[kind] \in {None, req[p].key}
\* The profile a link leads to, found by address; its key may have expired.
Opens(p, kind, r) == profile[r].keys[kind] = req[p].key

\* The key stays in the profile.
Activate(p) ==
    /\ At(p, "activate")
    /\ LET e == req[p].email IN
       \/ Finish(p)
       \/ \E r \in RowsOf(e) :
             /\ ~account[Owner(e)].enabled /\ Opens(p, "activation", r)
             /\ Goto(p, [req[p] EXCEPT !.pc = "enable", !.who = Owner(e)])
    /\ UNCHANGED data

SaveEnabled(p) ==
    /\ At(p, "enable")
    /\ account' = IF req[p].who \in Live THEN [account EXCEPT ![req[p].who].enabled = TRUE]
                  ELSE account
    /\ Finish(p)
    /\ UNCHANGED <<profile, letters, born, drawnFor>>

\* Without a profile the request is never answered; its sender gives it up.
ChangePassword(p) ==
    /\ At(p, "reset")
    /\ LET e == req[p].email IN
       \/ Finish(p)
       \/ \E r \in RowsOf(e) :
             /\ Opens(p, "reset", r)
             /\ Goto(p, [req[p] EXCEPT !.pc = "setPassword", !.who = Owner(e)])
    /\ UNCHANGED data

SavePassword(p, u) ==
    /\ account' = IF u \in Live THEN [account EXCEPT ![u].pass = req[p].word] ELSE account
    /\ UNCHANGED <<profile, letters, born, drawnFor>>
SetPassword(p) ==
    At(p, "setPassword") /\ SavePassword(p, req[p].who) /\ RespondSame(p)

\* The settings are cleared by a statement that is not awaited, and a session is
\* opened, whether or not the account is enabled.
DisableTfaByKey(p) ==
    /\ At(p, "disable2fa")
    /\ LET e == req[p].email IN
       \/ Finish(p)
       \/ \E r \in RowsOf(e) :
             /\ Opens(p, "disable_2fa", r)
             /\ cookie' = [cookie EXCEPT ![req[p].at] =
                              [SessionOf(Owner(e), account[Owner(e)]) EXCEPT !.tfa = None]]
             /\ req' = [req EXCEPT ![p].pc = "flush", ![p].who = Owner(e), ![p].sess = None]
    /\ UNCHANGED data

(***************************************************************************)
(* Settings and profile.                                                   *)
(***************************************************************************)
Visit(p) == At(p, "visit") /\ RespondSame(p) /\ UNCHANGED data
Logout(p) == At(p, "logout") /\ Respond(p, None) /\ UNCHANGED data

\* The profile form saves the session's copy of "extra".
UpdateInfo(p) ==
    /\ At(p, "updateInfo")
    /\ LET s == req[p].sess IN
       SaveExtra(p, s.id, s.tfa) /\ AnswerExtra(p, s.id, s.tfa, s)
    /\ UNCHANGED <<profile, letters, born, drawnFor>>

\* (mutant) The session's copy is saved changed, but sent back as it was.
ChangeTfaInRow(p, t) ==
    /\ LET s == req[p].sess IN SaveExtra(p, s.id, t) /\ AnswerExtra(p, s.id, t, s)
    /\ UNCHANGED <<profile, letters, born, drawnFor>>

\* The settings are changed in the session's own copy, which is saved and sent back.
ChangeTfa(p, t) ==
    /\ LET s == req[p].sess IN
       SaveExtra(p, s.id, t) /\ AnswerExtra(p, s.id, t, [s EXCEPT !.tfa = t, !.current = TRUE])
    /\ UNCHANGED <<profile, letters, born, drawnFor>>

\* A session of the external directory has no "extra" to change.
EnableTfa(p) == At(p, "enableTfa") /\ req[p].sess.id \notin External \union {None}
                /\ ChangeTfa(p, req[p].tfa)
DisableTfa(p) == At(p, "disableTfa") /\ req[p].sess.id \notin External \union {None}
                 /\ ChangeTfa(p, None)
NoExtra(p) == /\ At(p, "enableTfa") \/ At(p, "disableTfa")
              /\ req[p].sess.id \in External \union {None}
              /\ Finish(p) /\ UNCHANGED data

\* A session whose account is gone is never answered.
CheckPassword(p) ==
    /\ At(p, "changePassword")
    /\ LET u == req[p].sess.id IN
       IF u \in Live /\ account[u].pass = req[p].old
       THEN Goto(p, [req[p] EXCEPT !.pc = "setOwnPassword"]) ELSE Finish(p)
    /\ UNCHANGED data
SetOwnPassword(p) ==
    At(p, "setOwnPassword") /\ SavePassword(p, req[p].sess.id) /\ Respond(p, None)

ChangeEmail(p) ==
    /\ At(p, "changeEmail")
    /\ IF req[p].new \in Addresses THEN Finish(p)
       ELSE Goto(p, [req[p] EXCEPT !.pc = "emailCheck"])
    /\ UNCHANGED data

\* What is thrown for an account that is gone is not caught.
ChangeEmailCheck(p) ==
    /\ At(p, "emailCheck")
    /\ LET u == req[p].sess.id IN
       IF u \notin Live THEN Die /\ UNCHANGED <<cookie, drawnFor>>
       ELSE IF account[u].pass = req[p].word THEN Drawing(p, "find", u, account[u].email)
       ELSE Finish(p) /\ UNCHANGED drawnFor
    /\ UNCHANGED <<account, profile, letters, born>>

\* The link works in a session that knows the account by the address it still has.
EmailVerify(p) ==
    /\ At(p, "emailVerify")
    /\ \/ Finish(p)
       \/ \E r \in RowsOf(req[p].sess.email) :
             /\ Opens(p, "verification", r)
             /\ Goto(p, [req[p] EXCEPT !.pc = "setEmail", !.email = req[p].sess.email])
    /\ UNCHANGED data

\* The row is addressed by the old address, whoever has it now.
SetEmail(p) ==
    /\ At(p, "setEmail")
    /\ LET e == req[p].email  new == req[p].new IN
       IF e \in Addresses /\ new \in Addresses \ {e}
       THEN Finish(p) /\ UNCHANGED <<account, profile>>
       ELSE /\ IF e \in Addresses THEN Rename(Owner(e), new) ELSE UNCHANGED <<account, profile>>
            /\ Respond(p, [req[p].sess EXCEPT !.email = new])
    /\ UNCHANGED <<letters, born, drawnFor>>

\* Cancelling an account that is gone is answered twice, which nothing catches.
CancelAccount(p) ==
    /\ At(p, "cancel")
    /\ IF req[p].sess.id \in Live
       THEN Goto(p, [req[p] EXCEPT !.pc = "destroy", !.who = req[p].sess.id])
       ELSE Die /\ cookie' = [cookie EXCEPT ![req[p].at] = req[p].sess]
    /\ UNCHANGED data
Destroy(p) ==
    /\ At(p, "destroy")
    /\ IF req[p].who \in Live THEN Destroyed(req[p].who) ELSE UNCHANGED <<account, profile>>
    /\ IF req[p].kind = "cancel" THEN Respond(p, None) ELSE Finish(p)
    /\ UNCHANGED <<letters, born, drawnFor>>

(***************************************************************************)
(* Administrators and the API.                                             *)
(***************************************************************************)
\* The new address is looked for, before the row and "extra" as the page had them are
\* saved; an address that is taken by then is refused.
AdminEdit(p) ==
    /\ At(p, "adminEdit")
    /\ IF req[p].new # req[p].copy.email /\ req[p].new \in Addresses
       THEN Finish(p) ELSE Goto(p, [req[p] EXCEPT !.pc = "save"])
    /\ UNCHANGED data

\* What an update from a loaded copy saves: only what it changes of the copy.
Saved(a, q) ==
    [a EXCEPT !.email = IF q.new = q.copy.email THEN @ ELSE q.new,
              !.pass = IF q.word = None THEN @ ELSE q.word,
              !.enabled = IF q.kind = "apiUpdate" /\ ~q.copy.enabled THEN TRUE ELSE @,
              !.tfa = IF q.kind = "adminEdit" THEN q.copy.tfa ELSE IF q.flag THEN None ELSE @]

SaveCopy(p) ==
    /\ At(p, "save")
    /\ LET u == req[p].who
           a == Saved(account[u], req[p])
       IN  IF u \notin Live \/ a.email \in Addresses \ {account[u].email}
           THEN Finish(p) /\ UNCHANGED <<account, profile>>
           ELSE /\ account' = [account EXCEPT ![u] = a]
                /\ profile' = [r \in DOMAIN profile |->
                       IF r \in RowsOf(account[u].email)
                       THEN [profile[r] EXCEPT !.email = a.email] ELSE profile[r]]
                /\ req' = OthersOutdated(p, u, a.tfa)
                /\ cookie' = [b \in Browsers |-> Outdated(cookie[b], u, a.tfa)]
    /\ UNCHANGED <<letters, born, drawnFor>>
AdminSave(p) == SaveCopy(p) /\ req[p].kind = "adminEdit"
ApiSave(p) == SaveCopy(p) /\ req[p].kind = "apiUpdate"

ApiUpdate(p) ==
    /\ At(p, "apiUpdate")
    /\ IF req[p].new \in Addresses /\ Owner(req[p].new) # req[p].who
       THEN Finish(p) ELSE Goto(p, [req[p] EXCEPT !.pc = "save"])
    /\ UNCHANGED data

ApiDelete(p) ==
    /\ At(p, "apiDelete")
    /\ IF req[p].who \in Live THEN Destroyed(req[p].who) ELSE UNCHANGED <<account, profile>>
    /\ Finish(p)
    /\ UNCHANGED <<letters, born, drawnFor>>

AdminPassword(p) ==
    At(p, "adminPassword") /\ SavePassword(p, req[p].who) /\ Finish(p)

AdminEnable(p) ==
    /\ At(p, "adminEnable")
    /\ account' = IF req[p].who \in Live
                  THEN [account EXCEPT ![req[p].who].enabled = req[p].flag] ELSE account
    /\ Finish(p)
    /\ UNCHANGED <<profile, letters, born, drawnFor>>

\* An account that another administrator has deleted is answered twice.
AdminDelete(p) ==
    /\ At(p, "adminDelete")
    /\ IF req[p].who \in Live THEN Goto(p, [req[p] EXCEPT !.pc = "destroy"])
                              ELSE Die /\ UNCHANGED cookie
    /\ UNCHANGED data

\* update_administrators: the submitted list becomes the list of administrators, by
\* what it adds to and what it takes from the list that was found.
ReadAdministrators(p) ==
    /\ At(p, "admins")
    /\ LET found == {u \in Live : account[u].admin} IN
       Goto(p, [req[p] EXCEPT !.pc = "promote", !.form = @ \ found,
                              !.drop = found \ req[p].form])
    /\ UNCHANGED data
SetAdmin(us, value) ==
    account' = [u \in Live |-> IF u \in us THEN [account[u] EXCEPT !.admin = value] ELSE account[u]]
Promote(p) ==
    /\ At(p, "promote")
    /\ SetAdmin(req[p].form, TRUE) /\ Goto(p, [req[p] EXCEPT !.pc = "demote"])
    /\ UNCHANGED <<profile, letters, born, drawnFor>>
Demote(p) ==
    /\ At(p, "demote")
    /\ SetAdmin(req[p].drop, FALSE) /\ RespondSame(p)
    /\ UNCHANGED <<profile, letters, born, drawnFor>>

(***************************************************************************)
(* The specification.                                                      *)
(***************************************************************************)
Arrival(p) == VisitorRequest(p) \/ SettingsRequest(p) \/ AdminRequest(p) \/ ApiRequest(p)
KeyStep(p) == FindProfile(p) \/ UpdateProfile(p) \/ CreateProfile(p)
VisitorStep(p) ==
    \/ ValidateNew(p) \/ SignUp(p) \/ AdminCreate(p) \/ ApiCreate(p)
    \/ Login(p) \/ SubmitToken(p) \/ TfaVerify(p) \/ FlushExtra(p)
    \/ ExternalLogin(p) \/ ValidateLocal(p) \/ CreateLocal(p)
    \/ PasswordSendEmail(p) \/ AvoidTfaEmail(p) \/ ResendConfirmation(p) \/ MailAgain(p)
    \/ Activate(p) \/ SaveEnabled(p) \/ ChangePassword(p) \/ SetPassword(p)
    \/ DisableTfaByKey(p)
SettingsStep(p) ==
    \/ Visit(p) \/ Logout(p) \/ UpdateInfo(p) \/ EnableTfa(p) \/ DisableTfa(p) \/ NoExtra(p)
    \/ CheckPassword(p) \/ SetOwnPassword(p) \/ ChangeEmail(p) \/ ChangeEmailCheck(p)
    \/ EmailVerify(p) \/ SetEmail(p) \/ CancelAccount(p) \/ Destroy(p)
AdminStep(p) ==
    \/ AdminEdit(p) \/ AdminSave(p) \/ ApiUpdate(p) \/ ApiSave(p) \/ ApiDelete(p)
    \/ AdminPassword(p) \/ AdminEnable(p) \/ AdminDelete(p)
    \/ ReadAdministrators(p) \/ Promote(p) \/ Demote(p)

\* Keys being drawn for an address; what the latest link is; who has been administrator.
DrawingFor(rs, e) == {p \in Requests : rs[p].pc \in {"find", "write", "mailAgain"}
                                        /\ rs[p].email = e}
History ==
    LET live == DOMAIN account'
        sent(u, kind) == {l \in letters' \ letters : l.kind = kind /\ l.to = account'[u].email}
        rowless(u) == \E p \in Requests : /\ At(p, "mailAgain") /\ req'[p].pc = "idle"
                                           /\ req[p].email = account'[u].email
                                           /\ RowsOf(req[p].email) = {}
        \* an account is made or moves while a key is drawn for the address it gets or leaves
        addresses(u) == {account'[u].email} \union {account[v].email : v \in Live \intersect {u}}
        moved(u) == /\ u \notin Live \/ account'[u].email # account[u].email
                    /\ \E e \in addresses(u) : DrawingFor(req, e) # {}
        twice(u) == \E p, q \in DrawingFor(req', account'[u].email) : p # q
        \* only a process that dies ends two requests at once
        died == \E p, q \in Requests : /\ p # q /\ ~At(p, "idle") /\ ~At(q, "idle")
                                        /\ req'[p].pc = "idle" /\ req'[q].pc = "idle"
    IN  /\ admins' = admins \union {u \in live : account'[u].admin}
        /\ latest' = [u \in Accounts |-> [kind \in KeyKinds |->
               IF u \notin live THEN None
               ELSE IF sent(u, kind) # {} THEN (CHOOSE l \in sent(u, kind) : TRUE).key
               ELSE latest[u][kind]]]
        /\ torn' = {u \in live : u \in torn \/ rowless(u) \/ moved(u) \/ twice(u)}
        /\ lost' = lost \union IF died THEN {req[p].who : p \in {q \in Requests : At(q, "flush")}}
                                ELSE {}
        /\ UNCHANGED group

\* Accounts, profiles without keys, and the sessions they have opened.
SoundStart(s) ==
    /\ s.account \in [DOMAIN s.account -> Account] /\ DOMAIN s.account \subseteq Accounts
    /\ \A u, v \in DOMAIN s.account : s.account[u].email = s.account[v].email => u = v
    /\ \A u \in DOMAIN s.account \intersect External : s.account[u].tfa = None
    /\ s.profile \in [DOMAIN s.profile ->
                        [email: {s.account[u].email : u \in DOMAIN s.account}, keys: {NoKeys}]]
    /\ DOMAIN s.profile \subseteq Rows
    /\ s.cookie \in [Browsers ->
                       {SessionOf(u, s.account[u]) : u \in DOMAIN s.account} \union {None}]
ASSUME AccountsStartsAssumption ==
    /\ External \subseteq Accounts
    /\ \A g \in Groups : \A s \in Starts[g] : SoundStart(s)

Init ==
    /\ group \in Groups
    /\ \E s \in Starts[group] :
        /\ account = s.account
        /\ profile = s.profile
        /\ cookie = s.cookie
    /\ letters = {}
    /\ req = [p \in Requests |-> NoRequest]
    /\ born = Live
    /\ drawnFor = [k \in Keys |-> {}]
    /\ admins = {u \in Live : account[u].admin}
    /\ latest = [u \in Accounts |-> NoKeys]
    /\ torn = {u \in Live : \E r, t \in RowsOf(account[u].email) : r # t}
    /\ lost = {}

Next == /\ \E p \in Requests : \/ Arrival(p) \/ KeyStep(p) \/ VisitorStep(p)
                               \/ SettingsStep(p) \/ AdminStep(p)
        /\ History

Spec == Init /\ [][Next]_vars

(***************************************************************************)
(* Properties.                                                             *)
(***************************************************************************)
\* Saving "extra" from the session is harmless as long as nobody else has changed the
\* two-factor settings: every session that is not outdated in that sense holds the
\* settings of the row, except while a statement that was not awaited is on its way, or if
\* a process died with it.
SessionCopyIsCurrent ==
    \A b \in Browsers :
        LET s == cookie[b] IN
        s # None => \/ ~s.current
                    \/ s.id \notin Live \ lost
                    \/ s.tfa = account[s.id].tfa
                    \/ \E p \in Requests : At(p, "flush") /\ req[p].who = s.id

\* The link last mailed to an account works: its key is in every profile row that may be
\* found for the account.  Not if two keys were drawn for it at the same time, which may
\* leave it two profiles, or one for its address while it was made or moved there or away
\* (the row and the mail then follow different accounts); and not if a confirmation is
\* sent again to an account without profile, as those are that an administrator made, or
\* whose sign-up was cut short.
LatestLinkWorks ==
    \A u \in Live \ torn, kind \in KeyKinds :
        latest[u][kind] # None =>
            /\ RowsOf(account[u].email) # {}
            /\ \A r \in RowsOf(account[u].email) : profile[r].keys[kind] = latest[u][kind]

Works(p) == ~At(p, "idle") /\ req'[p].pc # req[p].pc
HasKeyOf(p, u) == req[p].key # None /\ u \in drawnFor[req[p].key]
SessionMayChange(s, u) == s # None /\ (s.id = u \/ (s.admin /\ s.id \in admins))

\* An account is changed or deleted by a session of its own, by an administrator's (one
\* whose account was administrator when the session was opened), by a link drawn for it,
\* kept in its profile or mailed to it, or with the token that opened it; links find accounts
\* by address, in steps between which addresses change hands, and old links stay in their
\* mailboxes.  The one exception is a change of address that is overtaken: when its account
\* loses the old address before the statement is executed, the row of the address's new
\* holder is changed instead.
ChangesAreAuthorized ==
    [][\A u \in Live : (u \notin DOMAIN account' \/ account'[u] # account[u]) =>
        \E p \in Requests :
            /\ Works(p)
            /\ \/ SessionMayChange(req[p].sess, u)
               \/ HasKeyOf(p, u)
               \/ At(p, "flush") /\ req[p].who = u
               \/ /\ At(p, "setEmail") /\ account[u].email = req[p].email
                  /\ req[p].sess.id \notin {v \in Live : account[v].email = req[p].email}]_vars

\* Two-factor authentication, once enabled, asks for a code at every login until somebody
\* asks to disable it (the user guide's "Sign in" and "Disable").  A profile form sent from
\* a session that is older than the enabling disables it too.
TfaEndsOnRequest ==
    [][\A u \in Live \intersect DOMAIN account' :
        account[u].tfa # None /\ account'[u].tfa = None =>
            \E p \in Requests : /\ Works(p)
                                /\ req[p].kind \in {"disableTfa", "disable2fa", "adminEdit",
                                                   "apiUpdate"}]_vars
=============================================================================
