------------------------------- MODULE Eidas -------------------------------
(***************************************************************************)
(* Login with a national identity.  An application gets eIDAS credentials, *)
(* a row and a certificate made for it; its login page then carries a      *)
(* signed request, and the identity provider's response, which comes back  *)
(* through the browser, makes or updates the account of the person in it.  *)
(*                                                                         *)
(* The state and redirect URI a request was made with are kept in the      *)
(* process, by the request's id, and are never removed; a photo in the     *)
(* response is a file that takes the place of the account's last one.      *)
(***************************************************************************)
EXTENDS FiniteSets, Keys

CONSTANTS
    EidasApps,              \* applications that take national identities
    Persons, Mailboxes, Photos,
    Identities,             \* what the identity provider knows of them
    Windows,                \* browsers
    RequestIds,             \* ids of requests to the identity provider
    Visits,                 \* requests to Keyrock in flight
    Mandatory, Configured   \* attributes that are always asked for, and those that can be

ASSUME EidasAssumption ==
    /\ Mandatory \subseteq Configured /\ EidasApps \subseteq Apps /\ None \notin Users
    /\ Photos \intersect {"default", "sent"} = {}
    /\ Identities \subseteq [person: Persons, email: Mailboxes \union {None},
                             photo: {"default", "sent"}, attributes: SUBSET Configured]

VARIABLES
    credentials,    \* rows of eidas_credentials: the attributes and contact of each application
    certified,      \* applications with key and certificate on disk
    states,         \* sp_states and sp_redirect_uris: what each request id stands for
    resident,       \* accounts of persons
    photos,         \* files of photos
    visit,          \* requests
    issued,         \* history: what every request id was issued for
    brought,        \* history: the attributes each account's logins have brought
    cut,            \* history: applications whose certificates could not be made
    torn,           \* history: persons whose old photo is gone while the new one was not saved
    doubled           \* history: persons with two logins at once

eidasVars == <<credentials, certified, states, resident, photos, visit,
               issued, brought, cut, torn, doubled>>

NoVisit == [pc |-> "none", app |-> None, window |-> None, to |-> None, person |-> None,
            email |-> None, photo |-> "default", attributes |-> {}, user |-> None, copy |-> None,
            back |-> None]
Resident == [person: Persons, email: Mailboxes \union {None}, photo: Photos \union {"default"},
             profile: SUBSET Configured]
Credential == [attributes: {s \in SUBSET Configured : Mandatory \subseteq s}, contact: {"first", "second"}]
Origin == [app: EidasApps, window: Windows]

EidasTypeOK ==
    /\ credentials \in [DOMAIN credentials -> Credential] /\ DOMAIN credentials \subseteq EidasApps
    /\ certified \subseteq Apps /\ photos \subseteq Photos
    /\ states \in [DOMAIN states -> Origin] /\ DOMAIN states \subseteq DOMAIN issued
    /\ resident \in [DOMAIN resident -> Resident] /\ DOMAIN resident \subseteq Users
    /\ \A u, v \in DOMAIN resident :
            resident[u].email = resident[v].email => u = v \/ resident[u].email = None
    /\ \A p \in Visits : visit[p].user \in Users \union {None}

\* A value drawn at random, or a free slot: which one it is makes no difference.
Fresh(S) == CHOOSE x \in S : TRUE
Over(p) == visit[p].pc \in {"none", "returned", "failed"}
Failed == [NoVisit EXCEPT !.pc = "failed"]
Does(p, pc) == visit[p].pc = pc
Opens(p) == Does(p, "none") /\ p = Fresh({r \in Visits : Does(r, "none")})
Becomes(p, v) == visit' = [visit EXCEPT ![p] = v]
Leaves(p) == Becomes(p, Failed)
Same(vs) == UNCHANGED vs
histories == <<issued, brought, cut, torn, doubled>>
Store(f, x, v) == [y \in DOMAIN f \union {x} |-> IF y = x THEN v ELSE f[y]]

(***************************************************************************)
(* An application's credentials.                                           *)
(***************************************************************************)
StepCreate(p) ==
    /\ Opens(p)
    /\ \E a \in EidasApps : Becomes(p, [NoVisit EXCEPT !.pc = "save", !.app = a])
    /\ Same(<<credentials, certified, states, resident, photos, histories>>)

\* The row, one for each application, comes before its certificate.
SaveCredentials(p) ==
    /\ Does(p, "save") /\ visit[p].app \notin DOMAIN credentials
    /\ credentials' = Store(credentials, visit[p].app, [attributes |-> Mandatory, contact |-> "first"])
    /\ Becomes(p, [visit[p] EXCEPT !.pc = "certify"])
    /\ Same(<<certified, states, resident, photos, histories>>)

SaveCredentialsFails(p) ==
    Does(p, "save") /\ Leaves(p) /\ Same(<<credentials, certified, states, resident, photos, histories>>)

GenerateAppCertificates(p) ==
    /\ Does(p, "certify")
    /\ certified' = certified \union {visit[p].app}
    /\ Leaves(p)
    /\ Same(<<credentials, states, resident, photos, histories>>)

\* The row stays, and as there can be only one the step cannot be taken again.
GenerateAppCertificatesFails(p) ==
    /\ Does(p, "certify")
    /\ cut' = cut \union {visit[p].app}
    /\ Leaves(p)
    /\ Same(<<credentials, certified, states, resident, photos, issued, brought, torn, doubled>>)

UpdateEidasInfo ==
    /\ \E a \in DOMAIN credentials : credentials' = [credentials EXCEPT ![a].contact = "second"]
    /\ Same(<<certified, states, resident, photos, visit, histories>>)

\* What the form asks for that is not configured is dropped.
UpdateEidasAttributes ==
    /\ \E a \in DOMAIN credentials, form \in SUBSET Configured :
        credentials' = [credentials EXCEPT ![a].attributes = Mandatory \union form]
    /\ Same(<<certified, states, resident, photos, visit, histories>>)

(***************************************************************************)
(* The login page, and the response.                                       *)
(***************************************************************************)
\* The page of an application with credentials carries a request; without certificates
\* the browser is sent home instead.
Usable(a) == a \in DOMAIN credentials \intersect certified
CreateAuthnRequest(a, w) == [app |-> a, window |-> w, asked |-> credentials[a].attributes]

\* (mutant) One place for the state and redirect URI of the last request.
CreateAuthRequestOverwriting(w) ==
    /\ RequestIds \ DOMAIN issued # {}
    /\ \E a \in EidasApps, id \in {Fresh(RequestIds \ DOMAIN issued)} :
        /\ Usable(a)
        /\ states' = [i \in DOMAIN states \union {id} |-> [app |-> a, window |-> w]]
        /\ issued' = Store(issued, id, CreateAuthnRequest(a, w))
    /\ Same(<<credentials, certified, resident, photos, visit, brought, cut, torn, doubled>>)

CreateAuthRequest(w) ==
    /\ RequestIds \ DOMAIN issued # {}
    /\ \E a \in EidasApps, id \in {Fresh(RequestIds \ DOMAIN issued)} :
        /\ Usable(a)
        /\ states' = Store(states, id, [app |-> a, window |-> w])
        /\ issued' = Store(issued, id, CreateAuthnRequest(a, w))
    /\ Same(<<credentials, certified, resident, photos, visit, brought, cut, torn, doubled>>)

\* The identity provider answers each request as often as the browser repeats it, with what
\* it knows of the person who logs in; it encrypts for the application that asked, so that
\* no other's key opens the response.
InLogin(p) == visit[p].pc \in {"photo", "find", "destroy", "replace", "create"}
DecryptAssertion(id) == issued[id].app \in certified
AssertionAttributes(id, x) == Mandatory \union (x.attributes \intersect issued[id].asked)
AuthnResponse(id, x) ==
    [NoVisit EXCEPT !.pc = "photo", !.to = id, !.app = issued[id].app, !.window = issued[id].window,
                    !.person = x.person, !.email = x.email, !.photo = x.photo,
                    !.attributes = AssertionAttributes(id, x)]

SamlApplicationLogin(p) ==
    /\ Opens(p)
    /\ \E id \in DOMAIN issued, x \in Identities :
        /\ Usable(issued[id].app) /\ DecryptAssertion(id)
        /\ Becomes(p, AuthnResponse(id, x))
        /\ doubled' = doubled \union
                {y \in {x.person} : \E r \in Visits \ {p} : InLogin(r) /\ visit[r].person = y}
    /\ Same(<<credentials, certified, states, resident, photos, issued, brought, cut, torn>>)

\* The login was not a success, or the response is not in order.
AssertFails(p) ==
    /\ Opens(p) /\ issued # <<>>
    /\ Leaves(p)
    /\ Same(<<credentials, certified, states, resident, photos, histories>>)

\* The names that accounts, and the requests that work on them, hold.
InUse ==
    {resident[u].photo : u \in DOMAIN resident} \union {visit[p].photo : p \in Visits}
        \union {visit[p].copy.photo : p \in {r \in Visits : visit[r].pc \in {"destroy", "replace"}}}
ToImage(p) ==
    /\ Does(p, "photo")
    /\ \/ /\ visit[p].photo = "default"
          /\ Becomes(p, [visit[p] EXCEPT !.pc = "find"]) /\ Same(photos)
       \/ /\ visit[p].photo = "sent"
          /\ Photos \ (photos \union InUse) # {}
          /\ \E i \in {Fresh(Photos \ (photos \union InUse))} :
                /\ photos' = photos \union {i}
                /\ Becomes(p, [visit[p] EXCEPT !.pc = "find", !.photo = i])
       \/ visit[p].photo = "sent" /\ Leaves(p) /\ Same(photos)
    /\ Same(<<credentials, certified, states, resident, histories>>)

\* (mutant) An account is known again by its address.
FindByEmail(p) == {u \in DOMAIN resident : visit[p].email # None /\ resident[u].email = visit[p].email}
FindPerson(p) == {u \in DOMAIN resident : resident[u].person = visit[p].person}

FindUser(p) ==
    /\ Does(p, "find")
    /\ \/ /\ FindPerson(p) = {}
          /\ Becomes(p, [visit[p] EXCEPT !.pc = "create"])
       \/ \E u \in FindPerson(p) :
            Becomes(p, [visit[p] EXCEPT !.pc = "destroy", !.user = u, !.copy = resident[u]])
    /\ Same(<<credentials, certified, states, resident, photos, histories>>)

\* Without a new photo the old one stays; one that is not there cannot be removed, and the
\* login fails for it.
Old(p) == IF visit[p].photo = "default" THEN "default" ELSE visit[p].copy.photo
DestroyPhoto(p) ==
    /\ Does(p, "destroy")
    /\ Becomes(p, IF Old(p) \in photos \union {"default"}
                  THEN [visit[p] EXCEPT !.pc = "replace"] ELSE Failed)
    /\ photos' = photos \ {Old(p)}
    /\ Same(<<credentials, certified, states, resident, histories>>)

\* The session is the person's, and the browser goes on to where its request came from; a
\* process that does not know the request any more fails after it has set the session.
Settles(p, u) ==
    /\ Becomes(p, IF visit[p].to \notin DOMAIN states THEN Failed
                  ELSE [visit[p] EXCEPT !.pc = "returned", !.user = u, !.copy = None,
                                        !.back = states[visit[p].to]])
    /\ brought' = Store(brought, u, visit[p].attributes \union
                                        IF u \in DOMAIN brought THEN brought[u] ELSE {})
    /\ Same(<<credentials, certified, states, photos, issued, cut, torn, doubled>>)

Taken(e, u) == e # None /\ \E v \in DOMAIN resident \ {u} : resident[v].email = e
NewEmail(p) == IF visit[p].copy.email = None THEN visit[p].email ELSE visit[p].copy.email

\* The copy that was read is written back, with what is new.
SaveUser(p) ==
    /\ Does(p, "replace")
    /\ LET u == visit[p].user IN
        /\ ~Taken(NewEmail(p), u)
        /\ resident' = [resident EXCEPT ![u] =
                [@ EXCEPT !.email = NewEmail(p),
                          !.photo = IF visit[p].photo = "default" THEN visit[p].copy.photo ELSE visit[p].photo,
                          !.profile = visit[p].copy.profile \union visit[p].attributes]]
        /\ Settles(p, u)

CreateUser(p) ==
    /\ Does(p, "create") /\ ~Taken(visit[p].email, None)
    /\ Users \ DOMAIN resident # {}
    /\ \E u \in {Fresh(Users \ DOMAIN resident)} :
        /\ resident' = Store(resident, u, [person |-> visit[p].person, email |-> visit[p].email,
                                           photo |-> visit[p].photo, profile |-> visit[p].attributes])
        /\ Settles(p, u)

\* An address somebody has, or a statement that fails: the photo is not put back.
SaveUserFails(p) ==
    /\ visit[p].pc \in {"replace", "create"}
    /\ torn' = torn \union {x \in {visit[p].person} : Does(p, "replace") /\ Old(p) # "default"}
    /\ Leaves(p)
    /\ Same(<<credentials, certified, states, resident, photos, issued, brought, cut, doubled>>)

StopProcess ==
    /\ states # <<>> \/ \E p \in Visits : ~Over(p)
    /\ states' = <<>>
    /\ visit' = [p \in Visits |-> IF Over(p) THEN visit[p] ELSE Failed]
    /\ cut' = cut \union {visit[p].app : p \in {r \in Visits : Does(r, "certify")}}
    /\ torn' = torn \union {visit[p].person : p \in {r \in Visits : Does(r, "replace") /\ Old(r) # "default"}}
    /\ Same(<<credentials, certified, resident, photos, issued, brought, doubled>>)

CredentialStep ==
    \/ \E p \in Visits : StepCreate(p) \/ SaveCredentials(p) \/ SaveCredentialsFails(p)
            \/ GenerateAppCertificates(p) \/ GenerateAppCertificatesFails(p)
    \/ UpdateEidasInfo \/ UpdateEidasAttributes
LoginStep ==
    \/ \E w \in Windows : CreateAuthRequest(w)
    \/ \E p \in Visits : SamlApplicationLogin(p) \/ AssertFails(p) \/ ToImage(p) \/ FindUser(p) \/ DestroyPhoto(p)
            \/ SaveUser(p) \/ CreateUser(p) \/ SaveUserFails(p)
    \/ StopProcess

EidasInit ==
    /\ credentials \in {<<>>, [a \in EidasApps |-> [attributes |-> Configured, contact |-> "first"]]}
    /\ certified = DOMAIN credentials
    /\ states = <<>> /\ resident = <<>> /\ photos = {}
    /\ visit = [p \in Visits |-> NoVisit]
    /\ issued = <<>> /\ brought = <<>> /\ cut = {} /\ torn = {} /\ doubled = {}

EidasSpec == EidasInit /\ [][CredentialStep \/ LoginStep]_eidasVars

(***************************************************************************)
(* Properties.                                                             *)
(***************************************************************************)
\* A login that succeeds ends in the session of the person the response is about, in the
\* browser and at the application the request it answers came from, however many requests
\* and responses there are at a time.  An application whose credentials are made can be
\* used, unless its certificates could not be made.
LoginsReturnToTheirRequest ==
    /\ \A p \in Visits : Does(p, "returned") =>
        /\ resident[visit[p].user].person = visit[p].person
        /\ visit[p].back = [app |-> issued[visit[p].to].app, window |-> issued[visit[p].to].window]
        /\ visit[p].back.app = visit[p].app
    /\ \A a \in DOMAIN credentials \ cut :
        a \in certified \/ \E p \in Visits : Does(p, "certify") /\ visit[p].app = a

\* A person has one account, with all that its logins have brought, and with a photo that
\* is there, unless two of its logins overlapped, or one was cut off between the removal of
\* the old photo and the account's update.
PersonsKeepTheirAccount ==
    \A u \in DOMAIN resident :
        LET who == resident[u].person IN
        who \notin doubled =>
            /\ \A v \in DOMAIN resident : resident[v].person = who => v = u
            /\ brought[u] \subseteq resident[u].profile
            /\ \/ resident[u].photo \in photos \union {"default"} \/ who \in torn
               \/ \E p \in Visits : Does(p, "replace") /\ visit[p].user = u
=============================================================================
