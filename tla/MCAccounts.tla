----------------------------- MODULE MCAccounts -----------------------------
(***************************************************************************)
(* Values for model-checking Accounts: two accounts may exist in turn or   *)
(* together, with two addresses and two browsers.  Each group of requests  *)
(* starts from accounts that suit it.                                      *)
(***************************************************************************)
EXTENDS Accounts, TLC

CONSTANTS a1, a2, e1, e2, w1, w2, b1, b2, s1, r1, x1

User(e) == [email |-> e, pass |-> w1, enabled |-> TRUE, admin |-> FALSE, tfa |-> None]
Admin(e) == [User(e) EXCEPT !.admin = TRUE]
Out == [b \in Browsers |-> None]
State(accounts, rows, cookies) == [account |-> accounts, profile |-> rows, cookie |-> cookies]
NoRows == [r \in {} |-> NoKeys]
RowOf(e) == r1 :> [email |-> e, keys |-> NoKeys]
SignedIn(b, u, a) == [Out EXCEPT ![b] = SessionOf(u, a)]
Both(u, a) == [b \in Browsers |-> SessionOf(u, a)]

Registering == {"signUp", "activate", "resend", "adminEnable"}
Recovering == {"passwordRequest", "reset", "avoid", "changePassword"}
Devices == {"login", "enableTfa", "disableTfa", "updateInfo"}
LostPhone == {"avoid", "disable2fa", "enableTfa", "updateInfo"}
Moving == {"changeEmail", "emailVerify", "cancel", "signUp"}
Renaming == {"adminEdit", "passwordRequest", "reset", "signUp"}
Administering == {"adminPassword", "adminDelete", "admins", "logout", "visit"}
Creating == {"apiCreate", "adminCreate", "apiDelete", "adminDelete"}
Serving == {"apiUpdate", "enableTfa"}
Outside == {"externalLogin", "updateInfo", "enableTfa", "adminEdit"}
\* An account is deleted and made again while a link is drawn for its address; a process dies
\* while a statement is on its way.
Replacing == {"passwordRequest", "externalLogin", "adminDelete"}
Dying == {"avoid", "disable2fa", "cancel"}

AllGroups == {Registering, Recovering, Devices, LostPhone, Moving, Renaming,
              Administering, Creating, Serving, Outside, Replacing, Dying}
One == a1 :> User(e1)
OneAdmin == a1 :> Admin(e1)
AdminAndUser == a1 :> Admin(e1) @@ a2 :> User(e2)
AdminAndOutsider == a1 :> Admin(e1) @@ x1 :> User(e2)
Protected == a1 :> [User(e1) EXCEPT !.tfa = [secret |-> s1, known |-> {}]] @@ a2 :> User(e2)
AllStarts ==
    [g \in AllGroups |->
        CASE g = Registering -> {State(OneAdmin, NoRows, SignedIn(b1, a1, Admin(e1)))}
          [] g = Recovering -> {State(One, rows, Out) : rows \in {NoRows, RowOf(e1)}}
          [] g \in {Devices, LostPhone} -> {State(One, RowOf(e1), SignedIn(b1, a1, User(e1)))}
          [] g = Moving -> {State(One, NoRows, SignedIn(b1, a1, User(e1)))}
          [] g \in {Renaming, Creating, Serving, Outside} ->
                {State(OneAdmin, NoRows, SignedIn(b1, a1, Admin(e1)))}
          [] g = Replacing -> {State(AdminAndOutsider, RowOf(e2), SignedIn(b1, a1, Admin(e1)))}
          [] g = Dying -> {State(Protected, NoRows, Both(a2, User(e2)))}
          [] g = Administering -> {State(AdminAndUser, NoRows, SignedIn(b1, a1, Admin(e1)))}]

\* For the run about two-factor authentication.
TwoDevices == {Devices}
Symmetry == Permutations(Requests) \union Permutations(Keys)
=============================================================================
