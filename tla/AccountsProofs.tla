--------------------------- MODULE AccountsProofs ---------------------------
(***************************************************************************)
(* Proofs about Accounts.  Everything is proved by one inductive           *)
(* invariant, in parts: the rows (RowsSound), what a request holds in      *)
(* each of its steps (RequestSound), what a session may claim              *)
(* (SessionSound) and when its copy of the two-factor settings is          *)
(* the row's (CopyFresh).  The lemmas take the state as parameters, so     *)
(* that they are about the operators and not about the variables.          *)
(***************************************************************************)
EXTENDS Accounts, TLAPS

(***************************************************************************)
(* Rows.                                                                   *)
(***************************************************************************)
\* What the program keeps of accounts acc, profiles prof and drawn ids bn, when dr says for
\* whom keys were drawn: addresses are unique, every profile has an account, an account of
\* the external directory has no two-factor settings, and a key in a profile was drawn for
\* the profile's account or mailed to it.
AccountsSound(acc, bn) ==
    /\ acc \in [DOMAIN acc -> Account] /\ DOMAIN acc \subseteq bn /\ bn \subseteq Accounts
    /\ \A u, v \in DOMAIN acc : acc[u].email = acc[v].email => u = v
    /\ \A u \in DOMAIN acc \intersect External : acc[u].tfa = None
ProfilesSound(acc, prof) ==
    /\ prof \in [DOMAIN prof -> Profile] /\ DOMAIN prof \subseteq Rows
    /\ \A r \in DOMAIN prof : \E u \in DOMAIN acc : acc[u].email = prof[r].email
KeysFounded(acc, prof, dr) ==
    \A r \in DOMAIN prof, kind \in KeyKinds, u \in DOMAIN acc :
        (prof[r].keys[kind] # None /\ acc[u].email = prof[r].email)
            => u \in dr[prof[r].keys[kind]]
RowsSound(acc, prof, bn, dr) ==
    /\ AccountsSound(acc, bn)
    /\ ProfilesSound(acc, prof)
    /\ KeysFounded(acc, prof, dr)

\* The changes of Accounts' actions, as operators.
Inserted(acc, u, a) == [v \in DOMAIN acc \union {u} |-> IF v = u THEN a ELSE acc[v]]
Changed(acc, u, a) == [acc EXCEPT ![u] = a]
Renamed(prof, from, to) ==
    [r \in DOMAIN prof |-> IF prof[r].email = from THEN [prof[r] EXCEPT !.email = to] ELSE prof[r]]
Without(acc, u) == [v \in DOMAIN acc \ {u} |-> acc[v]]
Orphaned(acc, prof) ==
    [r \in {s \in DOMAIN prof : prof[s].email \in {acc[v].email : v \in DOMAIN acc}} |-> prof[r]]
Appointed(acc, us, value) ==
    [u \in DOMAIN acc |-> IF u \in us THEN [acc[u] EXCEPT !.admin = value] ELSE acc[u]]

\* Keys in profiles stay founded when accounts and rows stay and more keys are drawn or mailed.
Grows(dr, dr2) == \A k \in Keys : dr[k] \subseteq dr2[k]
LEMMA KeysStayFounded ==
    ASSUME NEW acc, NEW prof, NEW dr, NEW dr2, ProfilesSound(acc, prof),
           KeysFounded(acc, prof, dr), Grows(dr, dr2)
    PROVE  KeysFounded(acc, prof, dr2)
<1> SUFFICES ASSUME NEW r \in DOMAIN prof, NEW kind \in KeyKinds, NEW u \in DOMAIN acc,
                    prof[r].keys[kind] # None, acc[u].email = prof[r].email
             PROVE  u \in dr2[prof[r].keys[kind]]
    BY DEF KeysFounded
<1>1. prof[r] \in Profile BY DEF ProfilesSound
<1>2. prof[r].keys[kind] \in Keys BY <1>1 DEF Profile
<1>3. u \in dr[prof[r].keys[kind]] BY DEF KeysFounded
<1> QED BY <1>2, <1>3 DEF Grows

LEMMA RowsStaySound ==
    ASSUME NEW acc, NEW prof, NEW bn, NEW dr, NEW dr2, RowsSound(acc, prof, bn, dr), Grows(dr, dr2)
    PROVE  RowsSound(acc, prof, bn, dr2)
BY KeysStayFounded DEF RowsSound

\* A new account, at an address nobody has.
LEMMA InsertSound ==
    ASSUME NEW acc, NEW prof, NEW bn, NEW dr, RowsSound(acc, prof, bn, dr),
           NEW u \in Accounts \ DOMAIN acc, NEW a \in Account,
           u \in External => a.tfa = None,
           \A v \in DOMAIN acc : acc[v].email # a.email
    PROVE  RowsSound(Inserted(acc, u, a), prof, bn \union {u}, dr)
<1> DEFINE ac == Inserted(acc, u, a)
<1>0. /\ AccountsSound(acc, bn)
      /\ ProfilesSound(acc, prof)
      /\ KeysFounded(acc, prof, dr)
    BY DEF RowsSound
<1>1. /\ DOMAIN ac = DOMAIN acc \union {u} /\ ac[u] = a
      /\ \A v \in DOMAIN acc : v # u /\ ac[v] = acc[v]
    BY DEF Inserted
<1>2. AccountsSound(ac, bn \union {u})
  <2>1. ac \in [DOMAIN ac -> Account] BY <1>0 DEF Inserted, AccountsSound
  <2>2. DOMAIN ac \subseteq bn \union {u} /\ bn \union {u} \subseteq Accounts
      BY <1>0, <1>1 DEF AccountsSound
  <2>3. \A v, w \in DOMAIN ac : ac[v].email = ac[w].email => v = w
      BY <1>0, <1>1 DEF AccountsSound
  <2>4. \A v \in DOMAIN ac \intersect External : ac[v].tfa = None
      BY <1>0, <1>1 DEF AccountsSound
  <2> HIDE DEF ac
  <2> QED BY <2>1, <2>2, <2>3, <2>4 DEF AccountsSound
<1>3. ProfilesSound(ac, prof) BY <1>0, <1>1 DEF ProfilesSound
<1>4. KeysFounded(ac, prof, dr)
  <2> SUFFICES ASSUME NEW r \in DOMAIN prof, NEW kind \in KeyKinds, NEW v \in DOMAIN ac,
                      prof[r].keys[kind] # None, ac[v].email = prof[r].email
               PROVE  v \in dr[prof[r].keys[kind]]
      BY DEF KeysFounded
  <2>1. PICK w \in DOMAIN acc : acc[w].email = prof[r].email BY <1>0 DEF ProfilesSound
  <2>2. v # u BY <1>1, <2>1
  <2>3. v \in DOMAIN acc /\ acc[v].email = prof[r].email BY <1>1, <2>2
  <2> QED BY <1>0, <2>3 DEF KeysFounded
<1> QED BY <1>2, <1>3, <1>4 DEF RowsSound

\* A change of one account: its profiles follow its address, which stays or is nobody else's.
LEMMA ChangeSound ==
    ASSUME NEW acc, NEW prof, NEW bn, NEW dr, RowsSound(acc, prof, bn, dr),
           NEW u \in DOMAIN acc, NEW a \in Account,
           u \in External => a.tfa = None,
           \A v \in DOMAIN acc : acc[v].email = a.email => v = u
    PROVE  RowsSound(Changed(acc, u, a), Renamed(prof, acc[u].email, a.email), bn, dr)
<1> DEFINE ac == Changed(acc, u, a)  pr == Renamed(prof, acc[u].email, a.email)
<1>0. /\ AccountsSound(acc, bn)
      /\ ProfilesSound(acc, prof)
      /\ KeysFounded(acc, prof, dr)
    BY DEF RowsSound
<1>1. /\ DOMAIN ac = DOMAIN acc /\ ac[u] = a
      /\ \A v \in DOMAIN acc : v # u => ac[v] = acc[v]
    BY <1>0 DEF Changed, AccountsSound
<1>2. AccountsSound(ac, bn)
  <2>1. ac \in [DOMAIN ac -> Account] BY <1>0 DEF Changed, AccountsSound
  <2>2. DOMAIN ac \subseteq bn /\ bn \subseteq Accounts BY <1>0, <1>1 DEF AccountsSound
  <2>3. \A v, w \in DOMAIN ac : ac[v].email = ac[w].email => v = w
      BY <1>0, <1>1 DEF AccountsSound
  <2>4. \A v \in DOMAIN ac \intersect External : ac[v].tfa = None
      BY <1>0, <1>1 DEF AccountsSound
  <2> HIDE DEF ac
  <2> QED BY <2>1, <2>2, <2>3, <2>4 DEF AccountsSound
<1>3. \A r \in DOMAIN prof : prof[r] \in Profile BY <1>0 DEF ProfilesSound
<1>4. /\ DOMAIN pr = DOMAIN prof
      /\ \A r \in DOMAIN prof : /\ pr[r] \in Profile
                                /\ pr[r].keys = prof[r].keys
                                /\ prof[r].email = acc[u].email => pr[r].email = a.email
                                /\ prof[r].email # acc[u].email => pr[r] = prof[r]
    BY <1>3 DEF Renamed, Profile, Account
<1>5. ProfilesSound(ac, pr)
  <2>1. pr \in [DOMAIN pr -> Profile] BY <1>4 DEF Renamed
  <2>2. DOMAIN pr \subseteq Rows BY <1>0, <1>4 DEF ProfilesSound
  <2>3. ASSUME NEW r \in DOMAIN pr PROVE \E v \in DOMAIN ac : ac[v].email = pr[r].email
    <3>1. CASE prof[r].email = acc[u].email BY <1>1, <1>4, <3>1
    <3>2. CASE prof[r].email # acc[u].email
      <4>1. PICK v \in DOMAIN acc : acc[v].email = prof[r].email BY <1>0, <1>4 DEF ProfilesSound
      <4> QED BY <1>1, <1>4, <3>2, <4>1
    <3> QED BY <3>1, <3>2
  <2> HIDE DEF ac, pr
  <2> QED BY <2>1, <2>2, <2>3 DEF ProfilesSound
<1>6. KeysFounded(ac, pr, dr)
  <2> HIDE DEF ac, pr
  <2> SUFFICES ASSUME NEW r \in DOMAIN pr, NEW kind \in KeyKinds, NEW v \in DOMAIN ac,
                      pr[r].keys[kind] # None, ac[v].email = pr[r].email
               PROVE  v \in dr[pr[r].keys[kind]]
      BY DEF KeysFounded
  <2>1. r \in DOMAIN prof /\ v \in DOMAIN acc BY <1>1, <1>4
  <2>2. acc[v].email = prof[r].email
    <3>1. CASE prof[r].email = acc[u].email BY <1>1, <1>4, <2>1, <3>1
    <3>2. CASE prof[r].email # acc[u].email
      <4>1. PICK w \in DOMAIN acc : acc[w].email = prof[r].email BY <1>0, <2>1 DEF ProfilesSound
      <4>2. w # u BY <3>2, <4>1
      <4>3. v # u BY <1>1, <1>4, <2>1, <3>2, <4>1, <4>2
      <4> QED BY <1>1, <1>4, <2>1, <3>2, <4>3
    <3> QED BY <3>1, <3>2
  <2> QED BY <1>0, <1>4, <2>1, <2>2 DEF KeysFounded
<1> QED BY <1>2, <1>5, <1>6 DEF RowsSound

\* The same, of an account that keeps its address: no profile changes.
LEMMA KeptAddressSound ==
    ASSUME NEW acc, NEW prof, NEW bn, NEW dr, RowsSound(acc, prof, bn, dr),
           NEW u \in DOMAIN acc, NEW a \in Account,
           u \in External => a.tfa = None, a.email = acc[u].email
    PROVE  RowsSound(Changed(acc, u, a), prof, bn, dr)
<1>1. RowsSound(Changed(acc, u, a), Renamed(prof, acc[u].email, a.email), bn, dr)
    BY ChangeSound DEF RowsSound, AccountsSound
<1>2. \A r \in DOMAIN prof : prof[r] \in Profile BY DEF RowsSound, ProfilesSound
<1>3. prof = [r \in DOMAIN prof |-> prof[r]] BY DEF RowsSound, ProfilesSound
<1>4. \A r \in DOMAIN prof :
         prof[r].email = acc[u].email => [prof[r] EXCEPT !.email = a.email] = prof[r]
    BY <1>2 DEF Profile
<1>5. Renamed(prof, acc[u].email, a.email) = prof BY <1>3, <1>4 DEF Renamed
<1> QED BY <1>1, <1>5

\* An account that is deleted, and its profiles with it.
LEMMA DestroySound ==
    ASSUME NEW acc, NEW prof, NEW bn, NEW dr, RowsSound(acc, prof, bn, dr), NEW u \in DOMAIN acc
    PROVE  RowsSound(Without(acc, u), Orphaned(Without(acc, u), prof), bn, dr)
<1> DEFINE ac == Without(acc, u)  pr == Orphaned(ac, prof)
<1>0. /\ AccountsSound(acc, bn)
      /\ ProfilesSound(acc, prof)
      /\ KeysFounded(acc, prof, dr)
    BY DEF RowsSound
<1>1. DOMAIN ac = DOMAIN acc \ {u} /\ \A v \in DOMAIN ac : ac[v] = acc[v]
    BY DEF Without
<1>2. AccountsSound(ac, bn)
  <2>1. ac \in [DOMAIN ac -> Account] BY <1>0 DEF Without, AccountsSound
  <2> HIDE DEF ac
  <2> QED BY <1>0, <1>1, <2>1 DEF AccountsSound
<1> HIDE DEF ac
<1>3. /\ DOMAIN pr = {s \in DOMAIN prof : prof[s].email \in {ac[v].email : v \in DOMAIN ac}}
      /\ \A r \in DOMAIN pr : pr[r] = prof[r]
    BY DEF Orphaned
<1>4. ProfilesSound(ac, pr)
  <2>1. \A r \in DOMAIN prof : prof[r] \in Profile BY <1>0 DEF ProfilesSound
  <2>2. pr \in [DOMAIN pr -> Profile] BY <2>1 DEF Orphaned
  <2>3. \A r \in DOMAIN pr : \E v \in DOMAIN ac : ac[v].email = pr[r].email BY <1>3
  <2>4. DOMAIN pr \subseteq Rows BY <1>0, <1>3 DEF ProfilesSound
  <2> HIDE DEF pr
  <2> QED BY <2>2, <2>3, <2>4 DEF ProfilesSound
<1>5. KeysFounded(ac, pr, dr)
  <2> HIDE DEF pr
  <2> QED BY <1>0, <1>1, <1>3 DEF KeysFounded
<1> QED BY <1>2, <1>4, <1>5 DEF RowsSound, ac

\* Administrators are appointed or dismissed.
LEMMA AppointSound ==
    ASSUME NEW acc, NEW prof, NEW bn, NEW dr, RowsSound(acc, prof, bn, dr),
           NEW us, NEW value \in BOOLEAN
    PROVE  RowsSound(Appointed(acc, us, value), prof, bn, dr)
<1> DEFINE ac == Appointed(acc, us, value)
<1>0. /\ AccountsSound(acc, bn)
      /\ ProfilesSound(acc, prof)
      /\ KeysFounded(acc, prof, dr)
    BY DEF RowsSound
<1>1. \A u \in DOMAIN acc : acc[u] \in Account BY <1>0 DEF AccountsSound
<1>2. /\ DOMAIN ac = DOMAIN acc
      /\ \A u \in DOMAIN acc : /\ ac[u] \in Account
                               /\ ac[u].email = acc[u].email /\ ac[u].tfa = acc[u].tfa
    BY <1>1 DEF Appointed, Account
<1>3. ac \in [DOMAIN ac -> Account] BY <1>2 DEF Appointed
<1> HIDE DEF ac
<1>4. AccountsSound(ac, bn) BY <1>0, <1>2, <1>3 DEF AccountsSound
<1>5. ProfilesSound(ac, prof) BY <1>0, <1>2 DEF ProfilesSound
<1>6. KeysFounded(ac, prof, dr) BY <1>0, <1>2 DEF KeysFounded
<1> QED BY <1>4, <1>5, <1>6 DEF RowsSound, ac

\* A key is written to rows whose accounts it was drawn for, or to a new row.
Keyed(prof, rs, kind, k) ==
    [r \in DOMAIN prof |->
        IF r \in rs THEN [prof[r] EXCEPT !.keys = WithKey(@, kind, k)] ELSE prof[r]]
Added(prof, row, e, kind, k) ==
    [r \in DOMAIN prof \union {row} |->
        IF r = row THEN [email |-> e, keys |-> [NoKeys EXCEPT ![kind] = k]] ELSE prof[r]]

LEMMA KeySound ==
    ASSUME NEW keys \in [KeyKinds -> Keys \union {None}], NEW kind \in KeyKinds, NEW k \in Keys
    PROVE  /\ WithKey(keys, kind, k) \in [KeyKinds -> Keys \union {None}]
           /\ WithKey(keys, kind, k)[kind] = k
           /\ \A c \in KeyKinds : c # kind => WithKey(keys, kind, k)[c] = keys[c]
BY DEF WithKey

LEMMA KeyedSound ==
    ASSUME NEW acc, NEW prof, NEW bn, NEW dr, RowsSound(acc, prof, bn, dr),
           NEW rs, NEW kind \in KeyKinds, NEW k \in Keys,
           \A r \in DOMAIN prof \intersect rs, u \in DOMAIN acc :
                acc[u].email = prof[r].email => u \in dr[k]
    PROVE  RowsSound(acc, Keyed(prof, rs, kind, k), bn, dr)
<1> DEFINE pr == Keyed(prof, rs, kind, k)
<1>0. /\ AccountsSound(acc, bn)
      /\ ProfilesSound(acc, prof)
      /\ KeysFounded(acc, prof, dr)
    BY DEF RowsSound
<1>1. \A r \in DOMAIN prof : prof[r] \in Profile BY <1>0 DEF ProfilesSound
<1>2. DOMAIN pr = DOMAIN prof BY DEF Keyed
<1>3. \A r \in DOMAIN prof : r \notin rs => pr[r] = prof[r] BY DEF Keyed
<1>4. ASSUME NEW r \in DOMAIN prof, r \in rs
      PROVE  /\ pr[r] \in Profile /\ pr[r].email = prof[r].email
             /\ pr[r].keys = WithKey(prof[r].keys, kind, k)
  <2>1. pr[r] = [prof[r] EXCEPT !.keys = WithKey(prof[r].keys, kind, k)] BY <1>4 DEF Keyed
  <2>2. prof[r].keys \in [KeyKinds -> Keys \union {None}] BY <1>1 DEF Profile
  <2>3. WithKey(prof[r].keys, kind, k) \in [KeyKinds -> Keys \union {None}] BY <2>2, KeySound
  <2> HIDE DEF pr
  <2> QED BY <1>1, <2>1, <2>3 DEF Profile
<1>5. pr \in [DOMAIN pr -> Profile]
  <2>1. \A r \in DOMAIN prof : pr[r] \in Profile BY <1>1, <1>3, <1>4
  <2>2. pr = [r \in DOMAIN prof |-> pr[r]] BY DEF Keyed
  <2> HIDE DEF pr
  <2> QED BY <1>2, <2>1, <2>2
<1> HIDE DEF pr
<1>6. ProfilesSound(acc, pr)
  <2>1. \A r \in DOMAIN prof : pr[r].email = prof[r].email BY <1>3, <1>4
  <2> QED BY <1>0, <1>2, <1>5, <2>1 DEF ProfilesSound
<1>7. KeysFounded(acc, pr, dr)
  <2> SUFFICES ASSUME NEW r \in DOMAIN pr, NEW c \in KeyKinds, NEW u \in DOMAIN acc,
                      pr[r].keys[c] # None, acc[u].email = pr[r].email
               PROVE  u \in dr[pr[r].keys[c]]
      BY DEF KeysFounded
  <2>1. CASE r \notin rs BY <1>0, <1>2, <1>3, <2>1 DEF KeysFounded
  <2>2. CASE r \in rs
    <3>1. /\ pr[r].email = prof[r].email /\ pr[r].keys = WithKey(prof[r].keys, kind, k)
          /\ r \in DOMAIN prof
        BY <1>2, <1>4, <2>2
    <3>2. prof[r].keys \in [KeyKinds -> Keys \union {None}] BY <1>1, <3>1 DEF Profile
    <3>3. CASE c = kind BY <2>2, <3>1, <3>2, <3>3, KeySound
    <3>4. CASE c # kind
      <4>1. pr[r].keys[c] = prof[r].keys[c] BY <3>1, <3>2, <3>4, KeySound
      <4> QED BY <1>0, <3>1, <4>1 DEF KeysFounded
    <3> QED BY <3>3, <3>4
  <2> QED BY <2>1, <2>2
<1> QED BY <1>0, <1>6, <1>7 DEF RowsSound, pr

LEMMA AddedSound ==
    ASSUME NEW acc, NEW prof, NEW bn, NEW dr, RowsSound(acc, prof, bn, dr),
           NEW row \in Rows \ DOMAIN prof, NEW e, NEW kind \in KeyKinds, NEW k \in Keys,
           \E u \in DOMAIN acc : acc[u].email = e,
           \A u \in DOMAIN acc : acc[u].email = e => u \in dr[k]
    PROVE  RowsSound(acc, Added(prof, row, e, kind, k), bn, dr)
<1> DEFINE pr == Added(prof, row, e, kind, k)
<1>0. /\ AccountsSound(acc, bn)
      /\ ProfilesSound(acc, prof)
      /\ KeysFounded(acc, prof, dr)
    BY DEF RowsSound
<1>1. /\ DOMAIN pr = DOMAIN prof \union {row}
      /\ pr[row] = [email |-> e, keys |-> WithKey(NoKeys, kind, k)]
      /\ \A r \in DOMAIN prof : r # row /\ pr[r] = prof[r]
    BY DEF Added, WithKey
<1>2. NoKeys \in [KeyKinds -> Keys \union {None}] BY DEF NoKeys
<1>3. e \in Emails BY <1>0 DEF AccountsSound, Account
<1>4. WithKey(NoKeys, kind, k) \in [KeyKinds -> Keys \union {None}] BY <1>2, KeySound
<1>5. pr[row] \in Profile /\ pr[row].email = e /\ pr[row].keys = WithKey(NoKeys, kind, k)
    BY <1>1, <1>3, <1>4 DEF Profile
<1>6. \A r \in DOMAIN pr : pr[r] \in Profile BY <1>0, <1>1, <1>5 DEF ProfilesSound
<1>7. pr = [r \in DOMAIN pr |-> pr[r]] BY DEF Added
<1> HIDE DEF pr
<1>8. ProfilesSound(acc, pr)
  <2>1. pr \in [DOMAIN pr -> Profile] BY <1>6, <1>7
  <2>2. DOMAIN pr \subseteq Rows BY <1>0, <1>1 DEF ProfilesSound
  <2>3. \A r \in DOMAIN pr : \E u \in DOMAIN acc : acc[u].email = pr[r].email
      BY <1>0, <1>1, <1>5 DEF ProfilesSound
  <2> QED BY <2>1, <2>2, <2>3 DEF ProfilesSound
<1>9. KeysFounded(acc, pr, dr)
  <2> SUFFICES ASSUME NEW r \in DOMAIN pr, NEW c \in KeyKinds, NEW u \in DOMAIN acc,
                      pr[r].keys[c] # None, acc[u].email = pr[r].email
               PROVE  u \in dr[pr[r].keys[c]]
      BY DEF KeysFounded
  <2>1. CASE r # row BY <1>0, <1>1, <2>1 DEF KeysFounded
  <2>2. CASE r = row
    <3>1. c = kind
      <4>1. ASSUME c # kind PROVE FALSE
        <5>1. WithKey(NoKeys, kind, k)[c] = NoKeys[c] BY <1>2, <4>1, KeySound
        <5>2. NoKeys[c] = None BY DEF NoKeys
        <5> QED BY <1>5, <2>2, <5>1, <5>2
      <4> QED BY <4>1
    <3>2. pr[r].keys[c] = k BY <1>2, <1>5, <2>2, <3>1, KeySound
    <3> QED BY <1>5, <2>2, <3>2
  <2> QED BY <2>1, <2>2
<1> QED BY <1>0, <1>8, <1>9 DEF RowsSound, pr

(***************************************************************************)
(* Sessions and requests.                                                  *)
(***************************************************************************)
\* A session names an account that has been made, or one of the external directory (which
\* has no two-factor settings), or nobody; the session of an administrator names one who
\* has been administrator.
SessionSound(s, bn, ad) ==
    /\ s \in Session
    /\ s.id \in bn \union External \union {None}
    /\ s.id \in External => s.tfa = None
    /\ s.admin => s.id \in ad

\* The steps a request of each kind goes through.
Course(q) ==
    /\ q.pc \in Kinds => q.pc = q.kind
    /\ q.pc = "insert" => q.kind \in {"signUp", "adminCreate", "apiCreate"}
    /\ q.pc \in {"find", "write"} => q.kind \in {"signUp", "passwordRequest", "changeEmail", "avoid"}
    /\ q.pc = "mailAgain" => q.kind = "resend"
    /\ q.pc = "save" => q.kind \in {"adminEdit", "apiUpdate"}
    /\ q.pc \in {"tokenPage", "tfaVerify"} => q.kind = "login"
    /\ q.pc = "flush" => q.kind \in {"login", "disable2fa"}
    /\ q.pc \in {"promote", "demote"} => q.kind = "admins"
    /\ q.pc = "destroy" => q.kind \in {"cancel", "adminDelete"}
    /\ q.pc \in {"local", "saveLocal"} => q.kind = "externalLogin"
    /\ q.pc = "enable" => q.kind = "activate"
    /\ q.pc = "setPassword" => q.kind = "reset"
    /\ q.pc = "setOwnPassword" => q.kind = "changePassword"
    /\ q.pc = "emailCheck" => q.kind = "changeEmail"
    /\ q.pc = "setEmail" => q.kind = "emailVerify"

\* What a request of each kind carries.
Fields(q) ==
    /\ q.kind \in {"signUp", "adminCreate", "apiCreate"} => q.email \in Emails /\ q.word \in Passwords
    /\ q.kind \in {"passwordRequest", "resend", "avoid"} => q.email \in Emails
    /\ q.kind = "login" => q.at \in Browsers
    /\ q.kind = "externalLogin" => q.who \in External /\ q.email \in Emails
    /\ q.kind \in {"reset", "changePassword", "adminPassword"} => q.word \in Passwords
    /\ q.kind = "disable2fa" => q.tfa = None
    /\ q.kind \in {"emailVerify", "changeEmail", "adminEdit", "apiUpdate"} => q.new \in Emails
    /\ q.kind \in {"adminEdit", "apiUpdate"} => q.copy \in Account
    /\ q.kind = "adminEdit" /\ q.who \in External => q.copy.tfa = None
    /\ q.kind \in {"activate", "reset", "disable2fa", "emailVerify"} => q.key \in Keys
    /\ q.pc \in {"find", "write", "mailAgain"} => q.email \in Emails /\ q.key \in Keys
    /\ q.pc = "setEmail" => q.email \in Emails
    /\ q.pc = "flush" /\ q.who \in External => q.tfa = None

\* What gives a request its right to change an account.
Entitled(q, dr) ==
    /\ q.kind \in SettingsKinds \union AdminKinds \union ApiKinds => q.sess # None
    /\ q.kind \in AdminKinds \union {"apiCreate"} => q.sess.admin
    /\ q.kind \in {"apiUpdate", "apiDelete"} => q.sess.id = q.who \/ q.sess.admin
    /\ q.pc = "destroy" /\ q.kind = "cancel" => q.who = q.sess.id
    /\ q.pc \in {"enable", "setPassword"} => q.who \in dr[q.key]

RequestSound(q, bn, ad, dr) ==
    /\ q \in Request
    /\ q.sess # None => SessionSound(q.sess, bn, ad)
    /\ q.pc # "idle" => Course(q) /\ Fields(q) /\ Entitled(q, dr)

LEMMA NoRequestSound == ASSUME NEW bn, NEW ad, NEW dr PROVE RequestSound(NoRequest, bn, ad, dr)
<1>1. NoRequest \in Request
    BY DEF NoRequest, Request, Steps, Kinds, SettingsKinds, Tfa
<1> QED BY <1>1 DEF RequestSound, NoRequest

\* What has been drawn, who has been administrator and whom keys were drawn for only grow.
LEMMA SessionStaysSound ==
    ASSUME NEW s, NEW bn, NEW ad, NEW bn2, NEW ad2, SessionSound(s, bn, ad),
           bn \subseteq bn2, ad \subseteq ad2
    PROVE  SessionSound(s, bn2, ad2)
BY DEF SessionSound

LEMMA RequestStaysSound ==
    ASSUME NEW q, NEW bn, NEW ad, NEW dr, NEW bn2, NEW ad2, NEW dr2, RequestSound(q, bn, ad, dr),
           bn \subseteq bn2, ad \subseteq ad2, Grows(dr, dr2)
    PROVE  RequestSound(q, bn2, ad2, dr2)
<1>1. q.sess # None => SessionSound(q.sess, bn2, ad2) BY SessionStaysSound DEF RequestSound
<1>2. q.pc # "idle" => Entitled(q, dr2)
  <2> SUFFICES ASSUME q.pc # "idle" PROVE Entitled(q, dr2) OBVIOUS
  <2>1. Course(q) /\ Fields(q) /\ Entitled(q, dr) BY DEF RequestSound
  <2>2. q.pc \in {"enable", "setPassword"} => q.key \in Keys BY <2>1 DEF Course, Fields
  <2>3. q.pc \in {"enable", "setPassword"} => q.who \in dr2[q.key] BY <2>1, <2>2 DEF Entitled, Grows
  <2> QED BY <2>1, <2>3 DEF Entitled
<1> QED BY <1>1, <1>2 DEF RequestSound

\* A copy that a save outdates, if it differs from what is saved.
OutdatedIn(acc, s, u, t) == IF s # None /\ s.id = u /\ u \in DOMAIN acc /\ t # acc[u].tfa
                            THEN [s EXCEPT !.current = FALSE] ELSE s
LEMMA OutdatedIsIn == \A s, u, t : Outdated(s, u, t) = OutdatedIn(account, s, u, t)
BY DEF Outdated, OutdatedIn, Live

\* An outdated copy is as sound as it was.
LEMMA OutdatedSound ==
    ASSUME NEW s \in Session \union {None}, NEW acc, NEW u, NEW t, NEW bn, NEW ad,
           s # None => SessionSound(s, bn, ad)
    PROVE  /\ OutdatedIn(acc, s, u, t) \in Session \union {None}
           /\ OutdatedIn(acc, s, u, t) # None => SessionSound(OutdatedIn(acc, s, u, t), bn, ad)
<1>1. CASE OutdatedIn(acc, s, u, t) = s BY <1>1
<1>2. CASE s # None /\ OutdatedIn(acc, s, u, t) = [s EXCEPT !.current = FALSE]
  <2>1. s \in Session BY <1>2
  <2>2. [s EXCEPT !.current = FALSE] \in Session BY <2>1 DEF Session
  <2>3. SessionSound([s EXCEPT !.current = FALSE], bn, ad)
      BY <1>2, <2>1, <2>2 DEF SessionSound, Session
  <2> QED BY <1>2, <2>2, <2>3
<1> QED BY <1>1, <1>2 DEF OutdatedIn

LEMMA OutdatedRequestSound ==
    ASSUME NEW q, NEW acc, NEW u, NEW t, NEW bn, NEW ad, NEW dr, RequestSound(q, bn, ad, dr)
    PROVE  RequestSound([q EXCEPT !.sess = OutdatedIn(acc, @, u, t)], bn, ad, dr)
<1>1. PICK s : s = OutdatedIn(acc, q.sess, u, t) OBVIOUS
<1>2. PICK n : n = [q EXCEPT !.sess = s] OBVIOUS
<1>3. q \in Request /\ q.sess \in Session \union {None} BY DEF RequestSound, Request
<1>4. s \in Session \union {None} /\ (s # None => SessionSound(s, bn, ad))
    BY <1>1, <1>3, OutdatedSound DEF RequestSound
<1>5. n \in Request BY <1>2, <1>3, <1>4 DEF Request
<1>6. /\ n.sess = s /\ n.pc = q.pc /\ n.kind = q.kind /\ n.at = q.at /\ n.who = q.who
      /\ n.email = q.email /\ n.new = q.new /\ n.word = q.word /\ n.key = q.key
      /\ n.tfa = q.tfa /\ n.copy = q.copy
    BY <1>2, <1>3 DEF Request
<1>7. \/ s = q.sess
      \/ q.sess # None /\ s = [q.sess EXCEPT !.current = FALSE]
    BY <1>1 DEF OutdatedIn
<1>8. q.sess # None => s # None /\ s.id = q.sess.id /\ s.admin = q.sess.admin
  <2> SUFFICES ASSUME q.sess # None PROVE s # None /\ s.id = q.sess.id /\ s.admin = q.sess.admin
      OBVIOUS
  <2>1. CASE s = q.sess BY <2>1
  <2>2. CASE s = [q.sess EXCEPT !.current = FALSE]
    <3>1. q.sess \in Session BY <1>3
    <3>2. s \in Session /\ s.id = q.sess.id /\ s.admin = q.sess.admin BY <2>2, <3>1 DEF Session
    <3> QED BY <3>2, AccountsNoRecordAssumption
  <2> QED BY <1>7, <2>1, <2>2
<1>9. q.pc # "idle" => Course(n) /\ Fields(n) /\ Entitled(n, dr)
  <2> SUFFICES ASSUME q.pc # "idle" PROVE Course(n) /\ Fields(n) /\ Entitled(n, dr) OBVIOUS
  <2>1. Course(q) /\ Fields(q) /\ Entitled(q, dr) BY DEF RequestSound
  <2>2. Course(n) BY <1>6, <2>1 DEF Course
  <2>3. Fields(n) BY <1>6, <2>1 DEF Fields
  <2>4. Entitled(n, dr) BY <1>6, <1>8, <2>1 DEF Entitled, SettingsKinds, AdminKinds, ApiKinds
  <2> QED BY <2>2, <2>3, <2>4
<1> QED BY <1>1, <1>2, <1>4, <1>5, <1>6, <1>9 DEF RequestSound

\* The steps that only move a request on.
PlainSteps ==
    {<<"find", "write">>, <<"signUp", "insert">>, <<"adminCreate", "insert">>,
     <<"apiCreate", "insert">>, <<"externalLogin", "local">>, <<"local", "saveLocal">>,
     <<"changePassword", "setOwnPassword">>, <<"changeEmail", "emailCheck">>,
     <<"adminEdit", "save">>, <<"apiUpdate", "save">>, <<"adminDelete", "destroy">>,
     <<"promote", "demote">>}
LEMMA PlainStepSound ==
    ASSUME NEW q, NEW bn, NEW ad, NEW dr, RequestSound(q, bn, ad, dr),
           NEW pc, <<q.pc, pc>> \in PlainSteps
    PROVE  RequestSound([q EXCEPT !.pc = pc], bn, ad, dr)
<1>1. PICK n : n = [q EXCEPT !.pc = pc] OBVIOUS
<1>2. q \in Request /\ Course(q) /\ Fields(q) /\ Entitled(q, dr) /\ q.pc # "idle"
    BY DEF RequestSound, PlainSteps
<1>3. pc \in Steps BY DEF PlainSteps, Steps, Kinds
<1>4. n \in Request BY <1>1, <1>2, <1>3 DEF Request
<1>5. /\ n.sess = q.sess /\ n.pc = pc /\ n.kind = q.kind /\ n.at = q.at /\ n.who = q.who
      /\ n.email = q.email /\ n.new = q.new /\ n.word = q.word /\ n.key = q.key
      /\ n.tfa = q.tfa /\ n.copy = q.copy
    BY <1>1, <1>2 DEF Request
<1>6. Course(n)
    BY <1>2, <1>5 DEF Course, PlainSteps, Kinds, VisitorKinds, SettingsKinds, AdminKinds, ApiKinds
<1>7. Fields(n)
    BY <1>2, <1>5 DEF Course, Fields, PlainSteps, Kinds, VisitorKinds, SettingsKinds, AdminKinds, ApiKinds
<1>8. Entitled(n, dr)
    BY <1>2, <1>5 DEF Course, Entitled, PlainSteps, Kinds, VisitorKinds, SettingsKinds, AdminKinds, ApiKinds
<1> QED BY <1>1, <1>4, <1>5, <1>6, <1>7, <1>8 DEF RequestSound

\* The steps that find an account, and those that draw a key for one.
FoundSteps == {<<"login", "tokenPage">>, <<"activate", "enable">>, <<"reset", "setPassword">>,
               <<"cancel", "destroy">>}
DrawnSteps == {<<"insert", "find">>, <<"passwordRequest", "find">>, <<"avoid", "find">>,
               <<"resend", "mailAgain">>, <<"emailCheck", "find">>}

LEMMA FoundStepSound ==
    ASSUME NEW q, NEW bn, NEW ad, NEW dr, RequestSound(q, bn, ad, dr),
           NEW pc, NEW u \in Accounts,
           <<q.pc, pc>> \in FoundSteps,
           pc \in {"enable", "setPassword"} => u \in dr[q.key],
           pc = "destroy" => u = q.sess.id
    PROVE  RequestSound([q EXCEPT !.pc = pc, !.who = u], bn, ad, dr)
<1>1. PICK n : n = [q EXCEPT !.pc = pc, !.who = u] OBVIOUS
<1>2. q \in Request /\ Course(q) /\ Fields(q) /\ Entitled(q, dr) /\ q.pc # "idle"
    BY DEF RequestSound, FoundSteps
<1>0. pc \in Steps BY DEF Steps, Kinds, FoundSteps
<1>3. n \in Request BY <1>0, <1>1, <1>2 DEF Request
<1>4. /\ n.sess = q.sess /\ n.pc = pc /\ n.kind = q.kind /\ n.at = q.at
      /\ n.who = u /\ n.email = q.email /\ n.new = q.new /\ n.word = q.word
      /\ n.key = q.key /\ n.tfa = q.tfa /\ n.copy = q.copy
    BY <1>1, <1>2 DEF Request
<1>5. Course(n)
    BY <1>2, <1>4 DEF Course, FoundSteps, Kinds, VisitorKinds, SettingsKinds, AdminKinds, ApiKinds
<1>6. Fields(n)
    BY <1>2, <1>4 DEF Course, Fields, FoundSteps, Kinds, VisitorKinds, SettingsKinds, AdminKinds, ApiKinds
<1>7. Entitled(n, dr)
    BY <1>2, <1>4 DEF Course, Fields, Entitled, FoundSteps, Kinds, VisitorKinds, SettingsKinds, AdminKinds, ApiKinds
<1>8. n.sess # None => SessionSound(n.sess, bn, ad) BY <1>4 DEF RequestSound
<1> QED BY <1>1, <1>3, <1>4, <1>5, <1>6, <1>7, <1>8 DEF RequestSound


LEMMA DrawnStepSound ==
    ASSUME NEW q, NEW bn, NEW ad, NEW dr, RequestSound(q, bn, ad, dr),
           NEW pc, NEW u \in Accounts, NEW k \in Keys, NEW e \in Emails,
           <<q.pc, pc>> \in DrawnSteps, q.pc = "insert" => q.kind = "signUp"
    PROVE  RequestSound([q EXCEPT !.pc = pc, !.who = u, !.key = k, !.email = e], bn, ad, dr)
<1>1. PICK n : n = [q EXCEPT !.pc = pc, !.who = u, !.key = k, !.email = e] OBVIOUS
<1>2. q \in Request /\ Course(q) /\ Fields(q) /\ Entitled(q, dr) /\ q.pc # "idle"
    BY DEF RequestSound, DrawnSteps
<1>0. pc \in Steps BY DEF Steps, Kinds, DrawnSteps
<1>3. n \in Request BY <1>0, <1>1, <1>2 DEF Request
<1>4. /\ n.sess = q.sess /\ n.pc = pc /\ n.kind = q.kind /\ n.at = q.at
      /\ n.who = u /\ n.email = e /\ n.new = q.new /\ n.word = q.word
      /\ n.key = k /\ n.tfa = q.tfa /\ n.copy = q.copy
    BY <1>1, <1>2 DEF Request
<1>5. Course(n)
    BY <1>2, <1>4 DEF Course, DrawnSteps, Kinds, VisitorKinds, SettingsKinds, AdminKinds, ApiKinds
<1>6. Fields(n)
    BY <1>2, <1>4 DEF Course, Fields, DrawnSteps, Kinds, VisitorKinds, SettingsKinds, AdminKinds, ApiKinds
<1>7. Entitled(n, dr)
    BY <1>2, <1>4 DEF Course, Fields, Entitled, DrawnSteps, Kinds, VisitorKinds, SettingsKinds, AdminKinds, ApiKinds
<1>8. n.sess # None => SessionSound(n.sess, bn, ad) BY <1>4 DEF RequestSound
<1> QED BY <1>1, <1>3, <1>4, <1>5, <1>6, <1>7, <1>8 DEF RequestSound


LEMMA WriteStepSound ==
    ASSUME NEW q, NEW bn, NEW ad, NEW dr, RequestSound(q, bn, ad, dr),
           NEW r \in Rows \union {None},
           q.pc = "find"
    PROVE  RequestSound([q EXCEPT !.pc = "write", !.row = r], bn, ad, dr)
<1>1. PICK n : n = [q EXCEPT !.pc = "write", !.row = r] OBVIOUS
<1>2. q \in Request /\ Course(q) /\ Fields(q) /\ Entitled(q, dr) /\ q.pc # "idle"
    BY DEF RequestSound
<1>0. "write" \in Steps BY DEF Steps, Kinds
<1>3. n \in Request BY <1>0, <1>1, <1>2 DEF Request
<1>4. /\ n.sess = q.sess /\ n.pc = "write" /\ n.kind = q.kind /\ n.at = q.at
      /\ n.who = q.who /\ n.email = q.email /\ n.new = q.new /\ n.word = q.word
      /\ n.key = q.key /\ n.tfa = q.tfa /\ n.copy = q.copy
    BY <1>1, <1>2 DEF Request
<1>5. Course(n)
    BY <1>2, <1>4 DEF Course, Kinds, VisitorKinds, SettingsKinds, AdminKinds, ApiKinds
<1>6. Fields(n)
    BY <1>2, <1>4 DEF Course, Fields, Kinds, VisitorKinds, SettingsKinds, AdminKinds, ApiKinds
<1>7. Entitled(n, dr)
    BY <1>2, <1>4 DEF Course, Fields, Entitled, Kinds, VisitorKinds, SettingsKinds, AdminKinds, ApiKinds
<1>8. n.sess # None => SessionSound(n.sess, bn, ad) BY <1>4 DEF RequestSound
<1> QED BY <1>1, <1>3, <1>4, <1>5, <1>6, <1>7, <1>8 DEF RequestSound


LEMMA TokenStepSound ==
    ASSUME NEW q, NEW bn, NEW ad, NEW dr, RequestSound(q, bn, ad, dr),
           NEW flag \in BOOLEAN, NEW t \in Tfa, NEW c \in Session \union {None},
           q.pc = "tokenPage", c # None => SessionSound(c, bn, ad)
    PROVE  RequestSound([q EXCEPT !.pc = "tfaVerify", !.flag = flag, !.sess = c, !.tfa = t], bn, ad, dr)
<1>1. PICK n : n = [q EXCEPT !.pc = "tfaVerify", !.flag = flag, !.sess = c, !.tfa = t] OBVIOUS
<1>2. q \in Request /\ Course(q) /\ Fields(q) /\ Entitled(q, dr) /\ q.pc # "idle"
    BY DEF RequestSound
<1>0. "tfaVerify" \in Steps BY DEF Steps, Kinds
<1>3. n \in Request
  <2>1. PICK m : m = [q EXCEPT !.pc = "tfaVerify", !.sess = c, !.tfa = t] OBVIOUS
  <2>2. m \in Request BY <1>0, <1>2, <2>1 DEF Request
  <2>3. n = [m EXCEPT !.flag = flag] BY <1>1, <1>2, <2>1 DEF Request
  <2> QED BY <2>2, <2>3 DEF Request
<1>4. /\ n.sess = c /\ n.pc = "tfaVerify" /\ n.kind = q.kind /\ n.at = q.at
      /\ n.who = q.who /\ n.email = q.email /\ n.new = q.new /\ n.word = q.word
      /\ n.key = q.key /\ n.tfa = t /\ n.copy = q.copy
    BY <1>1, <1>2 DEF Request
<1>5. Course(n)
    BY <1>2, <1>4 DEF Course, Kinds, VisitorKinds, SettingsKinds, AdminKinds, ApiKinds
<1>6. Fields(n)
    BY <1>2, <1>4 DEF Course, Fields, Kinds, VisitorKinds, SettingsKinds, AdminKinds, ApiKinds
<1>7. Entitled(n, dr)
    BY <1>2, <1>4 DEF Course, Fields, Entitled, Kinds, VisitorKinds, SettingsKinds, AdminKinds, ApiKinds
<1>8. n.sess # None => SessionSound(n.sess, bn, ad) BY <1>4 DEF RequestSound
<1> QED BY <1>1, <1>3, <1>4, <1>5, <1>6, <1>7, <1>8 DEF RequestSound


LEMMA FlushStepSound ==
    ASSUME NEW q, NEW bn, NEW ad, NEW dr, RequestSound(q, bn, ad, dr),
           NEW t \in Tfa,
           q.pc = "tfaVerify", q.who \in External => t = None
    PROVE  RequestSound([q EXCEPT !.pc = "flush", !.tfa = t, !.sess = None], bn, ad, dr)
<1>1. PICK n : n = [q EXCEPT !.pc = "flush", !.tfa = t, !.sess = None] OBVIOUS
<1>2. q \in Request /\ Course(q) /\ Fields(q) /\ Entitled(q, dr) /\ q.pc # "idle"
    BY DEF RequestSound
<1>0. "flush" \in Steps BY DEF Steps, Kinds
<1>3. n \in Request BY <1>0, <1>1, <1>2 DEF Request
<1>4. /\ n.sess = None /\ n.pc = "flush" /\ n.kind = q.kind /\ n.at = q.at
      /\ n.who = q.who /\ n.email = q.email /\ n.new = q.new /\ n.word = q.word
      /\ n.key = q.key /\ n.tfa = t /\ n.copy = q.copy
    BY <1>1, <1>2 DEF Request
<1>5. Course(n)
    BY <1>2, <1>4 DEF Course, Kinds, VisitorKinds, SettingsKinds, AdminKinds, ApiKinds
<1>6. Fields(n)
    BY <1>2, <1>4 DEF Course, Fields, Kinds, VisitorKinds, SettingsKinds, AdminKinds, ApiKinds
<1>7. Entitled(n, dr)
    BY <1>2, <1>4 DEF Course, Fields, Entitled, Kinds, VisitorKinds, SettingsKinds, AdminKinds, ApiKinds
<1>8. n.sess # None => SessionSound(n.sess, bn, ad) BY <1>4 DEF RequestSound
<1> QED BY <1>1, <1>3, <1>4, <1>5, <1>6, <1>7, <1>8 DEF RequestSound


LEMMA DisableStepSound ==
    ASSUME NEW q, NEW bn, NEW ad, NEW dr, RequestSound(q, bn, ad, dr),
           NEW u \in Accounts,
           q.pc = "disable2fa"
    PROVE  RequestSound([q EXCEPT !.pc = "flush", !.who = u, !.sess = None], bn, ad, dr)
<1>1. PICK n : n = [q EXCEPT !.pc = "flush", !.who = u, !.sess = None] OBVIOUS
<1>2. q \in Request /\ Course(q) /\ Fields(q) /\ Entitled(q, dr) /\ q.pc # "idle"
    BY DEF RequestSound
<1>0. "flush" \in Steps BY DEF Steps, Kinds
<1>3. n \in Request BY <1>0, <1>1, <1>2 DEF Request
<1>4. /\ n.sess = None /\ n.pc = "flush" /\ n.kind = q.kind /\ n.at = q.at
      /\ n.who = u /\ n.email = q.email /\ n.new = q.new /\ n.word = q.word
      /\ n.key = q.key /\ n.tfa = q.tfa /\ n.copy = q.copy
    BY <1>1, <1>2 DEF Request
<1>5. Course(n)
    BY <1>2, <1>4 DEF Course, Kinds, VisitorKinds, SettingsKinds, AdminKinds, ApiKinds
<1>6. Fields(n)
    BY <1>2, <1>4 DEF Course, Fields, Kinds, VisitorKinds, SettingsKinds, AdminKinds, ApiKinds
<1>7. Entitled(n, dr)
    BY <1>2, <1>4 DEF Course, Fields, Entitled, Kinds, VisitorKinds, SettingsKinds, AdminKinds, ApiKinds
<1>8. n.sess # None => SessionSound(n.sess, bn, ad) BY <1>4 DEF RequestSound
<1> QED BY <1>1, <1>3, <1>4, <1>5, <1>6, <1>7, <1>8 DEF RequestSound


LEMMA SetEmailStepSound ==
    ASSUME NEW q, NEW bn, NEW ad, NEW dr, RequestSound(q, bn, ad, dr),
           NEW e \in Emails,
           q.pc = "emailVerify"
    PROVE  RequestSound([q EXCEPT !.pc = "setEmail", !.email = e], bn, ad, dr)
<1>1. PICK n : n = [q EXCEPT !.pc = "setEmail", !.email = e] OBVIOUS
<1>2. q \in Request /\ Course(q) /\ Fields(q) /\ Entitled(q, dr) /\ q.pc # "idle"
    BY DEF RequestSound
<1>0. "setEmail" \in Steps BY DEF Steps, Kinds
<1>3. n \in Request BY <1>0, <1>1, <1>2 DEF Request
<1>4. /\ n.sess = q.sess /\ n.pc = "setEmail" /\ n.kind = q.kind /\ n.at = q.at
      /\ n.who = q.who /\ n.email = e /\ n.new = q.new /\ n.word = q.word
      /\ n.key = q.key /\ n.tfa = q.tfa /\ n.copy = q.copy
    BY <1>1, <1>2 DEF Request
<1>5. Course(n)
    BY <1>2, <1>4 DEF Course, Kinds, VisitorKinds, SettingsKinds, AdminKinds, ApiKinds
<1>6. Fields(n)
    BY <1>2, <1>4 DEF Course, Fields, Kinds, VisitorKinds, SettingsKinds, AdminKinds, ApiKinds
<1>7. Entitled(n, dr)
    BY <1>2, <1>4 DEF Course, Fields, Entitled, Kinds, VisitorKinds, SettingsKinds, AdminKinds, ApiKinds
<1>8. n.sess # None => SessionSound(n.sess, bn, ad) BY <1>4 DEF RequestSound
<1> QED BY <1>1, <1>3, <1>4, <1>5, <1>6, <1>7, <1>8 DEF RequestSound


LEMMA PromoteStepSound ==
    ASSUME NEW q, NEW bn, NEW ad, NEW dr, RequestSound(q, bn, ad, dr),
           NEW form \in SUBSET Accounts, NEW drop \in SUBSET Accounts,
           q.pc = "admins"
    PROVE  RequestSound([q EXCEPT !.pc = "promote", !.form = form, !.drop = drop], bn, ad, dr)
<1>1. PICK n : n = [q EXCEPT !.pc = "promote", !.form = form, !.drop = drop] OBVIOUS
<1>2. q \in Request /\ Course(q) /\ Fields(q) /\ Entitled(q, dr) /\ q.pc # "idle"
    BY DEF RequestSound
<1>0. "promote" \in Steps BY DEF Steps, Kinds
<1>3. n \in Request BY <1>0, <1>1, <1>2 DEF Request
<1>4. /\ n.sess = q.sess /\ n.pc = "promote" /\ n.kind = q.kind /\ n.at = q.at
      /\ n.who = q.who /\ n.email = q.email /\ n.new = q.new /\ n.word = q.word
      /\ n.key = q.key /\ n.tfa = q.tfa /\ n.copy = q.copy
    BY <1>1, <1>2 DEF Request
<1>5. Course(n)
    BY <1>2, <1>4 DEF Course, Kinds, VisitorKinds, SettingsKinds, AdminKinds, ApiKinds
<1>6. Fields(n)
    BY <1>2, <1>4 DEF Course, Fields, Kinds, VisitorKinds, SettingsKinds, AdminKinds, ApiKinds
<1>7. Entitled(n, dr)
    BY <1>2, <1>4 DEF Course, Fields, Entitled, Kinds, VisitorKinds, SettingsKinds, AdminKinds, ApiKinds
<1>8. n.sess # None => SessionSound(n.sess, bn, ad) BY <1>4 DEF RequestSound
<1> QED BY <1>1, <1>3, <1>4, <1>5, <1>6, <1>7, <1>8 DEF RequestSound

(***************************************************************************)
(* Copies of the two-factor settings.                                      *)
(***************************************************************************)
\* The saves that are on their way.
Flushes(rs) == {<<rs[p].who, rs[p].tfa>> : p \in {q \in Requests : rs[q].pc = "flush"}}

\* A copy that nobody has outdated is the row's, or on its way to be.
CopyFresh(s, acc, fl, ls) ==
    (s.current /\ s.id \in DOMAIN acc \ ls) => (s.tfa = acc[s.id].tfa \/ <<s.id, s.tfa>> \in fl)

\* Accounts keep their settings; one that is made is new, or has none.
TfaKept(acc, acc2, bn) ==
    \A u \in DOMAIN acc2 :
        \/ u \in DOMAIN acc /\ acc2[u].tfa = acc[u].tfa
        \/ u \notin DOMAIN acc /\ u \in External /\ acc2[u].tfa = None
        \/ u \notin DOMAIN acc /\ u \notin External /\ u \notin bn

LEMMA FreshStays ==
    ASSUME NEW s, NEW acc, NEW acc2, NEW fl, NEW fl2, NEW ls, NEW ls2, NEW bn, NEW ad,
           SessionSound(s, bn, ad), CopyFresh(s, acc, fl, ls),
           TfaKept(acc, acc2, bn), DOMAIN acc2 \subseteq Accounts, fl \subseteq fl2, ls \subseteq ls2
    PROVE  CopyFresh(s, acc2, fl2, ls2)
<1> SUFFICES ASSUME s.current, s.id \in DOMAIN acc2 \ ls2
             PROVE  s.tfa = acc2[s.id].tfa \/ <<s.id, s.tfa>> \in fl2
    BY DEF CopyFresh
<1>1. s.id # None BY AccountsNoneAssumption
<1>2. s.id \in bn \union External /\ (s.id \in External => s.tfa = None) BY <1>1 DEF SessionSound
<1>3. CASE s.id \in DOMAIN acc /\ acc2[s.id].tfa = acc[s.id].tfa BY <1>3 DEF CopyFresh
<1>4. CASE s.id \notin DOMAIN acc /\ s.id \in External /\ acc2[s.id].tfa = None BY <1>2, <1>4
<1>5. CASE s.id \notin DOMAIN acc /\ s.id \notin External /\ s.id \notin bn BY <1>2, <1>5
<1> QED BY <1>3, <1>4, <1>5 DEF TfaKept

\* When the process dies, the saves on their way are lost.
LEMMA FreshOrLost ==
    ASSUME NEW s, NEW acc, NEW fl, NEW fl2, NEW ls, NEW ls2,
           CopyFresh(s, acc, fl, ls), ls \subseteq ls2, \A f \in fl : f[1] \in ls2
    PROVE  CopyFresh(s, acc, fl2, ls2)
BY DEF CopyFresh

\* A save outdates the copies that differ from what it saves.
TfaSaved(acc, acc2, u, t) ==
    /\ DOMAIN acc2 = DOMAIN acc
    /\ u \in DOMAIN acc => acc2[u].tfa = t
    /\ \A v \in DOMAIN acc : v # u => acc2[v].tfa = acc[v].tfa

LEMMA FreshOrOutdated ==
    ASSUME NEW s \in Session, NEW acc, NEW acc2, NEW fl, NEW fl2, NEW ls, NEW ls2, NEW u, NEW t,
           CopyFresh(s, acc, fl, ls), TfaSaved(acc, acc2, u, t), ls \subseteq ls2,
           \A f \in fl : f \in fl2 \/ f = <<u, t>>
    PROVE  CopyFresh(OutdatedIn(acc, s, u, t), acc2, fl2, ls2)
<1>1. CASE s # None /\ s.id = u /\ u \in DOMAIN acc /\ t # acc[u].tfa
  <2>1. OutdatedIn(acc, s, u, t) = [s EXCEPT !.current = FALSE] BY <1>1 DEF OutdatedIn
  <2>2. ~[s EXCEPT !.current = FALSE].current BY DEF Session
  <2> QED BY <2>1, <2>2 DEF CopyFresh
<1>2. CASE ~(s # None /\ s.id = u /\ u \in DOMAIN acc /\ t # acc[u].tfa)
  <2>1. OutdatedIn(acc, s, u, t) = s BY <1>2 DEF OutdatedIn
  <2>2. s # None BY AccountsNoRecordAssumption
  <2> SUFFICES ASSUME s.current, s.id \in DOMAIN acc2 \ ls2
               PROVE  s.tfa = acc2[s.id].tfa \/ <<s.id, s.tfa>> \in fl2
      BY <2>1 DEF CopyFresh
  <2>3. s.id \in DOMAIN acc \ ls BY DEF TfaSaved
  <2>4. acc2[s.id].tfa = acc[s.id].tfa
    <3>1. CASE s.id = u BY <1>2, <2>2, <2>3, <3>1 DEF TfaSaved
    <3>2. CASE s.id # u BY <2>3, <3>2 DEF TfaSaved
    <3> QED BY <3>1, <3>2
  <2>5. CASE s.tfa = acc[s.id].tfa BY <2>4, <2>5
  <2>6. CASE <<s.id, s.tfa>> \in fl
    <3>1. CASE <<s.id, s.tfa>> \in fl2 BY <3>1
    <3>2. CASE <<s.id, s.tfa>> = <<u, t>>
      <4>1. s.id = u /\ s.tfa = t BY <3>2
      <4>2. acc2[u].tfa = t BY <2>3, <4>1 DEF TfaSaved
      <4> QED BY <4>1, <4>2
    <3> QED BY <2>6, <3>1, <3>2
  <2> QED BY <2>3, <2>5, <2>6 DEF CopyFresh
<1> QED BY <1>1, <1>2

(***************************************************************************)
(* What browsers and requests hold, and how a step changes it.             *)
(***************************************************************************)
SessionsSound(ck, rs, acc, bn, ad, dr, ls) ==
    /\ ck \in [Browsers -> Session \union {None}]
    /\ rs \in [Requests -> Request]
    /\ \A b \in Browsers : ck[b] # None => /\ SessionSound(ck[b], bn, ad)
                                           /\ CopyFresh(ck[b], acc, Flushes(rs), ls)
    /\ \A p \in Requests : RequestSound(rs[p], bn, ad, dr)
    /\ \A p \in Requests : rs[p].sess # None => CopyFresh(rs[p].sess, acc, Flushes(rs), ls)

\* What a step may leave in a browser: a sound session with a fresh copy.
Held(s, acc, rs, bn, ad, ls) ==
    /\ s \in Session \union {None}
    /\ s # None => SessionSound(s, bn, ad) /\ CopyFresh(s, acc, Flushes(rs), ls)

LEMMA FlushesStay ==
    ASSUME NEW rs \in [Requests -> Request], NEW p \in Requests, NEW n, rs[p].pc # "flush"
    PROVE  Flushes(rs) \subseteq Flushes([rs EXCEPT ![p] = n])
BY DEF Flushes

\* A request moves on, or is answered; what it leaves behind is sound.
LEMMA MoveSound ==
    ASSUME NEW ck, NEW rs, NEW acc, NEW bn, NEW ad, NEW dr, NEW ls,
           SessionsSound(ck, rs, acc, bn, ad, dr, ls),
           NEW ck2 \in [Browsers -> Session \union {None}], NEW rs2, NEW acc2, NEW bn2, NEW ad2,
           NEW dr2, NEW ls2,
           bn \subseteq bn2, ad \subseteq ad2, Grows(dr, dr2), ls \subseteq ls2,
           TfaKept(acc, acc2, bn), DOMAIN acc2 \subseteq Accounts,
           NEW p \in Requests, rs[p].pc # "flush",
           NEW n, RequestSound(n, bn2, ad2, dr2), rs2 = [rs EXCEPT ![p] = n],
           n.sess # None => CopyFresh(n.sess, acc2, Flushes(rs2), ls2),
           \A b \in Browsers : ck2[b] = ck[b] \/ Held(ck2[b], acc2, rs2, bn2, ad2, ls2)
    PROVE  SessionsSound(ck2, rs2, acc2, bn2, ad2, dr2, ls2)
<1>1. Flushes(rs) \subseteq Flushes(rs2) BY FlushesStay DEF SessionsSound
<1>2. rs2 \in [Requests -> Request] BY DEF SessionsSound, RequestSound
<1>3. rs2[p] = n /\ \A q \in Requests : q # p => rs2[q] = rs[q] BY DEF SessionsSound
<1>4. ASSUME NEW b \in Browsers, ck2[b] # None
      PROVE  SessionSound(ck2[b], bn2, ad2) /\ CopyFresh(ck2[b], acc2, Flushes(rs2), ls2)
  <2>1. CASE ck2[b] = ck[b]
    <3>1. SessionSound(ck[b], bn, ad) /\ CopyFresh(ck[b], acc, Flushes(rs), ls)
        BY <1>4, <2>1 DEF SessionsSound
    <3>2. SessionSound(ck[b], bn2, ad2) BY <3>1, SessionStaysSound
    <3>3. CopyFresh(ck[b], acc2, Flushes(rs2), ls2) BY <1>1, <3>1, FreshStays
    <3> QED BY <2>1, <3>2, <3>3
  <2>2. CASE Held(ck2[b], acc2, rs2, bn2, ad2, ls2) BY <1>4, <2>2 DEF Held
  <2> QED BY <2>1, <2>2
<1>5. ASSUME NEW q \in Requests PROVE RequestSound(rs2[q], bn2, ad2, dr2)
  <2>1. CASE q = p BY <1>3, <2>1
  <2>2. CASE q # p
    <3>1. RequestSound(rs[q], bn, ad, dr) BY DEF SessionsSound
    <3>2. RequestSound(rs[q], bn2, ad2, dr2) BY <3>1, RequestStaysSound
    <3> QED BY <1>3, <2>2, <3>2
  <2> QED BY <2>1, <2>2
<1>6. ASSUME NEW q \in Requests, rs2[q].sess # None
      PROVE  CopyFresh(rs2[q].sess, acc2, Flushes(rs2), ls2)
  <2>1. CASE q = p BY <1>3, <1>6, <2>1
  <2>2. CASE q # p
    <3>1. /\ SessionSound(rs[q].sess, bn, ad)
          /\ CopyFresh(rs[q].sess, acc, Flushes(rs), ls)
        BY <1>3, <1>6, <2>2 DEF SessionsSound, RequestSound
    <3>2. CopyFresh(rs[q].sess, acc2, Flushes(rs2), ls2) BY <1>1, <3>1, FreshStays
    <3> QED BY <1>3, <2>2, <3>2
  <2> QED BY <2>1, <2>2
<1> QED BY <1>2, <1>4, <1>5, <1>6 DEF SessionsSound

\* The process dies, and every request with it.
Dead == [p \in Requests |-> NoRequest]
LEMMA DieSound ==
    ASSUME NEW ck, NEW rs, NEW acc, NEW bn, NEW ad, NEW dr, NEW ls,
           SessionsSound(ck, rs, acc, bn, ad, dr, ls),
           NEW ck2 \in [Browsers -> Session \union {None}], NEW ad2, NEW ls2,
           ad \subseteq ad2, ls \subseteq ls2, \A f \in Flushes(rs) : f[1] \in ls2,
           \A b \in Browsers : ck2[b] = ck[b] \/ \E p \in Requests : ck2[b] = rs[p].sess
    PROVE  SessionsSound(ck2, Dead, acc, bn, ad2, dr, ls2)
<1>1. NoRequest \in Request /\ RequestSound(NoRequest, bn, ad2, dr) /\ NoRequest.sess = None
    BY NoRequestSound DEF RequestSound, NoRequest
<1>2. /\ Dead \in [Requests -> Request]
      /\ \A p \in Requests : RequestSound(Dead[p], bn, ad2, dr) /\ Dead[p].sess = None
    BY <1>1 DEF Dead
<1>3. ASSUME NEW b \in Browsers, ck2[b] # None
      PROVE  SessionSound(ck2[b], bn, ad2) /\ CopyFresh(ck2[b], acc, Flushes(Dead), ls2)
  <2>1. SessionSound(ck2[b], bn, ad) /\ CopyFresh(ck2[b], acc, Flushes(rs), ls)
      BY <1>3 DEF SessionsSound, RequestSound
  <2> QED BY <2>1, SessionStaysSound, FreshOrLost
<1> HIDE DEF Dead
<1> QED BY <1>2, <1>3 DEF SessionsSound

\* Two-factor settings are saved: other copies are outdated if they differ.
LEMMA SaveSound ==
    ASSUME NEW ck, NEW rs, NEW acc, NEW bn, NEW ad, NEW dr, NEW ls,
           SessionsSound(ck, rs, acc, bn, ad, dr, ls),
           NEW ck2 \in [Browsers -> Session \union {None}], NEW acc2, NEW ad2, NEW ls2, NEW rs2,
           ad \subseteq ad2, ls \subseteq ls2, NEW u, NEW t, TfaSaved(acc, acc2, u, t),
           NEW p \in Requests, rs[p].pc = "flush" => rs[p].who = u /\ rs[p].tfa = t,
           rs2 = [q \in Requests |-> IF q = p THEN NoRequest
                                     ELSE [rs[q] EXCEPT !.sess = OutdatedIn(acc, @, u, t)]],
           \A b \in Browsers : \/ ck2[b] = OutdatedIn(acc, ck[b], u, t)
                               \/ ck2[b] = ck[b] /\ ck[b] # None /\ ck[b].tfa = t
                               \/ Held(ck2[b], acc2, rs2, bn, ad2, ls2)
    PROVE  SessionsSound(ck2, rs2, acc2, bn, ad2, dr, ls2)
<1>1. rs \in [Requests -> Request] BY DEF SessionsSound
<1>2. /\ NoRequest \in Request /\ RequestSound(NoRequest, bn, ad2, dr)
      /\ NoRequest.sess = None /\ NoRequest.pc # "flush"
    BY NoRequestSound DEF RequestSound, NoRequest
<1>3. rs2[p] = NoRequest /\ \A q \in Requests : q # p =>
         rs2[q] = [rs[q] EXCEPT !.sess = OutdatedIn(acc, rs[q].sess, u, t)]
    OBVIOUS
<1>4. \A k \in Keys : dr[k] \subseteq dr[k] OBVIOUS
<1>5. ASSUME NEW q \in Requests PROVE RequestSound(rs2[q], bn, ad2, dr)
  <2>1. CASE q = p BY <1>2, <1>3, <2>1
  <2>2. CASE q # p
    <3>1. RequestSound(rs[q], bn, ad2, dr) BY <1>4, RequestStaysSound DEF SessionsSound, Grows
    <3> QED BY <1>3, <2>2, <3>1, OutdatedRequestSound
  <2> QED BY <2>1, <2>2
<1>6. rs2 \in [Requests -> Request]
  <2>1. \A q \in Requests : rs2[q] \in Request BY <1>5 DEF RequestSound
  <2> QED BY <2>1
<1>7. \A q \in Requests : q # p => /\ rs2[q].pc = rs[q].pc /\ rs2[q].who = rs[q].who
                                     /\ rs2[q].tfa = rs[q].tfa
                                     /\ rs2[q].sess = OutdatedIn(acc, rs[q].sess, u, t)
  <2> SUFFICES ASSUME NEW q \in Requests, q # p
               PROVE  /\ rs2[q].pc = rs[q].pc /\ rs2[q].who = rs[q].who
                      /\ rs2[q].tfa = rs[q].tfa
                      /\ rs2[q].sess = OutdatedIn(acc, rs[q].sess, u, t)
      OBVIOUS
  <2>1. rs[q] \in Request BY <1>1
  <2>2. rs2[q] = [rs[q] EXCEPT !.sess = OutdatedIn(acc, rs[q].sess, u, t)] BY <1>3
  <2> QED BY <2>1, <2>2 DEF Request
<1>8. ASSUME NEW f \in Flushes(rs) PROVE f \in Flushes(rs2) \/ f = <<u, t>>
  <2>1. PICK q \in Requests : rs[q].pc = "flush" /\ f = <<rs[q].who, rs[q].tfa>> BY DEF Flushes
  <2>2. CASE q = p BY <2>1, <2>2
  <2>3. CASE q # p
    <3>1. rs2[q].pc = "flush" /\ f = <<rs2[q].who, rs2[q].tfa>> BY <1>7, <2>1, <2>3
    <3> QED BY <3>1 DEF Flushes
  <2> QED BY <2>2, <2>3
<1> HIDE DEF SessionsSound
<1>9. ASSUME NEW s \in Session, CopyFresh(s, acc, Flushes(rs), ls)
      PROVE  CopyFresh(OutdatedIn(acc, s, u, t), acc2, Flushes(rs2), ls2)
    BY <1>8, <1>9, FreshOrOutdated
<1>10. ASSUME NEW q \in Requests, rs2[q].sess # None
       PROVE  CopyFresh(rs2[q].sess, acc2, Flushes(rs2), ls2)
  <2>1. q # p BY <1>2, <1>3, <1>10
  <2>2. rs2[q].sess = OutdatedIn(acc, rs[q].sess, u, t) BY <1>7, <2>1
  <2>3. rs[q].sess # None BY <1>10, <2>2 DEF OutdatedIn
  <2>4. rs[q].sess \in Session BY <1>1, <2>3 DEF Request
  <2>5. CopyFresh(rs[q].sess, acc, Flushes(rs), ls) BY <2>3 DEF SessionsSound
  <2> QED BY <1>9, <2>2, <2>4, <2>5
<1>11. ASSUME NEW b \in Browsers, ck2[b] # None
       PROVE  SessionSound(ck2[b], bn, ad2) /\ CopyFresh(ck2[b], acc2, Flushes(rs2), ls2)
  <2>1. CASE ck2[b] = OutdatedIn(acc, ck[b], u, t)
    <3>1. ck[b] # None BY <1>11, <2>1 DEF OutdatedIn
    <3>2. /\ ck[b] \in Session /\ SessionSound(ck[b], bn, ad)
          /\ CopyFresh(ck[b], acc, Flushes(rs), ls)
        BY <3>1 DEF SessionsSound
    <3>3. SessionSound(ck[b], bn, ad2) BY <3>2, SessionStaysSound
    <3>4. SessionSound(ck2[b], bn, ad2) BY <1>11, <2>1, <3>2, <3>3, OutdatedSound
    <3>5. CopyFresh(ck2[b], acc2, Flushes(rs2), ls2) BY <1>9, <2>1, <3>2
    <3> QED BY <3>4, <3>5
  <2>2. CASE Held(ck2[b], acc2, rs2, bn, ad2, ls2)
    BY <1>11, <2>2, SessionStaysSound DEF Held
  <2>3. CASE ck2[b] = ck[b] /\ ck[b] # None /\ ck[b].tfa = t
    <3>1. /\ ck[b] \in Session /\ SessionSound(ck[b], bn, ad)
          /\ CopyFresh(ck[b], acc, Flushes(rs), ls)
        BY <2>3 DEF SessionsSound
    <3>2. SessionSound(ck2[b], bn, ad2) BY <2>3, <3>1, SessionStaysSound
    <3>3. CASE ck[b].id = u BY <2>3, <3>2, <3>3 DEF CopyFresh, TfaSaved
    <3>4. CASE ck[b].id # u
      <4>1. ck2[b] = OutdatedIn(acc, ck[b], u, t) BY <2>3, <3>4 DEF OutdatedIn
      <4> QED BY <1>9, <3>1, <3>2, <4>1
    <3> QED BY <3>2, <3>3, <3>4
  <2> QED BY <2>1, <2>2, <2>3
<1> QED BY <1>5, <1>6, <1>10, <1>11 DEF SessionsSound

(***************************************************************************)
(* The invariant.                                                          *)
(***************************************************************************)
LettersSound(ls) == /\ ls \subseteq Letter
                    /\ \A l \in ls : l.kind = "verification" => l.new \in Emails
Core ==
    /\ RowsSound(account, profile, born, drawnFor)
    /\ SessionsSound(cookie, req, account, born, admins, drawnFor, lost)
    /\ LettersSound(letters)
    /\ drawnFor \in [Keys -> SUBSET Accounts]
AccountsInv == /\ Core
               /\ {u \in Live : account[u].admin} \subseteq admins
               /\ group \in Groups

\* What the proofs use of History.
Recorded ==
    /\ admins \subseteq admins' /\ lost \subseteq lost'
    /\ \A u \in DOMAIN account' : account'[u].admin => u \in admins'
    /\ (\E p, q \in Requests : /\ p # q /\ ~At(p, "idle") /\ ~At(q, "idle")
                               /\ req'[p].pc = "idle" /\ req'[q].pc = "idle")
       => \A q \in Requests : At(q, "flush") => req[q].who \in lost'
LEMMA HistoryRecords == History => Recorded
BY DEF History, Recorded

\* A request moves on or is answered, and no row changes.
LEMMA QuietMove ==
    ASSUME Core, Recorded, UNCHANGED data, NEW p \in Requests, ~At(p, "flush"),
           NEW n, RequestSound(n, born, admins, drawnFor), req' = [req EXCEPT ![p] = n],
           n.sess # None => \/ n.sess = req[p].sess \/ \E b \in Browsers : n.sess = cookie[b]
                            \/ CopyFresh(n.sess, account, Flushes(req'), lost),
           cookie' \in [Browsers -> Session \union {None}],
           \A b \in Browsers :
               cookie'[b] = cookie[b] \/ Held(cookie'[b], account, req', born, admins, lost)
    PROVE  Core'
<1>1. /\ account' = account /\ profile' = profile /\ letters' = letters /\ born' = born
      /\ drawnFor' = drawnFor
    BY DEF data
<1>2. RowsSound(account, profile, born, drawnFor)' /\ LettersSound(letters)'
      /\ (drawnFor \in [Keys -> SUBSET Accounts])'
    BY <1>1 DEF Core
<1>3. SessionsSound(cookie, req, account, born, admins, drawnFor, lost) BY DEF Core
<1>4. admins \subseteq admins' /\ lost \subseteq lost' BY DEF Recorded
<1>5. Grows(drawnFor, drawnFor) /\ born \subseteq born BY DEF Grows
<1>6. TfaKept(account, account, born) BY DEF TfaKept
<1>7. DOMAIN account \subseteq Accounts BY DEF Core, RowsSound, AccountsSound
<1>8. RequestSound(n, born, admins', drawnFor) BY <1>4, <1>5, RequestStaysSound
<1>9. Flushes(req) \subseteq Flushes(req') BY <1>3, FlushesStay DEF SessionsSound, At
<1>10. n.sess # None => CopyFresh(n.sess, account, Flushes(req'), lost')
  <2> SUFFICES ASSUME n.sess # None PROVE CopyFresh(n.sess, account, Flushes(req'), lost') OBVIOUS
  <2>1. SessionSound(n.sess, born, admins) BY DEF RequestSound
  <2>2. CASE n.sess = req[p].sess
    <3>1. CopyFresh(n.sess, account, Flushes(req), lost) BY <1>3, <2>2 DEF SessionsSound
    <3> QED BY <1>4, <1>6, <1>7, <1>9, <2>1, <3>1, FreshStays
  <2>3. CASE \E b \in Browsers : n.sess = cookie[b]
    <3>1. CopyFresh(n.sess, account, Flushes(req), lost) BY <1>3, <2>3 DEF SessionsSound
    <3> QED BY <1>4, <1>6, <1>7, <1>9, <2>1, <3>1, FreshStays
  <2>4. CASE CopyFresh(n.sess, account, Flushes(req'), lost)
    <3>1. Flushes(req') \subseteq Flushes(req') OBVIOUS
    <3> QED BY <1>4, <1>6, <1>7, <2>1, <2>4, <3>1, FreshStays
  <2> QED BY <2>2, <2>3, <2>4
<1>11. ASSUME NEW b \in Browsers
       PROVE  cookie'[b] = cookie[b] \/ Held(cookie'[b], account, req', born, admins', lost')
  <2>1. CASE cookie'[b] = cookie[b] BY <2>1
  <2>2. CASE Held(cookie'[b], account, req', born, admins, lost)
    <3>1. cookie'[b] # None =>
             SessionSound(cookie'[b], born, admins) /\ CopyFresh(cookie'[b], account, Flushes(req'), lost)
        BY <2>2 DEF Held
    <3>2. cookie'[b] # None => SessionSound(cookie'[b], born, admins')
        BY <1>4, <1>5, <3>1, SessionStaysSound
    <3>3. Flushes(req') \subseteq Flushes(req') OBVIOUS
    <3>4. cookie'[b] # None => CopyFresh(cookie'[b], account, Flushes(req'), lost')
        BY <1>4, <1>6, <1>7, <3>1, <3>3, FreshStays
    <3> QED BY <2>2, <3>2, <3>4 DEF Held
  <2> QED BY <2>1, <2>2
<1>12. SessionsSound(cookie', req', account, born, admins', drawnFor, lost')
  <2>1. req[p].pc # "flush" BY DEF At
  <2> QED BY <1>3, <1>4, <1>5, <1>6, <1>7, <1>8, <1>10, <1>11, <2>1, MoveSound
<1> QED BY <1>1, <1>2, <1>12 DEF Core

LEMMA CoreTypes ==
    ASSUME Core
    PROVE  /\ cookie \in [Browsers -> Session \union {None}] /\ req \in [Requests -> Request]
           /\ account \in [Live -> Account] /\ Live \subseteq born /\ born \subseteq Accounts
           /\ profile \in [DOMAIN profile -> Profile]
           /\ \A u, v \in Live : account[u].email = account[v].email => u = v
           /\ \A u \in Live \intersect External : account[u].tfa = None
BY DEF Core, SessionsSound, RowsSound, AccountsSound, ProfilesSound, Live

LEMMA QuietGoto ==
    ASSUME Core, Recorded, UNCHANGED data, NEW p \in Requests, ~At(p, "flush"),
           NEW n, RequestSound(n, born, admins, drawnFor), Goto(p, n),
           n.sess # None => n.sess = req[p].sess \/ \E b \in Browsers : n.sess = cookie[b]
    PROVE  Core'
<1>1. req' = [req EXCEPT ![p] = n] /\ cookie' = cookie BY DEF Goto
<1>2. cookie' \in [Browsers -> Session \union {None}] BY <1>1, CoreTypes
<1>3. \A b \in Browsers : cookie'[b] = cookie[b] BY <1>1
<1> QED BY <1>1, <1>2, <1>3, QuietMove

LEMMA QuietFinish ==
    ASSUME Core, Recorded, UNCHANGED data, NEW p \in Requests, ~At(p, "flush"), Finish(p)
    PROVE  Core'
<1>1. RequestSound(NoRequest, born, admins, drawnFor) BY NoRequestSound
<1>2. NoRequest.sess = None BY DEF NoRequest
<1>3. Goto(p, NoRequest) BY DEF Finish
<1> QED BY <1>1, <1>2, <1>3, QuietGoto

LEMMA QuietRespond ==
    ASSUME Core, Recorded, UNCHANGED data, NEW p \in Requests, ~At(p, "flush"),
           NEW s \in Session \union {None}, Respond(p, s),
           s # None => SessionSound(s, born, admins) /\ CopyFresh(s, account, Flushes(req), lost)
    PROVE  Core'
<1>1. req' = [req EXCEPT ![p] = NoRequest] /\ cookie' = [cookie EXCEPT ![req[p].at] = s]
    BY DEF Respond
<1>2. RequestSound(NoRequest, born, admins, drawnFor) BY NoRequestSound
<1>3. NoRequest.sess = None BY DEF NoRequest
<1>4. cookie' \in [Browsers -> Session \union {None}] BY <1>1, CoreTypes
<1>5. Flushes(req) \subseteq Flushes(req') BY <1>1, CoreTypes, FlushesStay DEF At
<1>6. s # None => CopyFresh(s, account, Flushes(req'), lost) BY <1>5 DEF CopyFresh
<1>7. Held(s, account, req', born, admins, lost) BY <1>6 DEF Held
<1>8. \A b \in Browsers : cookie'[b] = cookie[b] \/ cookie'[b] = s BY <1>1, CoreTypes
<1>9. \A b \in Browsers : cookie'[b] = cookie[b] \/ Held(cookie'[b], account, req', born, admins, lost)
    BY <1>7, <1>8
<1> QED BY <1>1, <1>2, <1>3, <1>4, <1>9, QuietMove

LEMMA QuietSame ==
    ASSUME Core, Recorded, UNCHANGED data, NEW p \in Requests, ~At(p, "flush"), RespondSame(p)
    PROVE  Core'
<1>1. PICK s : s = req[p].sess OBVIOUS
<1>2. s \in Session \union {None} BY <1>1, CoreTypes DEF Request
<1>3. s # None => SessionSound(s, born, admins) /\ CopyFresh(s, account, Flushes(req), lost)
    BY <1>1 DEF Core, SessionsSound, RequestSound
<1>4. Respond(p, s) BY <1>1 DEF RespondSame
<1> QED BY <1>2, <1>3, <1>4, QuietRespond

LEMMA QuietDie ==
    ASSUME Core, Recorded, UNCHANGED data, NEW p \in Requests, ~At(p, "flush"), ~At(p, "idle"),
           Die, cookie' = cookie \/ cookie' = [cookie EXCEPT ![req[p].at] = req[p].sess]
    PROVE  Core'
<1>1. /\ account' = account /\ profile' = profile /\ letters' = letters /\ born' = born
      /\ drawnFor' = drawnFor
    BY DEF data
<1>2. req' = Dead BY DEF Die, Dead
<1>3. \A q \in Requests : req'[q].pc = "idle" BY DEF Die, NoRequest
<1>4. ASSUME NEW f \in Flushes(req) PROVE f[1] \in lost'
  <2>1. PICK q \in Requests : req[q].pc = "flush" /\ f = <<req[q].who, req[q].tfa>>
      BY DEF Flushes
  <2>2. At(q, "flush") /\ ~At(q, "idle") /\ q # p BY <2>1 DEF At
  <2>3. req[q].who \in lost' BY <1>3, <2>2 DEF Recorded
  <2> QED BY <2>1, <2>3
<1>5. cookie' \in [Browsers -> Session \union {None}]
  <2>1. req[p].sess \in Session \union {None} BY CoreTypes DEF Request
  <2> QED BY <2>1, CoreTypes
<1>6. \A b \in Browsers : cookie'[b] = cookie[b] \/ \E q \in Requests : cookie'[b] = req[q].sess
    BY CoreTypes
<1>7. admins \subseteq admins' /\ lost \subseteq lost' BY DEF Recorded
<1>8. SessionsSound(cookie, req, account, born, admins, drawnFor, lost) BY DEF Core
<1>9. SessionsSound(cookie', Dead, account, born, admins', drawnFor, lost')
    BY <1>4, <1>5, <1>6, <1>7, <1>8, DieSound
<1>10. SessionsSound(cookie, req, account, born, admins, drawnFor, lost)'
    BY <1>1, <1>2, <1>9
<1>11. RowsSound(account, profile, born, drawnFor)' /\ LettersSound(letters)'
       /\ (drawnFor \in [Keys -> SUBSET Accounts])'
    BY <1>1 DEF Core
<1> QED BY <1>10, <1>11 DEF Core

LEMMA RequestFacts ==
    ASSUME Core, NEW p \in Requests
    PROVE  /\ RequestSound(req[p], born, admins, drawnFor) /\ req[p] \in Request
           /\ req[p].sess \in Session \union {None}
           /\ ~At(p, "idle") => Course(req[p]) /\ Fields(req[p]) /\ Entitled(req[p], drawnFor)
BY DEF Core, SessionsSound, RequestSound, At, Request

LEMMA OwnerOf ==
    \A e \in Addresses : Owner(e) \in Live /\ account[Owner(e)].email = e
BY DEF Addresses, Owner

\* What a session gets from the row of a live account.
LEMMA OpenedSound ==
    ASSUME Core, {u \in Live : account[u].admin} \subseteq admins, NEW u \in Live
    PROVE  /\ SessionOf(u, account[u]) \in Session
           /\ SessionSound(SessionOf(u, account[u]), born, admins)
           /\ \A fl, ls : CopyFresh(SessionOf(u, account[u]), account, fl, ls)
<1>1. account[u] \in Account /\ u \in Accounts /\ u \in born BY CoreTypes
<1>2. PICK s : s = SessionOf(u, account[u]) OBVIOUS
<1>3. s \in Session BY <1>1, <1>2 DEF SessionOf, Session, Account
<1>4. s.id = u /\ s.admin = account[u].admin /\ s.tfa = account[u].tfa
    BY <1>2 DEF SessionOf
<1>5. u \in External => account[u].tfa = None BY CoreTypes
<1>6. SessionSound(s, born, admins) BY <1>1, <1>3, <1>4, <1>5 DEF SessionSound
<1>7. \A fl, ls : CopyFresh(s, account, fl, ls) BY <1>4 DEF CopyFresh
<1> QED BY <1>2, <1>3, <1>6, <1>7

LEMMA FindProfileSound ==
    ASSUME Core, Recorded, NEW p \in Requests, FindProfile(p) PROVE Core'
<1>1. At(p, "find") /\ ~At(p, "flush") /\ req[p].pc = "find" /\ UNCHANGED data
    BY DEF FindProfile, At
<1>2. RequestSound(req[p], born, admins, drawnFor) /\ req[p] \in Request BY RequestFacts
<1>3. PICK r \in RowsOf(req[p].email) \union {None} :
        Goto(p, [req[p] EXCEPT !.pc = "write", !.row = r])
    BY DEF FindProfile
<1>4. r \in Rows \union {None} BY DEF RowsOf, Core, RowsSound, ProfilesSound
<1>5. PICK n : n = [req[p] EXCEPT !.pc = "write", !.row = r] OBVIOUS
<1>6. RequestSound(n, born, admins, drawnFor) BY <1>1, <1>2, <1>4, <1>5, WriteStepSound
<1>7. n.sess = req[p].sess BY <1>2, <1>5 DEF Request
<1> QED BY <1>1, <1>3, <1>5, <1>6, <1>7, QuietGoto

\* A request that only moves on.
LEMMA PlainMove ==
    ASSUME Core, Recorded, UNCHANGED data, NEW p \in Requests,
           NEW pc, <<req[p].pc, pc>> \in PlainSteps, Goto(p, [req[p] EXCEPT !.pc = pc])
    PROVE  Core'
<1>1. RequestSound(req[p], born, admins, drawnFor) /\ req[p] \in Request BY RequestFacts
<1>2. PICK n : n = [req[p] EXCEPT !.pc = pc] OBVIOUS
<1>3. RequestSound(n, born, admins, drawnFor) BY <1>1, <1>2, PlainStepSound
<1>4. n.sess = req[p].sess BY <1>1, <1>2 DEF Request
<1>5. ~At(p, "flush") BY DEF PlainSteps, At
<1> QED BY <1>2, <1>3, <1>4, <1>5, QuietGoto

\* A request that finds its account.
LEMMA FoundMove ==
    ASSUME Core, Recorded, UNCHANGED data, NEW p \in Requests,
           NEW pc, NEW u \in Accounts, <<req[p].pc, pc>> \in FoundSteps,
           pc \in {"enable", "setPassword"} => u \in drawnFor[req[p].key],
           pc = "destroy" => u = req[p].sess.id,
           Goto(p, [req[p] EXCEPT !.pc = pc, !.who = u])
    PROVE  Core'
<1>1. RequestSound(req[p], born, admins, drawnFor) /\ req[p] \in Request BY RequestFacts
<1>2. PICK n : n = [req[p] EXCEPT !.pc = pc, !.who = u] OBVIOUS
<1>3. RequestSound(n, born, admins, drawnFor) BY <1>1, <1>2, FoundStepSound
<1>4. n.sess = req[p].sess BY <1>1, <1>2 DEF Request
<1>5. ~At(p, "flush") BY DEF FoundSteps, At
<1> QED BY <1>2, <1>3, <1>4, <1>5, QuietGoto

LEMMA ValidateNewSound ==
    ASSUME Core, Recorded, NEW p \in Requests, ValidateNew(p) PROVE Core'
<1>1. /\ req[p].pc \in {"signUp", "adminCreate", "apiCreate"} /\ ~At(p, "flush")
      /\ UNCHANGED data
    BY DEF ValidateNew, At
<1>2. CASE Finish(p) BY <1>1, <1>2, QuietFinish
<1>3. CASE Goto(p, [req[p] EXCEPT !.pc = "insert"])
    BY <1>1, <1>3, PlainMove DEF PlainSteps
<1> QED BY <1>2, <1>3 DEF ValidateNew

LEMMA LoginSound ==
    ASSUME Core, {u \in Live : account[u].admin} \subseteq admins, Recorded,
           NEW p \in Requests, Login(p)
    PROVE  Core'
<1>1. req[p].pc = "login" /\ ~At(p, "flush") /\ UNCHANGED data BY DEF Login, At
<1>2. CASE RespondSame(p) BY <1>1, <1>2, QuietSame
<1>3. CASE req[p].email \in Addresses /\ ~RespondSame(p)
  <2>1. PICK u : u = Owner(req[p].email) OBVIOUS
  <2>2. u \in Live /\ u \in Accounts BY <1>3, <2>1, OwnerOf, CoreTypes
  <2>3. CASE Respond(p, SessionOf(u, account[u]))
    BY <1>1, <2>2, <2>3, OpenedSound, QuietRespond
  <2>4. CASE Goto(p, [req[p] EXCEPT !.pc = "tokenPage", !.who = u])
    BY <1>1, <2>2, <2>4, FoundMove DEF FoundSteps
  <2> QED BY <1>3, <2>1, <2>3, <2>4 DEF Login
<1> QED BY <1>2, <1>3 DEF Login

LEMMA SubmitTokenSound ==
    ASSUME Core, Recorded, NEW p \in Requests, SubmitToken(p) PROVE Core'
<1>1. req[p].pc = "tokenPage" /\ ~At(p, "flush") /\ UNCHANGED data BY DEF SubmitToken, At
<1>2. CASE Finish(p) BY <1>1, <1>2, QuietFinish
<1>3. CASE \E s \in Secrets, remember \in BOOLEAN :
              Goto(p, [req[p] EXCEPT !.pc = "tfaVerify", !.flag = remember,
                         !.sess = cookie[req[p].at], !.tfa = [secret |-> s, known |-> {}]])
  <2>1. PICK s \in Secrets, remember \in BOOLEAN :
              Goto(p, [req[p] EXCEPT !.pc = "tfaVerify", !.flag = remember,
                         !.sess = cookie[req[p].at], !.tfa = [secret |-> s, known |-> {}]])
      BY <1>3
  <2>2. RequestSound(req[p], born, admins, drawnFor) /\ req[p] \in Request
        /\ req[p].at \in Browsers
      BY <1>1, RequestFacts DEF Course, Fields, At
  <2>3. PICK c : c = cookie[req[p].at] OBVIOUS
  <2>4. c \in Session \union {None} /\ (c # None => SessionSound(c, born, admins))
      BY <2>2, <2>3 DEF Core, SessionsSound
  <2>5. PICK t : t = [secret |-> s, known |-> {}] OBVIOUS
  <2>6. t \in Tfa BY <2>5 DEF Tfa
  <2>7. PICK n : n = [req[p] EXCEPT !.pc = "tfaVerify", !.flag = remember, !.sess = c, !.tfa = t]
      OBVIOUS
  <2>8. RequestSound(n, born, admins, drawnFor)
      BY <1>1, <2>2, <2>4, <2>6, <2>7, TokenStepSound
  <2>9. n.sess = cookie[req[p].at] BY <2>2, <2>3, <2>7 DEF Request
  <2>10. Goto(p, n) BY <2>1, <2>3, <2>5, <2>7
  <2> QED BY <1>1, <2>2, <2>8, <2>9, <2>10, QuietGoto
<1> QED BY <1>2, <1>3 DEF SubmitToken

LEMMA TfaVerifySound ==
    ASSUME Core, {u \in Live : account[u].admin} \subseteq admins, Recorded,
           NEW p \in Requests, TfaVerify(p)
    PROVE  Core'
<1> DEFINE u == req[p].who
<1>1. req[p].pc = "tfaVerify" /\ ~At(p, "flush") /\ ~At(p, "idle") /\ UNCHANGED data
    BY DEF TfaVerify, At
<1>2. CASE Die /\ UNCHANGED cookie BY <1>1, <1>2, QuietDie
<1>3. CASE Finish(p) BY <1>1, <1>3, QuietFinish
<1>4. CASE u \in Live /\ account[u].tfa # None /\ ~Finish(p)
  <2>1. RequestSound(req[p], born, admins, drawnFor) /\ req[p] \in Request
        /\ req[p].at \in Browsers
      BY <1>1, RequestFacts DEF Course, Fields, At
  <2>2. u \notin External /\ u # None BY <1>4, CoreTypes, AccountsNoneAssumption
  <2>3. account[u] \in Account BY <1>4, CoreTypes
  <2>4. account[u].tfa \in [secret: Secrets, known: SUBSET Browsers]
      BY <1>4, <2>3 DEF Account, Tfa
  <2>5. PICK t : t = IF req[p].flag THEN [account[u].tfa EXCEPT !.known = @ \union {req[p].at}]
                     ELSE account[u].tfa
      OBVIOUS
  <2>6. [account[u].tfa EXCEPT !.known = @ \union {req[p].at}]
            \in [secret: Secrets, known: SUBSET Browsers]
      BY <2>1, <2>4
  <2>7. t \in Tfa BY <2>4, <2>5, <2>6 DEF Tfa
  <2>8. PICK o : o = SessionOf(u, account[u]) OBVIOUS
  <2>9. o \in Session /\ SessionSound(o, born, admins) /\ o.id = u
        /\ \A fl, ls : CopyFresh(o, account, fl, ls)
      BY <1>4, <2>8, OpenedSound DEF SessionOf
  <2>10. PICK s : s = [o EXCEPT !.tfa = t] OBVIOUS
  <2>11. s \in Session /\ s.id = u /\ s.admin = o.admin /\ s.tfa = t
      BY <2>7, <2>9, <2>10 DEF Session
  <2>12. SessionSound(s, born, admins) BY <2>2, <2>9, <2>11 DEF SessionSound
  <2>13. PICK n : n = IF req[p].flag
                      THEN [req[p] EXCEPT !.pc = "flush", !.tfa = t, !.sess = None]
                      ELSE NoRequest
      OBVIOUS
  <2>14. cookie' = [cookie EXCEPT ![req[p].at] = s] /\ req' = [req EXCEPT ![p] = n]
      BY <1>4, <2>5, <2>8, <2>10, <2>13 DEF TfaVerify, Finish, Goto
  <2>15. RequestSound(n, born, admins, drawnFor) /\ n.sess = None
    <3>1. CASE req[p].flag
      <4>1. n = [req[p] EXCEPT !.pc = "flush", !.tfa = t, !.sess = None] BY <2>13, <3>1
      <4> QED BY <1>1, <2>1, <2>2, <2>7, <4>1, FlushStepSound DEF Request
    <3>2. CASE ~req[p].flag BY <2>13, <3>2, NoRequestSound DEF NoRequest
    <3> QED BY <3>1, <3>2
  <2>16. CopyFresh(s, account, Flushes(req'), lost)
    <3>1. CASE req[p].flag
      <4>1. n = [req[p] EXCEPT !.pc = "flush", !.tfa = t, !.sess = None] BY <2>13, <3>1
      <4>2. n.pc = "flush" /\ n.who = u /\ n.tfa = t BY <2>1, <4>1 DEF Request
      <4>3. req'[p] = n BY <2>14, CoreTypes
      <4>4. <<u, t>> \in Flushes(req') BY <4>2, <4>3 DEF Flushes
      <4> QED BY <2>11, <4>4 DEF CopyFresh
    <3>2. CASE ~req[p].flag
      <4>1. t = account[u].tfa BY <2>5, <3>2
      <4> QED BY <2>11, <4>1 DEF CopyFresh
    <3> QED BY <3>1, <3>2
  <2>17. Held(s, account, req', born, admins, lost) BY <2>11, <2>12, <2>16 DEF Held
  <2>18. cookie' \in [Browsers -> Session \union {None}] BY <2>11, <2>14, CoreTypes
  <2>19. \A b \in Browsers : cookie'[b] = cookie[b] \/ cookie'[b] = s BY <2>14, CoreTypes
  <2>20. \A b \in Browsers : cookie'[b] = cookie[b]
                             \/ Held(cookie'[b], account, req', born, admins, lost)
      BY <2>17, <2>19
  <2> QED BY <1>1, <2>14, <2>15, <2>18, <2>20, QuietMove
<1> QED BY <1>2, <1>3, <1>4 DEF TfaVerify

LEMMA BareSound ==
    ASSUME NEW bn, NEW ad, NEW u \in Accounts \union {None}, NEW e \in Emails \union {None},
           NEW admin \in BOOLEAN, u \in bn \union External \union {None}, admin => u \in ad
    PROVE  /\ BareSession(u, e, admin) \in Session
           /\ SessionSound(BareSession(u, e, admin), bn, ad)
           /\ \A acc, fl, ls : CopyFresh(BareSession(u, e, admin), acc, fl, ls)
<1>1. PICK s : s = BareSession(u, e, admin) OBVIOUS
<1>2. s \in Session BY <1>1 DEF BareSession, Session, Tfa
<1>3. s.id = u /\ s.tfa = None /\ ~s.current BY <1>1 DEF BareSession
<1>4. s.admin => u \in ad
  <2>1. s.admin = admin BY <1>1 DEF BareSession
  <2> QED BY <2>1
<1>5. SessionSound(s, bn, ad) BY <1>2, <1>3, <1>4 DEF SessionSound
<1>6. \A acc, fl, ls : CopyFresh(s, acc, fl, ls) BY <1>3 DEF CopyFresh
<1> QED BY <1>1, <1>2, <1>5, <1>6

LEMMA ExternalLoginSound ==
    ASSUME Core, {u \in Live : account[u].admin} \subseteq admins, Recorded,
           NEW p \in Requests, ExternalLogin(p)
    PROVE  Core'
<1> DEFINE u == req[p].who
<1>1. req[p].pc = "externalLogin" /\ ~At(p, "flush") /\ UNCHANGED data BY DEF ExternalLogin, At
<1>2. CASE RespondSame(p) BY <1>1, <1>2, QuietSame
<1>3. CASE u \in Live /\ Respond(p, BareSession(u, account[u].email, account[u].admin))
  <2>1. PICK e, admin : e = account[u].email /\ admin = account[u].admin OBVIOUS
  <2>2. account[u] \in Account /\ u \in born /\ u \in Accounts BY <1>3, CoreTypes
  <2>3. e \in Emails /\ admin \in BOOLEAN BY <2>1, <2>2 DEF Account
  <2>4. admin => u \in admins BY <1>3, <2>1
  <2>5. PICK s : s = BareSession(u, e, admin) OBVIOUS
  <2>6. s \in Session /\ SessionSound(s, born, admins)
        /\ \A acc, fl, ls : CopyFresh(s, acc, fl, ls)
      BY <2>2, <2>3, <2>4, <2>5, BareSound
  <2>7. Respond(p, s) BY <1>3, <2>1, <2>5
  <2> QED BY <1>1, <2>6, <2>7, QuietRespond
<1>4. CASE Goto(p, [req[p] EXCEPT !.pc = "local"]) BY <1>1, <1>4, PlainMove DEF PlainSteps
<1> QED BY <1>2, <1>3, <1>4 DEF ExternalLogin

LEMMA ValidateLocalSound ==
    ASSUME Core, Recorded, NEW p \in Requests, ValidateLocal(p) PROVE Core'
<1>1. req[p].pc = "local" /\ ~At(p, "flush") /\ UNCHANGED data BY DEF ValidateLocal, At
<1>2. CASE Respond(p, BareSession(None, None, FALSE))
  <2>1. PICK s : s = BareSession(None, None, FALSE) OBVIOUS
  <2>2. s \in Session /\ SessionSound(s, born, admins)
        /\ \A acc, fl, ls : CopyFresh(s, acc, fl, ls)
      BY <2>1, BareSound
  <2>3. Respond(p, s) BY <1>2, <2>1
  <2> QED BY <1>1, <2>2, <2>3, QuietRespond
<1>3. CASE Goto(p, [req[p] EXCEPT !.pc = "saveLocal"]) BY <1>1, <1>3, PlainMove DEF PlainSteps
<1> QED BY <1>2, <1>3 DEF ValidateLocal

\* The account a key opens is one the key was drawn for or mailed to.
LEMMA OpenedByKey ==
    ASSUME Core, NEW p \in Requests, NEW kind \in KeyKinds, NEW e, NEW r \in RowsOf(e),
           Opens(p, kind, r), req[p].key \in Keys
    PROVE  /\ e \in Addresses /\ Owner(e) \in Live /\ Owner(e) \in Accounts
           /\ Owner(e) \in drawnFor[req[p].key]
<1>1. /\ KeysFounded(account, profile, drawnFor) /\ ProfilesSound(account, profile)
      /\ AccountsSound(account, born)
    BY DEF Core, RowsSound
<1>2. r \in DOMAIN profile /\ profile[r].email = e BY DEF RowsOf
<1>3. e \in Addresses BY <1>1, <1>2 DEF ProfilesSound, Addresses, Live
<1>4. Owner(e) \in Live /\ account[Owner(e)].email = e BY <1>3, OwnerOf
<1>5. profile[r].keys[kind] = req[p].key /\ req[p].key # None
    BY AccountsNoneAssumption DEF Opens
<1>6. Owner(e) \in drawnFor[req[p].key] BY <1>1, <1>2, <1>4, <1>5 DEF KeysFounded, Live
<1> QED BY <1>3, <1>4, <1>6, CoreTypes

LEMMA ActivateSound ==
    ASSUME Core, Recorded, NEW p \in Requests, Activate(p) PROVE Core'
<1>1. req[p].pc = "activate" /\ ~At(p, "flush") /\ UNCHANGED data BY DEF Activate, At
<1>2. req[p].key \in Keys
    BY <1>1, RequestFacts DEF Course, Fields, At, Kinds, VisitorKinds
<1>3. CASE Finish(p) BY <1>1, <1>3, QuietFinish
<1>4. CASE ~Finish(p)
  <2>1. PICK e : e = req[p].email OBVIOUS
  <2>2. PICK r \in RowsOf(e) :
            /\ Opens(p, "activation", r)
            /\ Goto(p, [req[p] EXCEPT !.pc = "enable", !.who = Owner(e)])
      BY <1>4, <2>1 DEF Activate
  <2>3. PICK u : u = Owner(e) OBVIOUS
  <2>4. u \in Accounts /\ u \in drawnFor[req[p].key]
      BY <1>2, <2>2, <2>3, OpenedByKey DEF KeyKinds
  <2>5. <<req[p].pc, "enable">> \in FoundSteps BY <1>1 DEF FoundSteps
  <2>6. Goto(p, [req[p] EXCEPT !.pc = "enable", !.who = u]) BY <2>2, <2>3
  <2> QED BY <1>1, <2>4, <2>5, <2>6, FoundMove
<1> QED BY <1>3, <1>4

LEMMA ChangePasswordSound ==
    ASSUME Core, Recorded, NEW p \in Requests, ChangePassword(p) PROVE Core'
<1>1. req[p].pc = "reset" /\ ~At(p, "flush") /\ UNCHANGED data BY DEF ChangePassword, At
<1>2. req[p].key \in Keys
    BY <1>1, RequestFacts DEF Course, Fields, At, Kinds, VisitorKinds
<1>3. CASE Finish(p) BY <1>1, <1>3, QuietFinish
<1>4. CASE ~Finish(p)
  <2>1. PICK e : e = req[p].email OBVIOUS
  <2>2. PICK r \in RowsOf(e) :
            /\ Opens(p, "reset", r)
            /\ Goto(p, [req[p] EXCEPT !.pc = "setPassword", !.who = Owner(e)])
      BY <1>4, <2>1 DEF ChangePassword
  <2>3. PICK u : u = Owner(e) OBVIOUS
  <2>4. u \in Accounts /\ u \in drawnFor[req[p].key]
      BY <1>2, <2>2, <2>3, OpenedByKey DEF KeyKinds
  <2>5. <<req[p].pc, "setPassword">> \in FoundSteps BY <1>1 DEF FoundSteps
  <2>6. Goto(p, [req[p] EXCEPT !.pc = "setPassword", !.who = u]) BY <2>2, <2>3
  <2> QED BY <1>1, <2>4, <2>5, <2>6, FoundMove
<1> QED BY <1>3, <1>4

LEMMA DisableTfaByKeySound ==
    ASSUME Core, {u \in Live : account[u].admin} \subseteq admins, Recorded,
           NEW p \in Requests, DisableTfaByKey(p)
    PROVE  Core'
<1>1. req[p].pc = "disable2fa" /\ ~At(p, "flush") /\ UNCHANGED data BY DEF DisableTfaByKey, At
<1>2. req[p].key \in Keys /\ req[p].tfa = None
    BY <1>1, RequestFacts DEF Course, Fields, At, Kinds, VisitorKinds
<1>3. CASE Finish(p) BY <1>1, <1>3, QuietFinish
<1>4. CASE ~Finish(p)
  <2>1. PICK e : e = req[p].email OBVIOUS
  <2>2. PICK u : u = Owner(e) OBVIOUS
  <2>3. PICK r \in RowsOf(e) :
            /\ Opens(p, "disable_2fa", r)
            /\ cookie' = [cookie EXCEPT ![req[p].at] =
                              [SessionOf(u, account[u]) EXCEPT !.tfa = None]]
            /\ req' = [req EXCEPT ![p].pc = "flush", ![p].who = u, ![p].sess = None]
      BY <1>4, <2>1, <2>2 DEF DisableTfaByKey
  <2>4. u \in Accounts /\ u \in Live BY <1>2, <2>2, <2>3, OpenedByKey DEF KeyKinds
  <2>5. PICK o : o = SessionOf(u, account[u]) OBVIOUS
  <2>6. o \in Session /\ SessionSound(o, born, admins) /\ o.id = u
      BY <2>4, <2>5, OpenedSound DEF SessionOf
  <2>7. PICK s : s = [o EXCEPT !.tfa = None] OBVIOUS
  <2>8. s \in Session /\ s.id = u /\ s.admin = o.admin /\ s.tfa = None
      BY <2>6, <2>7 DEF Session, Tfa
  <2>9. SessionSound(s, born, admins) BY <2>6, <2>8 DEF SessionSound
  <2>10. PICK n : n = [req[p] EXCEPT !.pc = "flush", !.who = u, !.sess = None] OBVIOUS
  <2>11. req' = [req EXCEPT ![p] = n] BY <2>3, <2>10, CoreTypes
  <2>12. RequestSound(n, born, admins, drawnFor)
      BY <1>1, <2>4, <2>10, RequestFacts, DisableStepSound
  <2>13. req[p] \in Request BY RequestFacts
  <2>14. n.pc = "flush" /\ n.who = u /\ n.tfa = None /\ n.sess = None
      BY <1>2, <2>10, <2>13 DEF Request
  <2>15. req'[p] = n BY <2>11, CoreTypes
  <2>16. <<u, None>> \in Flushes(req') BY <2>14, <2>15 DEF Flushes
  <2>17. CopyFresh(s, account, Flushes(req'), lost) BY <2>8, <2>16 DEF CopyFresh
  <2>18. Held(s, account, req', born, admins, lost) BY <2>8, <2>9, <2>17 DEF Held
  <2>19. cookie' = [cookie EXCEPT ![req[p].at] = s] BY <2>3, <2>5, <2>7
  <2>20. cookie' \in [Browsers -> Session \union {None}] BY <2>8, <2>19, CoreTypes
  <2>21. \A b \in Browsers : cookie'[b] = cookie[b] \/ cookie'[b] = s BY <2>19, CoreTypes
  <2>22. \A b \in Browsers : cookie'[b] = cookie[b]
                             \/ Held(cookie'[b], account, req', born, admins, lost)
      BY <2>18, <2>21
  <2> QED BY <1>1, <2>11, <2>12, <2>14, <2>20, <2>22, QuietMove
<1> QED BY <1>3, <1>4

LEMMA VisitSound == ASSUME Core, Recorded, NEW p \in Requests, Visit(p) PROVE Core'
BY QuietSame DEF Visit, At

LEMMA LogoutSound == ASSUME Core, Recorded, NEW p \in Requests, Logout(p) PROVE Core'
BY QuietRespond DEF Logout, At

LEMMA NoExtraSound == ASSUME Core, Recorded, NEW p \in Requests, NoExtra(p) PROVE Core'
BY QuietFinish DEF NoExtra, At

LEMMA CheckPasswordSound ==
    ASSUME Core, Recorded, NEW p \in Requests, CheckPassword(p) PROVE Core'
<1>1. req[p].pc = "changePassword" /\ ~At(p, "flush") /\ UNCHANGED data BY DEF CheckPassword, At
<1>2. CASE Finish(p) BY <1>1, <1>2, QuietFinish
<1>3. CASE Goto(p, [req[p] EXCEPT !.pc = "setOwnPassword"])
    BY <1>1, <1>3, PlainMove DEF PlainSteps
<1> QED BY <1>2, <1>3 DEF CheckPassword

LEMMA ChangeEmailSound == ASSUME Core, Recorded, NEW p \in Requests, ChangeEmail(p) PROVE Core'
<1>1. req[p].pc = "changeEmail" /\ ~At(p, "flush") /\ UNCHANGED data BY DEF ChangeEmail, At
<1>2. CASE Finish(p) BY <1>1, <1>2, QuietFinish
<1>3. CASE Goto(p, [req[p] EXCEPT !.pc = "emailCheck"]) BY <1>1, <1>3, PlainMove DEF PlainSteps
<1> QED BY <1>2, <1>3 DEF ChangeEmail

LEMMA EmailVerifySound == ASSUME Core, Recorded, NEW p \in Requests, EmailVerify(p) PROVE Core'
<1>1. req[p].pc = "emailVerify" /\ ~At(p, "flush") /\ UNCHANGED data BY DEF EmailVerify, At
<1>2. CASE Finish(p) BY <1>1, <1>2, QuietFinish
<1>3. CASE ~Finish(p)
  <2>1. PICK e : e = req[p].sess.email OBVIOUS
  <2>2. PICK r \in RowsOf(e) : Goto(p, [req[p] EXCEPT !.pc = "setEmail", !.email = e])
      BY <1>3, <2>1 DEF EmailVerify
  <2>3. e \in Emails BY <2>2, CoreTypes DEF RowsOf, Profile
  <2>4. PICK n : n = [req[p] EXCEPT !.pc = "setEmail", !.email = e] OBVIOUS
  <2>5. RequestSound(n, born, admins, drawnFor)
      BY <1>1, <2>3, <2>4, RequestFacts, SetEmailStepSound
  <2>6. n.sess = req[p].sess BY <2>4, RequestFacts DEF Request
  <2> QED BY <1>1, <2>2, <2>4, <2>5, <2>6, QuietGoto
<1> QED BY <1>2, <1>3

LEMMA CancelAccountSound ==
    ASSUME Core, Recorded, NEW p \in Requests, CancelAccount(p) PROVE Core'
<1>1. req[p].pc = "cancel" /\ ~At(p, "flush") /\ ~At(p, "idle") /\ UNCHANGED data
    BY DEF CancelAccount, At
<1>2. CASE Die /\ cookie' = [cookie EXCEPT ![req[p].at] = req[p].sess]
    BY <1>1, <1>2, QuietDie
<1>3. CASE req[p].sess.id \in Live
           /\ Goto(p, [req[p] EXCEPT !.pc = "destroy", !.who = req[p].sess.id])
  <2>1. PICK u : u = req[p].sess.id OBVIOUS
  <2>2. u \in Accounts BY <1>3, <2>1, CoreTypes
  <2>3. Goto(p, [req[p] EXCEPT !.pc = "destroy", !.who = u]) BY <1>3, <2>1
  <2> QED BY <1>1, <2>1, <2>2, <2>3, FoundMove DEF FoundSteps
<1> QED BY <1>2, <1>3 DEF CancelAccount

LEMMA AdminEditSound == ASSUME Core, Recorded, NEW p \in Requests, AdminEdit(p) PROVE Core'
<1>1. req[p].pc = "adminEdit" /\ ~At(p, "flush") /\ UNCHANGED data BY DEF AdminEdit, At
<1>2. CASE Finish(p) BY <1>1, <1>2, QuietFinish
<1>3. CASE Goto(p, [req[p] EXCEPT !.pc = "save"]) BY <1>1, <1>3, PlainMove DEF PlainSteps
<1> QED BY <1>2, <1>3 DEF AdminEdit

LEMMA ApiUpdateSound == ASSUME Core, Recorded, NEW p \in Requests, ApiUpdate(p) PROVE Core'
<1>1. req[p].pc = "apiUpdate" /\ ~At(p, "flush") /\ UNCHANGED data BY DEF ApiUpdate, At
<1>2. CASE Finish(p) BY <1>1, <1>2, QuietFinish
<1>3. CASE Goto(p, [req[p] EXCEPT !.pc = "save"]) BY <1>1, <1>3, PlainMove DEF PlainSteps
<1> QED BY <1>2, <1>3 DEF ApiUpdate

LEMMA AdminDeleteSound == ASSUME Core, Recorded, NEW p \in Requests, AdminDelete(p) PROVE Core'
<1>1. req[p].pc = "adminDelete" /\ ~At(p, "flush") /\ ~At(p, "idle") /\ UNCHANGED data
    BY DEF AdminDelete, At
<1>2. CASE Die /\ UNCHANGED cookie BY <1>1, <1>2, QuietDie
<1>3. CASE Goto(p, [req[p] EXCEPT !.pc = "destroy"]) BY <1>1, <1>3, PlainMove DEF PlainSteps
<1> QED BY <1>2, <1>3 DEF AdminDelete

LEMMA ReadAdministratorsSound ==
    ASSUME Core, Recorded, NEW p \in Requests, ReadAdministrators(p) PROVE Core'
<1>1. req[p].pc = "admins" /\ ~At(p, "flush") /\ UNCHANGED data BY DEF ReadAdministrators, At
<1>2. PICK found : found = {u \in Live : account[u].admin} OBVIOUS
<1>3. PICK form, drop : form = req[p].form \ found /\ drop = found \ req[p].form OBVIOUS
<1>4. RequestSound(req[p], born, admins, drawnFor) /\ req[p] \in Request BY RequestFacts
<1>5. form \in SUBSET Accounts /\ drop \in SUBSET Accounts
    BY <1>2, <1>3, <1>4, CoreTypes DEF Request
<1>6. PICK n : n = [req[p] EXCEPT !.pc = "promote", !.form = form, !.drop = drop] OBVIOUS
<1>7. RequestSound(n, born, admins, drawnFor) BY <1>1, <1>4, <1>5, <1>6, PromoteStepSound
<1>8. n.sess = req[p].sess BY <1>4, <1>6 DEF Request
<1>9. Goto(p, n) BY <1>2, <1>3, <1>4, <1>6 DEF ReadAdministrators, Request
<1> QED BY <1>1, <1>7, <1>8, <1>9, QuietGoto

(***************************************************************************)
(* Keys are drawn.                                                         *)
(***************************************************************************)
\* A key that nobody has is drawn: what was said of the other keys stays.
LEMMA DrawnGrows ==
    ASSUME NEW dr \in [Keys -> SUBSET Accounts], NEW k \in Keys, dr[k] = {}, NEW us \in SUBSET Accounts
    PROVE  /\ [dr EXCEPT ![k] = us] \in [Keys -> SUBSET Accounts]
           /\ Grows(dr, [dr EXCEPT ![k] = us])
BY DEF Grows

\* The sessions and requests after a step that may draw keys and make accounts.
LEMMA StepSessions ==
    ASSUME Core, Recorded, NEW p \in Requests, ~At(p, "flush"),
           NEW n, RequestSound(n, born', admins, drawnFor'), req' = [req EXCEPT ![p] = n],
           n.sess # None => n.sess = req[p].sess,
           born \subseteq born', Grows(drawnFor, drawnFor'), TfaKept(account, account', born),
           DOMAIN account' \subseteq Accounts,
           cookie' \in [Browsers -> Session \union {None}],
           \A b \in Browsers :
               cookie'[b] = cookie[b] \/ Held(cookie'[b], account', req', born', admins', lost')
    PROVE  SessionsSound(cookie', req', account', born', admins', drawnFor', lost')
<1>1. SessionsSound(cookie, req, account, born, admins, drawnFor, lost) BY DEF Core
<1>2. admins \subseteq admins' /\ lost \subseteq lost' BY DEF Recorded
<1>3. req[p].pc # "flush" BY DEF At
<1>4. Grows(drawnFor', drawnFor') /\ born' \subseteq born' BY DEF Grows
<1>5. RequestSound(n, born', admins', drawnFor') BY <1>2, <1>4, RequestStaysSound
<1>6. Flushes(req) \subseteq Flushes(req') BY <1>1, <1>3, FlushesStay DEF SessionsSound
<1>7. n.sess # None => CopyFresh(n.sess, account', Flushes(req'), lost')
  <2> SUFFICES ASSUME n.sess # None PROVE CopyFresh(n.sess, account', Flushes(req'), lost')
      OBVIOUS
  <2>1. SessionSound(req[p].sess, born, admins) /\ CopyFresh(req[p].sess, account, Flushes(req), lost)
      BY <1>1 DEF SessionsSound, RequestSound
  <2> QED BY <1>2, <1>6, <2>1, FreshStays
<1> QED BY <1>1, <1>2, <1>3, <1>5, <1>7, MoveSound

\* A request draws a key for an account, and no row changes.
LEMMA DrawMove ==
    ASSUME Core, Recorded, UNCHANGED <<account, profile, letters, born>>, NEW p \in Requests,
           NEW pc, NEW u \in Accounts, NEW e \in Emails, <<req[p].pc, pc>> \in DrawnSteps,
           req[p].pc # "insert", Drawing(p, pc, u, e)
    PROVE  Core'
<1>1. PICK k \in Undrawn :
         /\ drawnFor' = [drawnFor EXCEPT ![k] = {u}]
         /\ Goto(p, [req[p] EXCEPT !.pc = pc, !.who = u, !.key = k, !.email = e])
    BY DEF Drawing
<1>2. k \in Keys /\ drawnFor[k] = {} /\ drawnFor \in [Keys -> SUBSET Accounts]
    BY DEF Undrawn, Core
<1>3. drawnFor' \in [Keys -> SUBSET Accounts] /\ Grows(drawnFor, drawnFor')
    BY <1>1, <1>2, DrawnGrows
<1>4. PICK n : n = [req[p] EXCEPT !.pc = pc, !.who = u, !.key = k, !.email = e] OBVIOUS
<1>5. RequestSound(req[p], born, admins, drawnFor) /\ req[p] \in Request BY RequestFacts
<1>6. RequestSound(n, born, admins, drawnFor) BY <1>2, <1>4, <1>5, DrawnStepSound
<1>7. RequestSound(n, born', admins, drawnFor')
  <2>1. born' = born OBVIOUS
  <2> QED BY <1>3, <1>6, <2>1, RequestStaysSound
<1>8. n.sess = req[p].sess BY <1>4, <1>5 DEF Request
<1>9. req' = [req EXCEPT ![p] = n] /\ cookie' = cookie BY <1>1, <1>4 DEF Goto
<1>10. ~At(p, "flush") BY DEF DrawnSteps, At
<1>11. TfaKept(account, account', born) /\ DOMAIN account' \subseteq Accounts
    BY CoreTypes DEF TfaKept, Live
<1>12. SessionsSound(cookie', req', account', born', admins', drawnFor', lost')
    BY <1>3, <1>7, <1>8, <1>9, <1>10, <1>11, CoreTypes, StepSessions
<1>13. RowsSound(account, profile, born, drawnFor') BY <1>3, RowsStaySound DEF Core
<1>14. LettersSound(letters)' BY DEF Core
<1> QED BY <1>3, <1>12, <1>13, <1>14 DEF Core

LEMMA PasswordSendEmailSound ==
    ASSUME Core, Recorded, NEW p \in Requests, PasswordSendEmail(p) PROVE Core'
<1>1. req[p].pc = "passwordRequest" /\ ~At(p, "flush") /\ UNCHANGED <<account, profile, letters, born>>
    BY DEF PasswordSendEmail, At
<1>2. CASE Finish(p) /\ UNCHANGED drawnFor BY <1>1, <1>2, QuietFinish DEF data
<1>3. CASE req[p].email \in Addresses /\ Drawing(p, "find", Owner(req[p].email), req[p].email)
  <2>1. PICK e, u : e = req[p].email /\ u = Owner(e) OBVIOUS
  <2>2. u \in Accounts /\ e \in Emails
      BY <1>3, <2>1, OwnerOf, CoreTypes DEF Addresses, Account
  <2> QED BY <1>1, <1>3, <2>1, <2>2, DrawMove DEF DrawnSteps
<1> QED BY <1>2, <1>3 DEF PasswordSendEmail

LEMMA AvoidTfaEmailSound ==
    ASSUME Core, Recorded, NEW p \in Requests, AvoidTfaEmail(p) PROVE Core'
<1>1. req[p].pc = "avoid" /\ ~At(p, "flush") /\ UNCHANGED <<account, profile, letters, born>>
    BY DEF AvoidTfaEmail, At
<1>2. CASE Finish(p) /\ UNCHANGED drawnFor BY <1>1, <1>2, QuietFinish DEF data
<1>3. CASE req[p].email \in Addresses /\ Drawing(p, "find", Owner(req[p].email), req[p].email)
  <2>1. PICK e, u : e = req[p].email /\ u = Owner(e) OBVIOUS
  <2>2. u \in Accounts /\ e \in Emails
      BY <1>3, <2>1, OwnerOf, CoreTypes DEF Addresses, Account
  <2> QED BY <1>1, <1>3, <2>1, <2>2, DrawMove DEF DrawnSteps
<1> QED BY <1>2, <1>3 DEF AvoidTfaEmail

LEMMA ResendConfirmationSound ==
    ASSUME Core, Recorded, NEW p \in Requests, ResendConfirmation(p) PROVE Core'
<1>1. req[p].pc = "resend" /\ ~At(p, "flush") /\ UNCHANGED <<account, profile, letters, born>>
    BY DEF ResendConfirmation, At
<1>2. CASE Finish(p) /\ UNCHANGED drawnFor BY <1>1, <1>2, QuietFinish DEF data
<1>3. CASE req[p].email \in Addresses
           /\ Drawing(p, "mailAgain", Owner(req[p].email), req[p].email)
  <2>1. PICK e, u : e = req[p].email /\ u = Owner(e) OBVIOUS
  <2>2. u \in Accounts /\ e \in Emails
      BY <1>3, <2>1, OwnerOf, CoreTypes DEF Addresses, Account
  <2> QED BY <1>1, <1>3, <2>1, <2>2, DrawMove DEF DrawnSteps
<1> QED BY <1>2, <1>3 DEF ResendConfirmation

LEMMA ChangeEmailCheckSound ==
    ASSUME Core, Recorded, NEW p \in Requests, ChangeEmailCheck(p) PROVE Core'
<1>1. req[p].pc = "emailCheck" /\ ~At(p, "flush") /\ ~At(p, "idle")
      /\ UNCHANGED <<account, profile, letters, born>>
    BY DEF ChangeEmailCheck, At
<1>2. CASE Finish(p) /\ UNCHANGED drawnFor BY <1>1, <1>2, QuietFinish DEF data
<1>3. CASE Die /\ UNCHANGED <<cookie, drawnFor>> BY <1>1, <1>3, QuietDie DEF data
<1>4. CASE req[p].sess.id \in Live
           /\ Drawing(p, "find", req[p].sess.id, account[req[p].sess.id].email)
  <2>1. PICK u, e : u = req[p].sess.id /\ e = account[u].email OBVIOUS
  <2>2. u \in Accounts /\ e \in Emails BY <1>4, <2>1, CoreTypes DEF Account
  <2> QED BY <1>1, <1>4, <2>1, <2>2, DrawMove DEF DrawnSteps
<1> QED BY <1>2, <1>3, <1>4 DEF ChangeEmailCheck

\* A letter is sent: the key counts as drawn for the account at its address, too.
LEMMA MailSound ==
    ASSUME Core, NEW p \in Requests, req[p].pc \in {"write", "mailAgain"},
           NEW holders \in SUBSET Accounts, Mail(p, holders)
    PROVE  /\ KindOf[req[p].kind] \in KeyKinds /\ req[p].key \in Keys
           /\ LettersSound(letters')
           /\ drawnFor' \in [Keys -> SUBSET Accounts]
           /\ Grows(drawnFor, drawnFor')
           /\ \A u \in holders : u \in drawnFor'[req[p].key]
           /\ \A u \in Live : account[u].email = req[p].email => u \in drawnFor'[req[p].key]
<1>1. /\ RequestSound(req[p], born, admins, drawnFor) /\ req[p] \in Request
      /\ Course(req[p]) /\ Fields(req[p])
    BY RequestFacts DEF At
<1>2. PICK k, kind : k = req[p].key /\ kind = KindOf[req[p].kind] OBVIOUS
<1>3. k \in Keys /\ req[p].email \in Emails BY <1>1, <1>2 DEF Fields
<1>4. req[p].kind \in {"signUp", "passwordRequest", "changeEmail", "avoid", "resend"}
    BY <1>1 DEF Course
<1>5. kind \in KeyKinds /\ (kind = "verification" => req[p].kind = "changeEmail")
    BY <1>2, <1>4 DEF KindOf, KeyKinds
<1>6. PICK l : l = [kind |-> kind, key |-> k, to |-> req[p].email, new |-> req[p].new] OBVIOUS
<1>7. l \in Letter BY <1>1, <1>3, <1>5, <1>6 DEF Letter, Request
<1>8. l.kind = "verification" => l.new \in Emails BY <1>1, <1>5, <1>6 DEF Fields
<1>9. letters' = letters \union {l} BY <1>2, <1>6 DEF Mail
<1>10. LettersSound(letters) BY DEF Core
<1>11. LettersSound(letters') BY <1>7, <1>8, <1>9, <1>10 DEF LettersSound
<1>12. drawnFor \in [Keys -> SUBSET Accounts] BY DEF Core
<1>13. PICK us : us = drawnFor[k] \union holders \union {u \in Live : account[u].email = req[p].email}
    OBVIOUS
<1>14. us \in SUBSET Accounts BY <1>3, <1>12, <1>13, CoreTypes
<1>15. drawnFor' = [drawnFor EXCEPT ![k] = us] BY <1>2, <1>13 DEF Mail
<1>16. drawnFor' \in [Keys -> SUBSET Accounts] BY <1>3, <1>12, <1>14, <1>15
<1>17. Grows(drawnFor, drawnFor') BY <1>3, <1>12, <1>13, <1>15 DEF Grows
<1>18. drawnFor'[k] = us BY <1>3, <1>12, <1>15
<1> QED BY <1>2, <1>3, <1>5, <1>11, <1>13, <1>16, <1>17, <1>18

\* The answers after a letter.
LEMMA EndSound ==
    ASSUME Core, Recorded, NEW p \in Requests, ~At(p, "flush"),
           \/ Finish(p)
           \/ RespondSame(p)
           \/ Respond(p, None),
           born \subseteq born', Grows(drawnFor, drawnFor'), TfaKept(account, account', born),
           DOMAIN account' \subseteq Accounts
    PROVE  SessionsSound(cookie', req', account', born', admins', drawnFor', lost')
<1>1. RequestSound(NoRequest, born', admins, drawnFor') /\ NoRequest.sess = None
    BY NoRequestSound DEF NoRequest
<1>2. req' = [req EXCEPT ![p] = NoRequest] BY DEF Finish, RespondSame, Goto, Respond
<1>3. SessionsSound(cookie, req, account, born, admins, drawnFor, lost) BY DEF Core
<1>4. req[p].sess \in Session \union {None} BY RequestFacts
<1>5. PICK s : /\ s \in {None, req[p].sess}
               /\ cookie' = cookie \/ cookie' = [cookie EXCEPT ![req[p].at] = s]
    BY DEF Finish, RespondSame, Goto, Respond
<1>6. cookie' \in [Browsers -> Session \union {None}] BY <1>4, <1>5, CoreTypes
<1>7. admins \subseteq admins' /\ lost \subseteq lost' BY DEF Recorded
<1>8. Flushes(req) \subseteq Flushes(req') BY <1>2, CoreTypes, FlushesStay DEF At
<1>9. Held(s, account', req', born', admins', lost')
  <2>1. s \in Session \union {None} BY <1>4, <1>5
  <2>2. ASSUME s # None
        PROVE  SessionSound(s, born', admins') /\ CopyFresh(s, account', Flushes(req'), lost')
    <3>1. s = req[p].sess BY <1>5, <2>2
    <3>2. SessionSound(s, born, admins) /\ CopyFresh(s, account, Flushes(req), lost)
        BY <1>3, <2>2, <3>1 DEF SessionsSound, RequestSound
    <3>3. SessionSound(s, born', admins') BY <1>7, <3>2, SessionStaysSound
    <3>4. CopyFresh(s, account', Flushes(req'), lost') BY <1>7, <1>8, <3>2, FreshStays
    <3> QED BY <3>3, <3>4
  <2> QED BY <2>1, <2>2 DEF Held
<1>10. \A b \in Browsers : cookie'[b] = cookie[b] \/ cookie'[b] = s BY <1>5, CoreTypes
<1>11. \A b \in Browsers :
          cookie'[b] = cookie[b] \/ Held(cookie'[b], account', req', born', admins', lost')
    BY <1>9, <1>10
<1> QED BY <1>1, <1>2, <1>6, <1>11, StepSessions

LEMMA UpdateProfileSound ==
    ASSUME Core, Recorded, NEW p \in Requests, UpdateProfile(p) PROVE Core'
<1> DEFINE holders == {u \in Live : req[p].row \in RowsOf(account[u].email)}
<1>1. req[p].pc = "write" /\ ~At(p, "flush") /\ account' = account /\ born' = born
    BY DEF UpdateProfile, At
<1>2. holders \in SUBSET Accounts BY CoreTypes
<1>3. Mail(p, holders) BY DEF UpdateProfile, Mailing
<1>4. /\ KindOf[req[p].kind] \in KeyKinds /\ req[p].key \in Keys
      /\ LettersSound(letters')
      /\ drawnFor' \in [Keys -> SUBSET Accounts]
      /\ Grows(drawnFor, drawnFor')
      /\ \A u \in holders : u \in drawnFor'[req[p].key]
    BY <1>1, <1>2, <1>3, MailSound
<1>5. PICK k, kind : k = req[p].key /\ kind = KindOf[req[p].kind] OBVIOUS
<1>6. RowsSound(account, profile, born, drawnFor') BY <1>4, RowsStaySound DEF Core
<1>7. profile' = Keyed(profile, {req[p].row}, kind, k) BY <1>5 DEF UpdateProfile, Keyed
<1>8. \A r \in DOMAIN profile \intersect {req[p].row}, u \in DOMAIN account :
         account[u].email = profile[r].email => u \in drawnFor'[k]
  <2> SUFFICES ASSUME NEW r \in DOMAIN profile, r = req[p].row, NEW u \in DOMAIN account,
                      account[u].email = profile[r].email
               PROVE  u \in drawnFor'[k]
      OBVIOUS
  <2>1. u \in holders BY DEF RowsOf, Live
  <2> QED BY <1>4, <1>5, <2>1
<1>9. RowsSound(account, profile', born, drawnFor') BY <1>4, <1>5, <1>6, <1>7, <1>8, KeyedSound
<1>10. TfaKept(account, account', born) /\ DOMAIN account' \subseteq Accounts
    BY <1>1, CoreTypes DEF TfaKept, Live
<1>11. Finish(p) \/ RespondSame(p) BY DEF UpdateProfile, Mailing
<1>12. SessionsSound(cookie', req', account', born', admins', drawnFor', lost')
    BY <1>1, <1>4, <1>10, <1>11, EndSound
<1> QED BY <1>1, <1>4, <1>9, <1>12 DEF Core

LEMMA CreateProfileSound ==
    ASSUME Core, Recorded, NEW p \in Requests, CreateProfile(p) PROVE Core'
<1>1. req[p].pc = "write" /\ ~At(p, "flush") /\ ~At(p, "idle") /\ account' = account /\ born' = born
    BY DEF CreateProfile, At
<1>2. CASE Die /\ UNCHANGED cookie /\ UNCHANGED <<profile, letters, drawnFor>>
    BY <1>1, <1>2, QuietDie DEF data
<1>3. CASE Finish(p) /\ UNCHANGED <<profile, letters, drawnFor>>
    BY <1>1, <1>3, QuietFinish DEF data
<1>4. CASE req[p].email \in Addresses
  <2>1. PICK e, k, kind : e = req[p].email /\ k = req[p].key /\ kind = KindOf[req[p].kind]
      OBVIOUS
  <2>2. PICK row \in FreeRows : profile' = Added(profile, row, e, kind, k)
      BY <1>4, <2>1 DEF CreateProfile, Added
  <2>3. row \in Rows \ DOMAIN profile BY <2>2 DEF FreeRows
  <2>4. Mail(p, {}) /\ (Finish(p) \/ RespondSame(p)) BY <1>4 DEF CreateProfile, Mailing
  <2>5. {} \in SUBSET Accounts OBVIOUS
  <2>6. /\ kind \in KeyKinds /\ k \in Keys
        /\ LettersSound(letters')
        /\ drawnFor' \in [Keys -> SUBSET Accounts]
        /\ Grows(drawnFor, drawnFor')
        /\ \A u \in Live : account[u].email = e => u \in drawnFor'[k]
      BY <1>1, <2>1, <2>4, <2>5, MailSound
  <2>7. RowsSound(account, profile, born, drawnFor') BY <2>6, RowsStaySound DEF Core
  <2>8. \E u \in DOMAIN account : account[u].email = e BY <1>4, <2>1 DEF Addresses, Live
  <2>9. RowsSound(account, profile', born, drawnFor')
      BY <2>2, <2>3, <2>6, <2>7, <2>8, AddedSound DEF Live
  <2>10. TfaKept(account, account', born) /\ DOMAIN account' \subseteq Accounts
      BY <1>1, CoreTypes DEF TfaKept, Live
  <2>11. SessionsSound(cookie', req', account', born', admins', drawnFor', lost')
      BY <1>1, <2>4, <2>6, <2>10, EndSound
  <2> QED BY <1>1, <2>6, <2>9, <2>11 DEF Core
<1> QED BY <1>2, <1>3, <1>4 DEF CreateProfile

LEMMA MailAgainSound == ASSUME Core, Recorded, NEW p \in Requests, MailAgain(p) PROVE Core'
<1>1. req[p].pc = "mailAgain" /\ ~At(p, "flush") /\ account' = account /\ born' = born
    BY DEF MailAgain, At
<1>2. PICK e, k : e = req[p].email /\ k = req[p].key OBVIOUS
<1>3. KindOf[req[p].kind] = "activation" BY <1>1, RequestFacts DEF Course, At, KindOf
<1>4. profile' = Keyed(profile, RowsOf(e), "activation", k) BY <1>2 DEF MailAgain, Keyed
<1>5. {} \in SUBSET Accounts OBVIOUS
<1>6. /\ k \in Keys /\ LettersSound(letters')
      /\ drawnFor' \in [Keys -> SUBSET Accounts]
      /\ Grows(drawnFor, drawnFor')
      /\ \A u \in Live : account[u].email = e => u \in drawnFor'[k]
    BY <1>1, <1>2, <1>5, MailSound DEF MailAgain
<1>7. RowsSound(account, profile, born, drawnFor') BY <1>6, RowsStaySound DEF Core
<1>8. \A r \in DOMAIN profile \intersect RowsOf(e), u \in DOMAIN account :
         account[u].email = profile[r].email => u \in drawnFor'[k]
    BY <1>6 DEF RowsOf, Live
<1>9. RowsSound(account, profile', born, drawnFor')
    BY <1>4, <1>6, <1>7, <1>8, KeyedSound DEF KeyKinds
<1>10. TfaKept(account, account', born) /\ DOMAIN account' \subseteq Accounts
    BY <1>1, CoreTypes DEF TfaKept, Live
<1>11. SessionsSound(cookie', req', account', born', admins', drawnFor', lost')
    BY <1>1, <1>6, <1>10, EndSound DEF MailAgain
<1> QED BY <1>1, <1>6, <1>9, <1>11 DEF Core

(***************************************************************************)
(* Accounts are made, changed and deleted.                                 *)
(***************************************************************************)
LEMMA NewAccountSound ==
    ASSUME NEW q, q.email \in Emails, q.word \in Passwords, NEW enabled \in BOOLEAN
    PROVE  /\ NewAccount(q, enabled) \in Account
           /\ NewAccount(q, enabled).email = q.email
           /\ NewAccount(q, enabled).tfa = None
BY DEF NewAccount, Account, Tfa

LEMMA InsertKeeps ==
    ASSUME Core, NEW u \in Accounts \ Live, NEW a \in Account, Insert(u, a), a.tfa = None,
           u \in External \/ u \notin born, a.email \notin Addresses
    PROVE  /\ RowsSound(account', profile, born', drawnFor)
           /\ TfaKept(account, account', born) /\ DOMAIN account' \subseteq Accounts
           /\ born \subseteq born'
<1>1. account' = Inserted(account, u, a) /\ born' = born \union {u} BY DEF Insert, Inserted, Live
<1>2. \A v \in DOMAIN account : account[v].email # a.email BY DEF Addresses, Live
<1>3. RowsSound(account', profile, born', drawnFor)
    BY <1>1, <1>2, InsertSound DEF Core, Live
<1>4. /\ DOMAIN account' = DOMAIN account \union {u} /\ account'[u] = a
      /\ \A v \in DOMAIN account : account'[v] = account[v]
    BY <1>1 DEF Inserted, Live
<1>5. TfaKept(account, account', born) BY <1>4 DEF TfaKept, Live
<1> QED BY <1>1, <1>3, <1>4, <1>5, CoreTypes DEF Live

LEMMA SignUpSound == ASSUME Core, Recorded, NEW p \in Requests, SignUp(p) PROVE Core'
<1>1. req[p].pc = "insert" /\ req[p].kind = "signUp" /\ ~At(p, "flush") /\ ~At(p, "idle")
      /\ profile' = profile /\ letters' = letters
    BY DEF SignUp, At
<1>2. CASE Die /\ UNCHANGED <<account, born, cookie, drawnFor>>
    BY <1>1, <1>2, QuietDie DEF data
<1>3. CASE req[p].email \notin Addresses
  <2>1. PICK u \in Accounts \ (born \union External) :
               Insert(u, NewAccount(req[p], FALSE)) /\ Drawing(p, "find", u, req[p].email)
      BY <1>3 DEF SignUp
  <2>2. req[p].email \in Emails /\ req[p].word \in Passwords BY <1>1, RequestFacts DEF Fields, At
  <2>3. PICK a : a = NewAccount(req[p], FALSE) OBVIOUS
  <2>4. a \in Account /\ a.email = req[p].email /\ a.tfa = None BY <2>2, <2>3, NewAccountSound
  <2>5. u \in Accounts \ Live BY <2>1, CoreTypes
  <2>6. /\ RowsSound(account', profile, born', drawnFor)
        /\ TfaKept(account, account', born) /\ DOMAIN account' \subseteq Accounts
        /\ born \subseteq born'
      BY <1>3, <2>1, <2>3, <2>4, <2>5, InsertKeeps
  <2>7. PICK e : e = req[p].email OBVIOUS
  <2>8. PICK k \in Undrawn :
         /\ drawnFor' = [drawnFor EXCEPT ![k] = {u}]
         /\ Goto(p, [req[p] EXCEPT !.pc = "find", !.who = u, !.key = k, !.email = e])
      BY <2>1, <2>7 DEF Drawing
  <2>9. k \in Keys /\ drawnFor[k] = {} /\ drawnFor \in [Keys -> SUBSET Accounts]
      BY DEF Undrawn, Core
  <2>10. drawnFor' \in [Keys -> SUBSET Accounts] /\ Grows(drawnFor, drawnFor')
      BY <2>8, <2>9, DrawnGrows
  <2>11. PICK n : n = [req[p] EXCEPT !.pc = "find", !.who = u, !.key = k, !.email = e] OBVIOUS
  <2>12. RequestSound(req[p], born, admins, drawnFor) /\ req[p] \in Request BY RequestFacts
  <2>13. e \in Emails /\ <<req[p].pc, "find">> \in DrawnSteps BY <1>1, <2>2, <2>7 DEF DrawnSteps
  <2>14. RequestSound(n, born, admins, drawnFor)
      BY <1>1, <2>9, <2>11, <2>12, <2>13, DrawnStepSound
  <2>15. RequestSound(n, born', admins, drawnFor') BY <2>6, <2>10, <2>14, RequestStaysSound
  <2>16. n.sess = req[p].sess BY <2>11, <2>12 DEF Request
  <2>17. req' = [req EXCEPT ![p] = n] /\ cookie' = cookie BY <2>8, <2>11 DEF Goto
  <2>18. SessionsSound(cookie', req', account', born', admins', drawnFor', lost')
      BY <1>1, <2>6, <2>10, <2>15, <2>16, <2>17, CoreTypes, StepSessions
  <2>19. RowsSound(account', profile, born', drawnFor') BY <2>6, <2>10, RowsStaySound
  <2>20. LettersSound(letters)' BY <1>1 DEF Core
  <2> QED BY <1>1, <2>10, <2>18, <2>19, <2>20 DEF Core
<1> QED BY <1>2, <1>3 DEF SignUp

\* A request ends with a change of the rows that keeps the two-factor settings.
LEMMA EndMove ==
    ASSUME Core, Recorded, NEW p \in Requests, ~At(p, "flush"),
           Finish(p) \/ RespondSame(p) \/ Respond(p, None),
           RowsSound(account', profile', born', drawnFor'), letters' = letters,
           drawnFor' = drawnFor, born \subseteq born', TfaKept(account, account', born),
           DOMAIN account' \subseteq Accounts
    PROVE  Core'
<1>1. Grows(drawnFor, drawnFor') BY DEF Grows
<1>2. SessionsSound(cookie', req', account', born', admins', drawnFor', lost') BY <1>1, EndSound
<1>3. LettersSound(letters') /\ drawnFor' \in [Keys -> SUBSET Accounts] BY DEF Core
<1> QED BY <1>2, <1>3 DEF Core

LEMMA CreateByAdministratorSound ==
    ASSUME Core, Recorded, NEW p \in Requests, CreateByAdministrator(p) PROVE Core'
<1>1. /\ req[p].pc = "insert" /\ ~At(p, "flush") /\ ~At(p, "idle") /\ Finish(p)
      /\ profile' = profile /\ letters' = letters /\ drawnFor' = drawnFor
    BY DEF CreateByAdministrator, At
<1>2. CASE UNCHANGED <<account, born>> BY <1>1, <1>2, QuietFinish DEF data
<1>3. CASE req[p].email \notin Addresses /\ ~UNCHANGED <<account, born>>
  <2>1. PICK u \in Accounts \ (born \union External) : Insert(u, NewAccount(req[p], req[p].flag))
      BY <1>3 DEF CreateByAdministrator
  <2>2. req[p].email \in Emails /\ req[p].word \in Passwords /\ req[p].flag \in BOOLEAN
    <3>1. req[p].kind \in {"signUp", "adminCreate", "apiCreate"}
        BY <1>1, RequestFacts DEF Course
    <3>2. req[p].flag \in BOOLEAN BY RequestFacts DEF Request
    <3> QED BY <1>1, <3>1, <3>2, RequestFacts DEF Fields
  <2>3. PICK a : a = NewAccount(req[p], req[p].flag) OBVIOUS
  <2>4. a \in Account /\ a.email = req[p].email /\ a.tfa = None BY <2>2, <2>3, NewAccountSound
  <2>5. u \in Accounts \ Live BY <2>1, CoreTypes
  <2>6. /\ RowsSound(account', profile, born', drawnFor)
        /\ TfaKept(account, account', born) /\ DOMAIN account' \subseteq Accounts
        /\ born \subseteq born'
      BY <1>3, <2>1, <2>3, <2>4, <2>5, InsertKeeps
  <2> QED BY <1>1, <2>6, EndMove
<1> QED BY <1>2, <1>3 DEF CreateByAdministrator

LEMMA CreateLocalSound == ASSUME Core, Recorded, NEW p \in Requests, CreateLocal(p) PROVE Core'
<1> DEFINE u == req[p].who
<1>1. /\ req[p].pc = "saveLocal" /\ ~At(p, "flush") /\ ~At(p, "idle")
      /\ profile' = profile /\ letters' = letters /\ drawnFor' = drawnFor
    BY DEF CreateLocal, At
<1>2. CASE Die /\ UNCHANGED <<cookie, account, born>> BY <1>1, <1>2, QuietDie DEF data
<1>3. CASE req[p].email \notin Addresses /\ u \notin Live
  <2>1. PICK w \in Passwords :
              /\ Insert(u, NewAccount([req[p] EXCEPT !.word = w], TRUE))
              /\ Respond(p, BareSession(u, req[p].email, FALSE))
      BY <1>3 DEF CreateLocal
  <2>2. req[p] \in Request /\ u \in External /\ req[p].email \in Emails
      BY <1>1, RequestFacts DEF Course, Fields
  <2>3. u \in Accounts \ Live BY <1>3, <2>2, AccountsStartsAssumption
  <2>4. PICK q : q = [req[p] EXCEPT !.word = w] OBVIOUS
  <2>5. q.email = req[p].email /\ q.word = w BY <2>2, <2>4 DEF Request
  <2>6. PICK a : a = NewAccount(q, TRUE) OBVIOUS
  <2>7. a \in Account /\ a.email = req[p].email /\ a.tfa = None
      BY <2>2, <2>5, <2>6, NewAccountSound
  <2>8. /\ RowsSound(account', profile, born', drawnFor)
        /\ TfaKept(account, account', born) /\ DOMAIN account' \subseteq Accounts
        /\ born \subseteq born'
      BY <1>3, <2>1, <2>2, <2>3, <2>4, <2>6, <2>7, InsertKeeps
  <2>9. PICK s : s = BareSession(u, req[p].email, FALSE) OBVIOUS
  <2>10. s \in Session /\ SessionSound(s, born', admins')
         /\ \A acc, fl, ls : CopyFresh(s, acc, fl, ls)
      BY <2>2, <2>3, <2>9, BareSound
  <2>11. Held(s, account', req', born', admins', lost') BY <2>10 DEF Held
  <2>12. req' = [req EXCEPT ![p] = NoRequest] /\ cookie' = [cookie EXCEPT ![req[p].at] = s]
      BY <2>1, <2>9 DEF Respond
  <2>13. cookie' \in [Browsers -> Session \union {None}] BY <2>10, <2>12, CoreTypes
  <2>14. \A b \in Browsers : cookie'[b] = cookie[b] \/ cookie'[b] = s BY <2>12, CoreTypes
  <2>15. \A b \in Browsers : cookie'[b] = cookie[b]
                             \/ Held(cookie'[b], account', req', born', admins', lost')
      BY <2>11, <2>14
  <2>16. RequestSound(NoRequest, born', admins, drawnFor') /\ NoRequest.sess = None
      BY NoRequestSound DEF NoRequest
  <2>17. Grows(drawnFor, drawnFor') BY <1>1 DEF Grows
  <2>18. SessionsSound(cookie', req', account', born', admins', drawnFor', lost')
      BY <1>1, <2>8, <2>12, <2>13, <2>15, <2>16, <2>17, StepSessions
  <2>19. LettersSound(letters)' /\ drawnFor' \in [Keys -> SUBSET Accounts] BY <1>1 DEF Core
  <2> QED BY <1>1, <2>8, <2>18, <2>19 DEF Core
<1> QED BY <1>2, <1>3 DEF CreateLocal

\* One account is changed, but not its address or its two-factor settings.
LEMMA ChangeMove ==
    ASSUME Core, Recorded, NEW p \in Requests, ~At(p, "flush"),
           Finish(p) \/ RespondSame(p) \/ Respond(p, None),
           UNCHANGED <<profile, letters, born, drawnFor>>,
           NEW u, NEW a,
           u \in Live => a \in Account /\ a.email = account[u].email /\ a.tfa = account[u].tfa,
           account' = IF u \in Live THEN [account EXCEPT ![u] = a] ELSE account
    PROVE  Core'
<1>1. CASE u \notin Live
  <2>1. account' = account BY <1>1
  <2>2. RowsSound(account', profile', born', drawnFor') BY <2>1 DEF Core
  <2>3. TfaKept(account, account', born) /\ DOMAIN account' \subseteq Accounts
      BY <2>1, CoreTypes DEF TfaKept, Live
  <2> QED BY <2>2, <2>3, EndMove
<1>2. CASE u \in Live
  <2>1. account' = Changed(account, u, a) BY <1>2 DEF Changed
  <2>2. /\ u \in DOMAIN account /\ a \in Account /\ a.email = account[u].email
        /\ u \in External => a.tfa = None
      BY <1>2, CoreTypes DEF Live
  <2>3. RowsSound(account, profile, born, drawnFor) BY DEF Core
  <2>4. RowsSound(Changed(account, u, a), profile, born, drawnFor)
      BY <2>2, <2>3, KeptAddressSound
  <2>5. /\ DOMAIN account' = DOMAIN account /\ account'[u] = a
        /\ \A v \in DOMAIN account : v # u => account'[v] = account[v]
      BY <1>2, <2>1, CoreTypes DEF Changed, Live
  <2>6. TfaKept(account, account', born) /\ DOMAIN account' \subseteq Accounts
      BY <1>2, <2>5, CoreTypes DEF TfaKept, Live
  <2> QED BY <2>1, <2>4, <2>6, EndMove
<1> QED BY <1>1, <1>2

LEMMA SavePasswordMove ==
    ASSUME Core, Recorded, NEW p \in Requests, NEW u, ~At(p, "flush"), SavePassword(p, u),
           req[p].word \in Passwords, Finish(p) \/ RespondSame(p) \/ Respond(p, None)
    PROVE  Core'
<1>1. PICK a : a = [account[u] EXCEPT !.pass = req[p].word] OBVIOUS
<1>2. u \in Live => a \in Account /\ a.email = account[u].email /\ a.tfa = account[u].tfa
  <2> SUFFICES ASSUME u \in Live
               PROVE  a \in Account /\ a.email = account[u].email /\ a.tfa = account[u].tfa
      OBVIOUS
  <2>1. account[u] \in Account BY CoreTypes
  <2> QED BY <1>1, <2>1 DEF Account
<1>3. account' = IF u \in Live THEN [account EXCEPT ![u] = a] ELSE account
    BY <1>1 DEF SavePassword
<1> QED BY <1>2, <1>3, ChangeMove DEF SavePassword

LEMMA SetPasswordSound == ASSUME Core, Recorded, NEW p \in Requests, SetPassword(p) PROVE Core'
<1>1. req[p].word \in Passwords /\ ~At(p, "flush")
    BY RequestFacts DEF SetPassword, Course, Fields, At
<1> QED BY <1>1, SavePasswordMove DEF SetPassword

LEMMA SetOwnPasswordSound ==
    ASSUME Core, Recorded, NEW p \in Requests, SetOwnPassword(p) PROVE Core'
<1>1. req[p].word \in Passwords /\ ~At(p, "flush")
    BY RequestFacts DEF SetOwnPassword, Course, Fields, At
<1> QED BY <1>1, SavePasswordMove DEF SetOwnPassword

LEMMA AdminPasswordSound == ASSUME Core, Recorded, NEW p \in Requests, AdminPassword(p) PROVE Core'
<1>1. req[p].word \in Passwords /\ ~At(p, "flush")
    BY RequestFacts DEF AdminPassword, Course, Fields, At, Kinds, AdminKinds
<1> QED BY <1>1, SavePasswordMove DEF AdminPassword

LEMMA EnableMove ==
    ASSUME Core, Recorded, NEW p \in Requests, ~At(p, "flush"), Finish(p),
           UNCHANGED <<profile, letters, born, drawnFor>>, NEW u, NEW value \in BOOLEAN,
           account' = IF u \in Live THEN [account EXCEPT ![u].enabled = value] ELSE account
    PROVE  Core'
<1>1. PICK a : a = [account[u] EXCEPT !.enabled = value] OBVIOUS
<1>2. u \in Live => a \in Account /\ a.email = account[u].email /\ a.tfa = account[u].tfa
  <2> SUFFICES ASSUME u \in Live
               PROVE  a \in Account /\ a.email = account[u].email /\ a.tfa = account[u].tfa
      OBVIOUS
  <2>1. account[u] \in Account BY CoreTypes
  <2> QED BY <1>1, <2>1 DEF Account
<1>3. account' = IF u \in Live THEN [account EXCEPT ![u] = a] ELSE account
    BY <1>1
<1> QED BY <1>2, <1>3, ChangeMove

LEMMA SaveEnabledSound == ASSUME Core, Recorded, NEW p \in Requests, SaveEnabled(p) PROVE Core'
BY EnableMove DEF SaveEnabled, At

LEMMA AdminEnableSound == ASSUME Core, Recorded, NEW p \in Requests, AdminEnable(p) PROVE Core'
<1>1. req[p].flag \in BOOLEAN BY RequestFacts DEF Request
<1> QED BY <1>1, EnableMove DEF AdminEnable, At

LEMMA DestroyedSound ==
    ASSUME Core, Recorded, NEW p \in Requests, ~At(p, "flush"), Finish(p) \/ Respond(p, None),
           UNCHANGED <<letters, born, drawnFor>>,
           IF req[p].who \in Live THEN Destroyed(req[p].who) ELSE UNCHANGED <<account, profile>>
    PROVE  Core'
<1>1. RowsSound(account, profile, born, drawnFor) BY DEF Core
<1>2. CASE UNCHANGED <<account, profile>>
  <2>1. TfaKept(account, account', born) /\ DOMAIN account' \subseteq Accounts
      BY <1>2, CoreTypes DEF TfaKept, Live
  <2> QED BY <1>1, <1>2, <2>1, EndMove
<1>3. CASE req[p].who \in Live /\ Destroyed(req[p].who)
  <2>1. PICK u : u = req[p].who OBVIOUS
  <2>2. account' = Without(account, u) BY <1>3, <2>1 DEF Destroyed, Without, Live
  <2>3. profile' = Orphaned(account', profile)
    <3>1. DOMAIN account' = Live \ {u} /\ \A v \in Live \ {u} : account'[v] = account[v]
        BY <2>2 DEF Without, Live
    <3>2. {account[v].email : v \in Live \ {u}} = {account'[v].email : v \in DOMAIN account'}
        BY <3>1
    <3> QED BY <1>3, <2>1, <3>2 DEF Destroyed, Orphaned
  <2>4. RowsSound(account', profile', born, drawnFor)
      BY <1>1, <1>3, <2>1, <2>2, <2>3, DestroySound DEF Live
  <2>5. DOMAIN account' = DOMAIN account \ {u} /\ \A v \in DOMAIN account' : account'[v] = account[v]
      BY <2>2 DEF Without
  <2>6. TfaKept(account, account', born) /\ DOMAIN account' \subseteq Accounts
      BY <2>5, CoreTypes DEF TfaKept, Live
  <2> QED BY <2>4, <2>6, EndMove
<1> QED BY <1>2, <1>3

LEMMA DestroyStepSound == ASSUME Core, Recorded, NEW p \in Requests, Destroy(p) PROVE Core'
<1>1. ~At(p, "flush") BY DEF Destroy, At
<1>2. Finish(p) \/ Respond(p, None) BY DEF Destroy
<1> QED BY <1>1, <1>2, DestroyedSound DEF Destroy

LEMMA ApiDeleteSound == ASSUME Core, Recorded, NEW p \in Requests, ApiDelete(p) PROVE Core'
<1>1. ~At(p, "flush") BY DEF ApiDelete, At
<1> QED BY <1>1, DestroyedSound DEF ApiDelete

LEMMA SetAdminKeeps ==
    ASSUME Core, NEW us, NEW value \in BOOLEAN, SetAdmin(us, value)
    PROVE  /\ RowsSound(account', profile, born, drawnFor)
           /\ TfaKept(account, account', born) /\ DOMAIN account' \subseteq Accounts
<1>1. account' = Appointed(account, us, value) BY DEF SetAdmin, Appointed, Live
<1>2. RowsSound(account', profile, born, drawnFor) BY <1>1, AppointSound DEF Core
<1>3. \A u \in Live : account[u] \in Account BY CoreTypes
<1>4. DOMAIN account' = Live /\ \A u \in Live : account'[u].tfa = account[u].tfa
    BY <1>1, <1>3 DEF Appointed, Account, Live
<1>5. TfaKept(account, account', born) BY <1>4 DEF TfaKept, Live
<1> QED BY <1>2, <1>4, <1>5, CoreTypes

LEMMA PromoteSound == ASSUME Core, Recorded, NEW p \in Requests, Promote(p) PROVE Core'
<1>1. /\ req[p].pc = "promote" /\ ~At(p, "flush") /\ SetAdmin(req[p].form, TRUE)
      /\ Goto(p, [req[p] EXCEPT !.pc = "demote"])
      /\ profile' = profile /\ letters' = letters /\ born' = born /\ drawnFor' = drawnFor
    BY DEF Promote, At
<1>2. /\ RowsSound(account', profile, born, drawnFor)
      /\ TfaKept(account, account', born) /\ DOMAIN account' \subseteq Accounts
    BY <1>1, SetAdminKeeps
<1>3. PICK n : n = [req[p] EXCEPT !.pc = "demote"] OBVIOUS
<1>4. RequestSound(n, born, admins, drawnFor)
    BY <1>1, <1>3, RequestFacts, PlainStepSound DEF PlainSteps
<1>5. n.sess = req[p].sess BY <1>3, RequestFacts DEF Request
<1>6. req' = [req EXCEPT ![p] = n] /\ cookie' = cookie BY <1>1, <1>3 DEF Goto
<1>7. born \subseteq born' /\ Grows(drawnFor, drawnFor') BY <1>1 DEF Grows
<1>8. SessionsSound(cookie', req', account', born', admins', drawnFor', lost')
    BY <1>1, <1>2, <1>4, <1>5, <1>6, <1>7, CoreTypes, StepSessions
<1>9. LettersSound(letters)' /\ drawnFor' \in [Keys -> SUBSET Accounts] BY <1>1 DEF Core
<1> QED BY <1>1, <1>2, <1>8, <1>9 DEF Core

LEMMA DemoteSound == ASSUME Core, Recorded, NEW p \in Requests, Demote(p) PROVE Core'
<1>1. /\ ~At(p, "flush") /\ SetAdmin(req[p].drop, FALSE) /\ RespondSame(p)
      /\ profile' = profile /\ letters' = letters /\ born' = born /\ drawnFor' = drawnFor
    BY DEF Demote, At
<1>2. /\ RowsSound(account', profile, born, drawnFor)
      /\ TfaKept(account, account', born) /\ DOMAIN account' \subseteq Accounts
    BY <1>1, SetAdminKeeps
<1> QED BY <1>1, <1>2, EndMove

\* The row that has the old address gets the new one.
LEMMA SetEmailSound == ASSUME Core, Recorded, NEW p \in Requests, SetEmail(p) PROVE Core'
<1>1. /\ req[p].pc = "setEmail" /\ ~At(p, "flush") /\ ~At(p, "idle")
      /\ letters' = letters /\ born' = born /\ drawnFor' = drawnFor
    BY DEF SetEmail, At
<1>2. /\ req[p].kind = "emailVerify" /\ req[p].email \in Emails /\ req[p].new \in Emails
      /\ req[p].sess # None
    BY <1>1, RequestFacts DEF Course, Fields, Entitled, At, SettingsKinds
<1>3. PICK e, new : e = req[p].email /\ new = req[p].new OBVIOUS
<1>4. RowsSound(account, profile, born, drawnFor) BY DEF Core
<1>5. CASE Finish(p) /\ UNCHANGED <<account, profile>> BY <1>1, <1>5, QuietFinish DEF data
<1>6. CASE ~(e \in Addresses /\ new \in Addresses \ {e})
  <2>1. PICK s : s = [req[p].sess EXCEPT !.email = new] OBVIOUS
  <2>2. Respond(p, s) BY <1>3, <1>6, <2>1 DEF SetEmail
  <2>3. /\ RowsSound(account', profile', born, drawnFor)
        /\ TfaKept(account, account', born) /\ DOMAIN account' \subseteq Accounts
    <3>1. CASE e \notin Addresses
      <4>1. UNCHANGED <<account, profile>> BY <1>3, <1>6, <3>1 DEF SetEmail
      <4> QED BY <1>4, <4>1, CoreTypes DEF TfaKept, Live
    <3>2. CASE e \in Addresses
      <4>1. PICK u : u = Owner(e) OBVIOUS
      <4>2. u \in Live /\ account[u].email = e /\ account[u] \in Account
          BY <3>2, <4>1, OwnerOf, CoreTypes
      <4>3. Rename(u, new) BY <1>3, <1>6, <3>2, <4>1 DEF SetEmail
      <4>4. PICK a : a = [account[u] EXCEPT !.email = new] OBVIOUS
      <4>5. a \in Account /\ a.email = new /\ a.tfa = account[u].tfa
          BY <1>2, <1>3, <4>2, <4>4 DEF Account
      <4>6. account' = Changed(account, u, a) BY <4>3, <4>4 DEF Rename, Changed
      <4>7. profile' = Renamed(profile, account[u].email, a.email) BY <4>3, <4>5 DEF Rename, Renamed
      <4>8. u \in External => a.tfa = None BY <4>2, <4>5, CoreTypes
      <4>9. \A v \in DOMAIN account : account[v].email = a.email => v = u
          BY <1>6, <3>2, <4>2, <4>5, CoreTypes DEF Addresses, Live
      <4>10. u \in DOMAIN account BY <4>2 DEF Live
      <4>11. RowsSound(account', profile', born, drawnFor)
          BY <1>4, <4>5, <4>6, <4>7, <4>8, <4>9, <4>10, ChangeSound
      <4>12. /\ DOMAIN account' = DOMAIN account /\ account'[u] = a
             /\ \A v \in DOMAIN account : v # u => account'[v] = account[v]
          BY <4>6, <4>10, CoreTypes DEF Changed, Live
      <4>13. TfaKept(account, account', born) /\ DOMAIN account' \subseteq Accounts
          BY <4>5, <4>12, CoreTypes DEF TfaKept, Live
      <4> QED BY <4>11, <4>13
    <3> QED BY <3>1, <3>2
  <2>4. req[p].sess \in Session BY <1>2, RequestFacts
  <2>5. s \in Session /\ s.id = req[p].sess.id /\ s.admin = req[p].sess.admin
        /\ s.tfa = req[p].sess.tfa /\ s.current = req[p].sess.current
      BY <1>2, <1>3, <2>1, <2>4 DEF Session
  <2>6. SessionSound(req[p].sess, born, admins) /\ CopyFresh(req[p].sess, account, Flushes(req), lost)
      BY <1>2 DEF Core, SessionsSound, RequestSound
  <2>7. SessionSound(s, born, admins) BY <2>5, <2>6 DEF SessionSound
  <2>8. CopyFresh(s, account, Flushes(req), lost) BY <2>5, <2>6 DEF CopyFresh
  <2>9. req' = [req EXCEPT ![p] = NoRequest] /\ cookie' = [cookie EXCEPT ![req[p].at] = s]
      BY <2>2 DEF Respond
  <2>10. Flushes(req) \subseteq Flushes(req') BY <1>1, <2>9, CoreTypes, FlushesStay DEF At
  <2>11. admins \subseteq admins' /\ lost \subseteq lost' BY DEF Recorded
  <2>12. CopyFresh(s, account', Flushes(req'), lost')
      BY <2>3, <2>7, <2>8, <2>10, <2>11, FreshStays
  <2>13. SessionSound(s, born', admins') BY <1>1, <2>7, <2>11, SessionStaysSound
  <2>14. Held(s, account', req', born', admins', lost') BY <2>5, <2>12, <2>13 DEF Held
  <2>15. cookie' \in [Browsers -> Session \union {None}] BY <2>5, <2>9, CoreTypes
  <2>16. \A b \in Browsers : cookie'[b] = cookie[b] \/ cookie'[b] = s BY <2>9, CoreTypes
  <2>17. \A b \in Browsers :
            cookie'[b] = cookie[b] \/ Held(cookie'[b], account', req', born', admins', lost')
      BY <2>14, <2>16
  <2>18. RequestSound(NoRequest, born', admins, drawnFor') /\ NoRequest.sess = None
      BY NoRequestSound DEF NoRequest
  <2>19. Grows(drawnFor, drawnFor') /\ born \subseteq born' BY <1>1 DEF Grows
  <2>20. SessionsSound(cookie', req', account', born', admins', drawnFor', lost')
      BY <1>1, <2>3, <2>9, <2>15, <2>17, <2>18, <2>19, StepSessions
  <2>21. LettersSound(letters)' /\ drawnFor' \in [Keys -> SUBSET Accounts] BY <1>1 DEF Core
  <2> QED BY <1>1, <2>3, <2>20, <2>21 DEF Core
<1> QED BY <1>3, <1>5, <1>6 DEF SetEmail

(***************************************************************************)
(* Two-factor settings are saved.                                          *)
(***************************************************************************)
LEMMA SaveExtraRows ==
    ASSUME Core, NEW p, NEW u, NEW t \in Tfa, u \in External => t = None, SaveExtra(p, u, t)
    PROVE  /\ RowsSound(account', profile, born, drawnFor)
           /\ TfaSaved(account, account', u, t)
<1>1. RowsSound(account, profile, born, drawnFor) BY DEF Core
<1>2. CASE u \notin Live BY <1>1, <1>2 DEF SaveExtra, TfaSaved, Live
<1>3. CASE u \in Live
  <2>1. PICK a : a = [account[u] EXCEPT !.tfa = t] OBVIOUS
  <2>2. account[u] \in Account BY <1>3, CoreTypes
  <2>3. a \in Account /\ a.email = account[u].email /\ a.tfa = t BY <2>1, <2>2 DEF Account
  <2>4. account' = Changed(account, u, a) BY <1>3, <2>1 DEF SaveExtra, Changed
  <2>5. RowsSound(account', profile, born, drawnFor)
      BY <1>1, <1>3, <2>3, <2>4, KeptAddressSound DEF Live
  <2>6. /\ DOMAIN account' = DOMAIN account /\ account'[u] = a
        /\ \A v \in DOMAIN account : v # u => account'[v] = account[v]
      BY <1>3, <2>4, CoreTypes DEF Changed, Live
  <2> QED BY <2>3, <2>5, <2>6 DEF TfaSaved
<1> QED BY <1>2, <1>3

\* A save by p, after which its browser may hold a session with what was saved.
LEMMA SaveMove ==
    ASSUME Core, Recorded, NEW p \in Requests, NEW u, NEW t,
           RowsSound(account', profile', born, drawnFor), TfaSaved(account, account', u, t),
           letters' = letters, born' = born, drawnFor' = drawnFor,
           At(p, "flush") => req[p].who = u /\ req[p].tfa = t,
           req' = OthersOutdated(p, u, t),
           cookie' \in [Browsers -> Session \union {None}],
           \A b \in Browsers :
               \/ cookie'[b] = Outdated(cookie[b], u, t)
               \/ cookie'[b] = cookie[b] /\ cookie[b] # None /\ cookie[b].tfa = t
               \/ /\ cookie'[b] \in Session /\ SessionSound(cookie'[b], born, admins)
                  /\ cookie'[b].id = u /\ cookie'[b].tfa = t
    PROVE  Core'
<1>1. SessionsSound(cookie, req, account, born, admins, drawnFor, lost) BY DEF Core
<1>2. admins \subseteq admins' /\ lost \subseteq lost' BY DEF Recorded
<1>3. req' = [q \in Requests |-> IF q = p THEN NoRequest
                                 ELSE [req[q] EXCEPT !.sess = OutdatedIn(account, @, u, t)]]
    BY OutdatedIsIn DEF OthersOutdated
<1>4. req[p].pc = "flush" => req[p].who = u /\ req[p].tfa = t BY DEF At
<1>5. ASSUME NEW b \in Browsers
      PROVE  \/ cookie'[b] = OutdatedIn(account, cookie[b], u, t)
             \/ cookie'[b] = cookie[b] /\ cookie[b] # None /\ cookie[b].tfa = t
             \/ Held(cookie'[b], account', req', born, admins', lost')
  <2>1. CASE cookie'[b] = Outdated(cookie[b], u, t) BY <2>1, OutdatedIsIn
  <2>2. CASE /\ cookie'[b] \in Session /\ SessionSound(cookie'[b], born, admins)
             /\ cookie'[b].id = u /\ cookie'[b].tfa = t
    <3>1. SessionSound(cookie'[b], born, admins') BY <1>2, <2>2, SessionStaysSound
    <3>2. CopyFresh(cookie'[b], account', Flushes(req'), lost') BY <2>2 DEF CopyFresh, TfaSaved
    <3> QED BY <2>2, <3>1, <3>2 DEF Held
  <2> QED BY <2>1, <2>2
<1>6. SessionsSound(cookie', req', account', born, admins', drawnFor, lost')
    BY <1>1, <1>2, <1>3, <1>4, <1>5, SaveSound
<1>7. LettersSound(letters)' /\ drawnFor' \in [Keys -> SUBSET Accounts] BY DEF Core
<1> QED BY <1>6, <1>7 DEF Core

LEMMA OutdatedTyped ==
    ASSUME NEW s \in Session \union {None}, NEW u, NEW t
    PROVE  Outdated(s, u, t) \in Session \union {None}
<1>1. CASE s = None BY <1>1 DEF Outdated
<1>2. CASE s \in Session
  <2>1. [s EXCEPT !.current = FALSE] \in Session BY <1>2 DEF Session
  <2> QED BY <1>2, <2>1 DEF Outdated
<1> QED BY <1>1, <1>2

LEMMA FlushExtraSound == ASSUME Core, Recorded, NEW p \in Requests, FlushExtra(p) PROVE Core'
<1>1. /\ At(p, "flush") /\ req[p].pc = "flush" /\ ~At(p, "idle")
      /\ profile' = profile /\ letters' = letters /\ born' = born /\ drawnFor' = drawnFor
    BY DEF FlushExtra, At
<1>2. PICK u, t : u = req[p].who /\ t = req[p].tfa OBVIOUS
<1>3. t \in Tfa /\ (u \in External => t = None)
    BY <1>1, <1>2, RequestFacts DEF Request, Fields
<1>4. /\ RowsSound(account', profile, born, drawnFor)
      /\ TfaSaved(account, account', u, t)
    BY <1>2, <1>3, SaveExtraRows DEF FlushExtra
<1>5. req' = OthersOutdated(p, u, t) BY <1>2 DEF FlushExtra
<1>6. \A b \in Browsers : \/ cookie'[b] = Outdated(cookie[b], u, t)
                          \/ cookie'[b] = cookie[b] /\ cookie[b] # None /\ cookie[b].tfa = t
    BY <1>2 DEF FlushExtra
<1>7. cookie' \in [Browsers -> Session \union {None}]
  <2>1. \A b \in Browsers : cookie'[b] \in Session \union {None}
      BY <1>6, CoreTypes, OutdatedTyped
  <2> QED BY <2>1 DEF FlushExtra
<1> QED BY <1>1, <1>2, <1>4, <1>5, <1>6, <1>7, SaveMove

\* A save by a session's own request, which is answered with session s.
LEMMA AnswerMove ==
    ASSUME Core, Recorded, NEW p \in Requests, NEW u, NEW t \in Tfa, NEW s \in Session,
           ~At(p, "flush"), u \in External => t = None,
           SaveExtra(p, u, t), AnswerExtra(p, u, t, s),
           UNCHANGED <<profile, letters, born, drawnFor>>,
           SessionSound(s, born, admins), s.id = u, s.tfa = t
    PROVE  Core'
<1>1. /\ RowsSound(account', profile, born, drawnFor)
      /\ TfaSaved(account, account', u, t)
    BY SaveExtraRows
<1>2. req' = OthersOutdated(p, u, t) BY DEF AnswerExtra
<1>3. \A b \in Browsers : cookie'[b] = s \/ cookie'[b] = Outdated(cookie[b], u, t)
    BY DEF AnswerExtra
<1>4. cookie' \in [Browsers -> Session \union {None}]
  <2>1. \A b \in Browsers : cookie'[b] \in Session \union {None}
      BY <1>3, CoreTypes, OutdatedTyped
  <2> QED BY <2>1 DEF AnswerExtra
<1> QED BY <1>1, <1>2, <1>3, <1>4, SaveMove

LEMMA UpdateInfoSound == ASSUME Core, Recorded, NEW p \in Requests, UpdateInfo(p) PROVE Core'
<1>1. /\ req[p].pc = "updateInfo" /\ ~At(p, "flush") /\ ~At(p, "idle")
      /\ UNCHANGED <<profile, letters, born, drawnFor>>
    BY DEF UpdateInfo, At
<1>2. PICK s : s = req[p].sess OBVIOUS
<1>3. s \in Session /\ SessionSound(s, born, admins)
  <2>1. s # None
      BY <1>1, <1>2, RequestFacts DEF Course, Entitled, At, Kinds, SettingsKinds
  <2> QED BY <1>2, <2>1, RequestFacts DEF RequestSound
<1>4. s.tfa \in Tfa /\ (s.id \in External => s.tfa = None) BY <1>3 DEF Session, SessionSound
<1>5. SaveExtra(p, s.id, s.tfa) /\ AnswerExtra(p, s.id, s.tfa, s) BY <1>2 DEF UpdateInfo
<1> QED BY <1>1, <1>3, <1>4, <1>5, AnswerMove

LEMMA ChangeTfaSound ==
    ASSUME Core, Recorded, NEW p \in Requests, NEW t \in Tfa, ChangeTfa(p, t),
           req[p].pc \in {"enableTfa", "disableTfa"}, req[p].sess.id \notin External
    PROVE  Core'
<1>1. ~At(p, "flush") /\ ~At(p, "idle") /\ UNCHANGED <<profile, letters, born, drawnFor>>
    BY DEF ChangeTfa, At
<1>2. PICK o : o = req[p].sess OBVIOUS
<1>3. o \in Session /\ SessionSound(o, born, admins) /\ o.id \notin External
  <2>1. o # None
      BY <1>1, <1>2, RequestFacts DEF Course, Entitled, At, Kinds, SettingsKinds
  <2> QED BY <1>2, <2>1, RequestFacts DEF RequestSound
<1>4. PICK s : s = [o EXCEPT !.tfa = t, !.current = TRUE] OBVIOUS
<1>5. s \in Session /\ s.id = o.id /\ s.admin = o.admin /\ s.tfa = t BY <1>3, <1>4 DEF Session
<1>6. SessionSound(s, born, admins) BY <1>3, <1>5 DEF SessionSound
<1>7. SaveExtra(p, o.id, t) /\ AnswerExtra(p, o.id, t, s) BY <1>2, <1>4 DEF ChangeTfa
<1> QED BY <1>1, <1>3, <1>5, <1>6, <1>7, AnswerMove

LEMMA EnableTfaSound == ASSUME Core, Recorded, NEW p \in Requests, EnableTfa(p) PROVE Core'
<1>1. req[p].tfa \in Tfa BY RequestFacts DEF Request
<1> QED BY <1>1, ChangeTfaSound DEF EnableTfa, At

LEMMA DisableTfaSound == ASSUME Core, Recorded, NEW p \in Requests, DisableTfa(p) PROVE Core'
<1>1. None \in Tfa BY DEF Tfa
<1> QED BY <1>1, ChangeTfaSound DEF DisableTfa, At

\* What an update from a loaded copy saves is an account.
LEMMA SavedSound ==
    ASSUME NEW a \in Account, NEW q \in Request, q.copy \in Account, q.new \in Emails
    PROVE  /\ Saved(a, q) \in Account
           /\ a.tfa = None /\ (q.kind = "adminEdit" => q.copy.tfa = None) => Saved(a, q).tfa = None
<1>1. PICK email : email = IF q.new = q.copy.email THEN a.email ELSE q.new OBVIOUS
<1>2. PICK pass : pass = IF q.word = None THEN a.pass ELSE q.word OBVIOUS
<1>3. PICK enabled : enabled = IF q.kind = "apiUpdate" /\ ~q.copy.enabled THEN TRUE ELSE a.enabled
    OBVIOUS
<1>4. PICK tfa : tfa = IF q.kind = "adminEdit" THEN q.copy.tfa ELSE IF q.flag THEN None ELSE a.tfa
    OBVIOUS
<1>5. email \in Emails BY <1>1 DEF Account
<1>6. pass \in Passwords BY <1>2 DEF Account, Request
<1>7. enabled \in BOOLEAN BY <1>3 DEF Account
<1>8. tfa \in Tfa BY <1>4 DEF Account, Tfa
<1>9. Saved(a, q) = [a EXCEPT !.email = email, !.pass = pass, !.enabled = enabled, !.tfa = tfa]
    BY <1>1, <1>2, <1>3, <1>4 DEF Saved
<1>10. [a EXCEPT !.email = email, !.pass = pass, !.enabled = enabled, !.tfa = tfa] \in Account
    BY <1>5, <1>6, <1>7, <1>8 DEF Account
<1>11. Saved(a, q).tfa = tfa BY <1>9 DEF Account
<1> QED BY <1>4, <1>9, <1>10, <1>11

LEMMA SaveCopySound ==
    ASSUME Core, Recorded, NEW p \in Requests, SaveCopy(p) PROVE Core'
<1>1. /\ req[p].pc = "save" /\ ~At(p, "flush") /\ ~At(p, "idle")
      /\ letters' = letters /\ born' = born /\ drawnFor' = drawnFor
    BY DEF SaveCopy, At
<1>2. PICK u, a : u = req[p].who /\ a = Saved(account[u], req[p]) OBVIOUS
<1>3. CASE Finish(p) /\ UNCHANGED <<account, profile>>
    BY <1>1, <1>3, QuietFinish DEF data
<1>4. CASE u \in Live /\ a.email \notin Addresses \ {account[u].email}
  <2>1. /\ account' = [account EXCEPT ![u] = a]
        /\ profile' = [r \in DOMAIN profile |->
               IF r \in RowsOf(account[u].email)
               THEN [profile[r] EXCEPT !.email = a.email] ELSE profile[r]]
        /\ req' = OthersOutdated(p, u, a.tfa)
        /\ cookie' = [b \in Browsers |-> Outdated(cookie[b], u, a.tfa)]
      BY <1>2, <1>4 DEF SaveCopy
  <2>2. /\ req[p] \in Request /\ req[p].copy \in Account /\ req[p].new \in Emails
        /\ req[p].kind = "adminEdit" /\ u \in External => req[p].copy.tfa = None
      BY <1>1, <1>2, RequestFacts DEF Course, Fields
  <2>3. account[u] \in Account BY <1>4, CoreTypes
  <2>4. a \in Account BY <1>2, <2>2, <2>3, SavedSound
  <2>5. u \in External => a.tfa = None
    <3>1. u \in External => account[u].tfa = None BY <1>4, CoreTypes
    <3> QED BY <1>2, <2>2, <2>3, <3>1, SavedSound
  <2>6. account' = Changed(account, u, a) BY <2>1 DEF Changed
  <2>7. profile' = Renamed(profile, account[u].email, a.email) BY <2>1 DEF RowsOf, Renamed
  <2>8. \A v \in DOMAIN account : account[v].email = a.email => v = u
      BY <1>4, CoreTypes DEF Addresses, Live
  <2>9. u \in DOMAIN account BY <1>4 DEF Live
  <2>10. RowsSound(account, profile, born, drawnFor) BY DEF Core
  <2>11. RowsSound(account', profile', born, drawnFor)
      BY <2>4, <2>5, <2>6, <2>7, <2>8, <2>9, <2>10, ChangeSound
  <2>12. TfaSaved(account, account', u, a.tfa)
      BY <2>6, <2>9, CoreTypes DEF TfaSaved, Changed, Live
  <2>13. \A b \in Browsers : cookie'[b] = Outdated(cookie[b], u, a.tfa) BY <2>1
  <2>14. cookie' \in [Browsers -> Session \union {None}]
    <3>1. \A b \in Browsers : cookie'[b] \in Session \union {None}
        BY <2>13, CoreTypes, OutdatedTyped
    <3> QED BY <2>1, <3>1
  <2>15. PICK t : t = a.tfa OBVIOUS
  <2>16. /\ TfaSaved(account, account', u, t) /\ req' = OthersOutdated(p, u, t)
         /\ \A b \in Browsers : cookie'[b] = Outdated(cookie[b], u, t)
      BY <2>1, <2>12, <2>13, <2>15
  <2> QED BY <1>1, <2>11, <2>14, <2>16, SaveMove
<1> QED BY <1>2, <1>3, <1>4 DEF SaveCopy

(***************************************************************************)
(* Requests arrive.                                                        *)
(***************************************************************************)
LEMMA NoRequestTyped ==
    /\ NoRequest \in Request /\ NoRequest.sess = None /\ NoRequest.tfa = None
BY NoRequestSound DEF RequestSound, NoRequest

\* What a new request carries.
Carries(q, at, sess, who, email, new, word, key, tfa, copy) ==
    /\ q \in Request
    /\ q.at = at /\ q.sess = sess /\ q.who = who /\ q.email = email /\ q.new = new
    /\ q.word = word /\ q.key = key /\ q.tfa = tfa /\ q.copy = copy

LEMMA ArrivalMove ==
    ASSUME Core, Recorded, UNCHANGED data, NEW p \in Requests, NEW kind \in Kinds,
           NEW q \in Request, Start(p, kind, q),
           q.sess # None => /\ SessionSound(q.sess, born, admins)
                            /\ \/ \E b \in Browsers : q.sess = cookie[b]
                               \/ \A fl, ls : CopyFresh(q.sess, account, fl, ls),
           \A n \in Request :
               (/\ Carries(n, q.at, q.sess, q.who, q.email, q.new, q.word, q.key, q.tfa, q.copy)
                /\ n.kind = kind /\ n.pc = kind)
               => Fields(n) /\ Entitled(n, drawnFor)
    PROVE  Core'
<1>1. PICK n : n = [q EXCEPT !.pc = kind, !.kind = kind] OBVIOUS
<1>2. kind \in Steps BY DEF Steps
<1>3. n \in Request /\ n.pc = kind /\ n.kind = kind /\ n.sess = q.sess
      /\ Carries(n, q.at, q.sess, q.who, q.email, q.new, q.word, q.key, q.tfa, q.copy)
    BY <1>1, <1>2 DEF Request, Carries
<1>4. Fields(n) /\ Entitled(n, drawnFor) BY <1>3
<1>5. Course(n)
    BY <1>3 DEF Course, Kinds, VisitorKinds, SettingsKinds, AdminKinds, ApiKinds
<1>6. n.sess # None => SessionSound(n.sess, born, admins) BY <1>3
<1>7. RequestSound(n, born, admins, drawnFor) BY <1>3, <1>4, <1>5, <1>6 DEF RequestSound
<1>8. Goto(p, n) /\ ~At(p, "flush") BY <1>1 DEF Start, At
<1>9. req' = [req EXCEPT ![p] = n] /\ cookie' = cookie BY <1>8 DEF Goto
<1>10. cookie' \in [Browsers -> Session \union {None}] BY <1>9, CoreTypes
<1>11. n.sess # None => \/ \E b \in Browsers : n.sess = cookie[b]
                        \/ CopyFresh(n.sess, account, Flushes(req'), lost)
    BY <1>3
<1>12. \A b \in Browsers : cookie'[b] = cookie[b] BY <1>9
<1> QED BY <1>7, <1>8, <1>9, <1>10, <1>11, <1>12, QuietMove

LEMMA CookieSound ==
    ASSUME Core, NEW b \in Browsers
    PROVE  /\ cookie[b] \in Session \union {None}
           /\ cookie[b] # None => cookie[b] \in Session /\ SessionSound(cookie[b], born, admins)
BY DEF Core, SessionsSound

LEMMA LetterFacts ==
    ASSUME Core, NEW l \in letters
    PROVE  /\ l.key \in Keys /\ l.to \in Emails /\ l.new \in Emails \union {None}
           /\ l.kind = "verification" => l.new \in Emails
BY DEF Core, LettersSound, Letter

LEMMA VisitorRequestSound ==
    ASSUME Core, Recorded, NEW p \in Requests, VisitorRequest(p) PROVE Core'
<1>1. UNCHANGED data BY DEF VisitorRequest
<1>2. PICK b \in Browsers : LET from == [NoRequest EXCEPT !.at = b] IN
        /\ cookie[b] = None
        /\ \/ \E kind \in {"login", "signUp"} \intersect group, e \in Emails, w \in Passwords :
                 Start(p, kind, [from EXCEPT !.email = e, !.word = w])
           \/ \E kind \in {"externalLogin"} \intersect group, u \in External, e \in Emails :
                 Start(p, kind, [from EXCEPT !.who = u, !.email = e])
           \/ \E kind \in {"passwordRequest", "resend", "avoid"} \intersect group, e \in Emails :
                 Start(p, kind, [from EXCEPT !.email = e])
           \/ \E kind \in {"activate"} \intersect group, l \in Mailed("activation") :
                 Start(p, kind, Following(b, l))
           \/ \E kind \in {"reset"} \intersect group, l \in Mailed("reset"), w \in Passwords :
                 Start(p, kind, [Following(b, l) EXCEPT !.word = w])
           \/ \E kind \in {"disable2fa"} \intersect group, l \in Mailed("disable_2fa") :
                 Start(p, kind, Following(b, l))
    BY DEF VisitorRequest
<1>3. PICK from : from = [NoRequest EXCEPT !.at = b] OBVIOUS
<1>4. from \in Request /\ from.sess = None /\ from.at = b /\ from.tfa = None
    BY <1>3, NoRequestTyped DEF Request
<1>5. ASSUME NEW kind \in {"login", "signUp"}, NEW e \in Emails, NEW w \in Passwords,
             Start(p, kind, [from EXCEPT !.email = e, !.word = w])
      PROVE  Core'
  <2>1. PICK q : q = [from EXCEPT !.email = e, !.word = w] OBVIOUS
  <2>2. q \in Request /\ q.sess = None /\ q.at = b /\ q.email = e /\ q.word = w
      BY <1>4, <2>1 DEF Request
  <2>3. kind \in Kinds BY DEF Kinds, VisitorKinds
  <2>4. ASSUME NEW n \in Request, n.kind = kind, n.pc = kind,
               Carries(n, q.at, q.sess, q.who, q.email, q.new, q.word, q.key, q.tfa, q.copy)
        PROVE  Fields(n) /\ Entitled(n, drawnFor)
      BY <2>2, <2>4 DEF Carries, Fields, Entitled, SettingsKinds, AdminKinds, ApiKinds
  <2> QED BY <1>1, <1>5, <2>1, <2>2, <2>3, <2>4, ArrivalMove
<1>6. ASSUME NEW kind \in {"externalLogin"}, NEW u \in External, NEW e \in Emails,
             Start(p, kind, [from EXCEPT !.who = u, !.email = e])
      PROVE  Core'
  <2>1. PICK q : q = [from EXCEPT !.who = u, !.email = e] OBVIOUS
  <2>2. u \in Accounts BY AccountsStartsAssumption
  <2>3. q \in Request /\ q.sess = None /\ q.who = u /\ q.email = e
      BY <1>4, <2>1, <2>2 DEF Request
  <2>4. kind \in Kinds BY DEF Kinds, VisitorKinds
  <2>5. ASSUME NEW n \in Request, n.kind = kind, n.pc = kind,
               Carries(n, q.at, q.sess, q.who, q.email, q.new, q.word, q.key, q.tfa, q.copy)
        PROVE  Fields(n) /\ Entitled(n, drawnFor)
      BY <2>3, <2>5 DEF Carries, Fields, Entitled, SettingsKinds, AdminKinds, ApiKinds
  <2> QED BY <1>1, <1>6, <2>1, <2>3, <2>4, <2>5, ArrivalMove
<1>7. ASSUME NEW kind \in {"passwordRequest", "resend", "avoid"}, NEW e \in Emails,
             Start(p, kind, [from EXCEPT !.email = e])
      PROVE  Core'
  <2>1. PICK q : q = [from EXCEPT !.email = e] OBVIOUS
  <2>2. q \in Request /\ q.sess = None /\ q.email = e BY <1>4, <2>1 DEF Request
  <2>3. kind \in Kinds BY DEF Kinds, VisitorKinds
  <2>4. ASSUME NEW n \in Request, n.kind = kind, n.pc = kind,
               Carries(n, q.at, q.sess, q.who, q.email, q.new, q.word, q.key, q.tfa, q.copy)
        PROVE  Fields(n) /\ Entitled(n, drawnFor)
      BY <2>2, <2>4 DEF Carries, Fields, Entitled, SettingsKinds, AdminKinds, ApiKinds
  <2> QED BY <1>1, <1>7, <2>1, <2>2, <2>3, <2>4, ArrivalMove
<1>8. ASSUME NEW l \in letters
      PROVE  /\ Following(b, l) \in Request /\ Following(b, l).sess = None
             /\ Following(b, l).key = l.key /\ Following(b, l).tfa = None
  <2>1. Following(b, l) = [NoRequest EXCEPT !.at = b, !.sess = cookie[b], !.email = l.to,
                                            !.key = l.key, !.new = l.new]
      BY DEF Following
  <2> QED BY <1>2, <2>1, NoRequestTyped, LetterFacts DEF Request
<1>9. ASSUME NEW kind \in {"activate", "disable2fa"}, NEW l \in letters,
             Start(p, kind, Following(b, l))
      PROVE  Core'
  <2>1. PICK q : q = Following(b, l) OBVIOUS
  <2>2. q \in Request /\ q.sess = None /\ q.key \in Keys /\ q.tfa = None
      BY <1>8, <2>1, LetterFacts
  <2>3. kind \in Kinds BY DEF Kinds, VisitorKinds
  <2>4. ASSUME NEW n \in Request, n.kind = kind, n.pc = kind,
               Carries(n, q.at, q.sess, q.who, q.email, q.new, q.word, q.key, q.tfa, q.copy)
        PROVE  Fields(n) /\ Entitled(n, drawnFor)
      BY <2>2, <2>4 DEF Carries, Fields, Entitled, SettingsKinds, AdminKinds, ApiKinds
  <2> QED BY <1>1, <1>9, <2>1, <2>2, <2>3, <2>4, ArrivalMove
<1>10. ASSUME NEW kind \in {"reset"}, NEW l \in letters, NEW w \in Passwords,
              Start(p, kind, [Following(b, l) EXCEPT !.word = w])
       PROVE  Core'
  <2>1. PICK q : q = [Following(b, l) EXCEPT !.word = w] OBVIOUS
  <2>2. q \in Request /\ q.sess = None /\ q.key \in Keys /\ q.word = w
      BY <1>8, <2>1, LetterFacts DEF Request
  <2>3. kind \in Kinds BY DEF Kinds, VisitorKinds
  <2>4. ASSUME NEW n \in Request, n.kind = kind, n.pc = kind,
               Carries(n, q.at, q.sess, q.who, q.email, q.new, q.word, q.key, q.tfa, q.copy)
        PROVE  Fields(n) /\ Entitled(n, drawnFor)
      BY <2>2, <2>4 DEF Carries, Fields, Entitled, SettingsKinds, AdminKinds, ApiKinds
  <2> QED BY <1>1, <1>10, <2>1, <2>2, <2>3, <2>4, ArrivalMove
<1>11. \A kind : Mailed(kind) \subseteq letters BY DEF Mailed
<1> QED BY <1>2, <1>3, <1>5, <1>6, <1>7, <1>9, <1>10, <1>11

\* The forms an administrator sends.
CreateForm(q, e, w, enabled) == [q EXCEPT !.email = e, !.word = w, !.flag = enabled]
EditForm(q, u, e, c) == [q EXCEPT !.who = u, !.new = e, !.copy = c]
PasswordForm(q, u, w) == [q EXCEPT !.who = u, !.word = w]
LEMMA CreateFormTyped ==
    \A q \in Request, e \in Emails, w \in Passwords, enabled \in BOOLEAN :
        LET n == CreateForm(q, e, w, enabled) IN
        n \in Request /\ n.sess = q.sess /\ n.email = e /\ n.word = w
<1> SUFFICES ASSUME NEW q \in Request, NEW e \in Emails, NEW w \in Passwords,
                    NEW enabled \in BOOLEAN, NEW n, n = CreateForm(q, e, w, enabled)
             PROVE  n \in Request /\ n.sess = q.sess /\ n.email = e /\ n.word = w
    OBVIOUS
<1>1. PICK h : h = [q EXCEPT !.email = e, !.word = w] OBVIOUS
<1>2. h \in Request /\ h.sess = q.sess /\ h.email = e /\ h.word = w BY <1>1 DEF Request
<1>3. n = [h EXCEPT !.flag = enabled] BY <1>1 DEF Request, CreateForm
<1> QED BY <1>2, <1>3 DEF Request

LEMMA EditFormTyped ==
    \A q \in Request, u \in Accounts, e \in Emails, c \in Account :
        LET n == EditForm(q, u, e, c) IN
        n \in Request /\ n.sess = q.sess /\ n.who = u /\ n.new = e /\ n.copy = c
<1> SUFFICES ASSUME NEW q \in Request, NEW u \in Accounts, NEW e \in Emails, NEW c \in Account,
                    NEW n, n = EditForm(q, u, e, c)
             PROVE  n \in Request /\ n.sess = q.sess /\ n.who = u /\ n.new = e /\ n.copy = c
    OBVIOUS
<1> QED BY DEF EditForm, Request

LEMMA PasswordFormTyped ==
    \A q \in Request, u \in Accounts, w \in Passwords :
        LET n == PasswordForm(q, u, w) IN
        n \in Request /\ n.sess = q.sess /\ n.who = u /\ n.word = w
<1> SUFFICES ASSUME NEW q \in Request, NEW u \in Accounts, NEW w \in Passwords,
                    NEW n, n = PasswordForm(q, u, w)
             PROVE  n \in Request /\ n.sess = q.sess /\ n.who = u /\ n.word = w
    OBVIOUS
<1> QED BY DEF PasswordForm, Request

EnableForm(q, u, enabled) == [q EXCEPT !.who = u, !.flag = enabled]
LEMMA EnableFormTyped ==
    \A q \in Request, u \in Accounts, enabled \in BOOLEAN :
        EnableForm(q, u, enabled) \in Request /\ EnableForm(q, u, enabled).sess = q.sess
<1> SUFFICES ASSUME NEW q \in Request, NEW u \in Accounts, NEW enabled \in BOOLEAN,
                    NEW n, n = EnableForm(q, u, enabled)
             PROVE  n \in Request /\ n.sess = q.sess
    OBVIOUS
<1> QED BY DEF EnableForm, Request

LEMMA SettingsRequestSound ==
    ASSUME Core, Recorded, NEW p \in Requests, SettingsRequest(p) PROVE Core'
<1>1. UNCHANGED data BY DEF SettingsRequest
<1>2. PICK b \in Browsers : LET from == [NoRequest EXCEPT !.at = b, !.sess = cookie[b]] IN
        /\ cookie[b] # None
        /\ \/ \E kind \in {"disableTfa", "cancel", "logout", "visit"} \intersect group : Start(p, kind, from)
           \/ \E kind \in {"updateInfo"} \intersect group :
                 cookie[b].id \in Live /\ Start(p, kind, from)
           \/ \E kind \in {"enableTfa"} \intersect group, s \in Secrets :
                 Start(p, kind, [from EXCEPT !.tfa = [secret |-> s, known |-> {}]])
           \/ \E kind \in {"changePassword"} \intersect group, old, w \in Passwords :
                 Start(p, kind, [from EXCEPT !.old = old, !.word = w])
           \/ \E kind \in {"changeEmail"} \intersect group, e \in Emails, w \in Passwords :
                 Start(p, kind, [from EXCEPT !.new = e, !.word = w])
           \/ \E kind \in {"emailVerify"} \intersect group, l \in Mailed("verification") :
                 Start(p, kind, Following(b, l))
    BY DEF SettingsRequest
<1>3. PICK from : from = [NoRequest EXCEPT !.at = b, !.sess = cookie[b]] OBVIOUS
<1>4. cookie[b] \in Session /\ SessionSound(cookie[b], born, admins) BY <1>2, CookieSound
<1>5. from \in Request /\ from.sess = cookie[b] /\ from.sess # None /\ from.at = b
    BY <1>2, <1>3, <1>4, NoRequestTyped DEF Request
<1>51. cookie[b] # None /\ b \in Browsers BY <1>2
<1>6. ASSUME NEW kind \in {"disableTfa", "cancel", "logout", "visit", "updateInfo"},
             Start(p, kind, from)
      PROVE  Core'
  <2>1. PICK q : q = from OBVIOUS
  <2>2. q \in Request /\ q.sess = cookie[b] /\ q.sess # None
      BY <1>5, <2>1
  <2>3. kind \in Kinds BY DEF Kinds, VisitorKinds, SettingsKinds, AdminKinds, ApiKinds
  <2>4. ASSUME NEW n \in Request, n.kind = kind, n.pc = kind,
               Carries(n, q.at, q.sess, q.who, q.email, q.new, q.word, q.key, q.tfa, q.copy)
        PROVE  Fields(n) /\ Entitled(n, drawnFor)
      BY <2>2, <2>4 DEF Carries, Fields, Entitled, SettingsKinds, AdminKinds, ApiKinds
  <2>5. q.sess # None => /\ SessionSound(q.sess, born, admins)
                         /\ \/ \E d \in Browsers : q.sess = cookie[d]
                            \/ \A fl, ls : CopyFresh(q.sess, account, fl, ls)
      BY <1>4, <2>2
  <2> QED BY <1>1, <1>6, <2>1, <2>2, <2>3, <2>4, <2>5, ArrivalMove
<1>7. ASSUME NEW kind \in {"enableTfa"}, NEW s \in Secrets,
             Start(p, kind, [from EXCEPT !.tfa = [secret |-> s, known |-> {}]])
      PROVE  Core'
  <2>1. PICK q : q = [from EXCEPT !.tfa = [secret |-> s, known |-> {}]] OBVIOUS
  <2>0. [secret |-> s, known |-> {}] \in Tfa BY DEF Tfa
  <2>2. q \in Request /\ q.sess = cookie[b] /\ q.sess # None
      BY <1>5, <2>0, <2>1 DEF Request
  <2>3. kind \in Kinds BY DEF Kinds, VisitorKinds, SettingsKinds, AdminKinds, ApiKinds
  <2>4. ASSUME NEW n \in Request, n.kind = kind, n.pc = kind,
               Carries(n, q.at, q.sess, q.who, q.email, q.new, q.word, q.key, q.tfa, q.copy)
        PROVE  Fields(n) /\ Entitled(n, drawnFor)
      BY <2>2, <2>4 DEF Carries, Fields, Entitled, SettingsKinds, AdminKinds, ApiKinds
  <2>5. q.sess # None => /\ SessionSound(q.sess, born, admins)
                         /\ \/ \E d \in Browsers : q.sess = cookie[d]
                            \/ \A fl, ls : CopyFresh(q.sess, account, fl, ls)
      BY <1>4, <2>2
  <2> QED BY <1>1, <1>7, <2>1, <2>2, <2>3, <2>4, <2>5, ArrivalMove
<1>8. ASSUME NEW kind \in {"changePassword"}, NEW old \in Passwords, NEW w \in Passwords,
             Start(p, kind, [from EXCEPT !.old = old, !.word = w])
      PROVE  Core'
  <2>1. PICK q : q = [from EXCEPT !.old = old, !.word = w] OBVIOUS
  <2>2. q \in Request /\ q.sess = cookie[b] /\ q.sess # None /\ q.word = w
      BY <1>5, <2>1 DEF Request
  <2>3. kind \in Kinds BY DEF Kinds, VisitorKinds, SettingsKinds, AdminKinds, ApiKinds
  <2>4. ASSUME NEW n \in Request, n.kind = kind, n.pc = kind,
               Carries(n, q.at, q.sess, q.who, q.email, q.new, q.word, q.key, q.tfa, q.copy)
        PROVE  Fields(n) /\ Entitled(n, drawnFor)
      BY <2>2, <2>4 DEF Carries, Fields, Entitled, SettingsKinds, AdminKinds, ApiKinds
  <2>5. q.sess # None => /\ SessionSound(q.sess, born, admins)
                         /\ \/ \E d \in Browsers : q.sess = cookie[d]
                            \/ \A fl, ls : CopyFresh(q.sess, account, fl, ls)
      BY <1>4, <2>2
  <2> QED BY <1>1, <1>8, <2>1, <2>2, <2>3, <2>4, <2>5, ArrivalMove
<1>9. ASSUME NEW kind \in {"changeEmail"}, NEW e \in Emails, NEW w \in Passwords,
             Start(p, kind, [from EXCEPT !.new = e, !.word = w])
      PROVE  Core'
  <2>1. PICK q : q = [from EXCEPT !.new = e, !.word = w] OBVIOUS
  <2>2. q \in Request /\ q.sess = cookie[b] /\ q.sess # None /\ q.new = e
      BY <1>5, <2>1 DEF Request
  <2>3. kind \in Kinds BY DEF Kinds, VisitorKinds, SettingsKinds, AdminKinds, ApiKinds
  <2>4. ASSUME NEW n \in Request, n.kind = kind, n.pc = kind,
               Carries(n, q.at, q.sess, q.who, q.email, q.new, q.word, q.key, q.tfa, q.copy)
        PROVE  Fields(n) /\ Entitled(n, drawnFor)
      BY <2>2, <2>4 DEF Carries, Fields, Entitled, SettingsKinds, AdminKinds, ApiKinds
  <2>5. q.sess # None => /\ SessionSound(q.sess, born, admins)
                         /\ \/ \E d \in Browsers : q.sess = cookie[d]
                            \/ \A fl, ls : CopyFresh(q.sess, account, fl, ls)
      BY <1>4, <2>2
  <2> QED BY <1>1, <1>9, <2>1, <2>2, <2>3, <2>4, <2>5, ArrivalMove
<1>10. ASSUME NEW kind \in {"emailVerify"}, NEW l \in letters, l.kind = "verification",
             Start(p, kind, Following(b, l))
      PROVE  Core'
  <2>1. PICK q : q = Following(b, l) OBVIOUS
  <2>00. l.key \in Keys /\ l.to \in Emails /\ l.new \in Emails BY <1>10, LetterFacts
  <2>0. Following(b, l) = [NoRequest EXCEPT !.at = b, !.sess = cookie[b], !.email = l.to,
                                            !.key = l.key, !.new = l.new]
      BY DEF Following
  <2>2. q \in Request /\ q.sess = cookie[b] /\ q.sess # None /\ q.key \in Keys /\ q.new \in Emails
      BY <1>51, <1>4, <2>00, <2>0, <2>1, NoRequestTyped DEF Request
  <2>3. kind \in Kinds BY DEF Kinds, VisitorKinds, SettingsKinds, AdminKinds, ApiKinds
  <2>4. ASSUME NEW n \in Request, n.kind = kind, n.pc = kind,
               Carries(n, q.at, q.sess, q.who, q.email, q.new, q.word, q.key, q.tfa, q.copy)
        PROVE  Fields(n) /\ Entitled(n, drawnFor)
      BY <2>2, <2>4 DEF Carries, Fields, Entitled, SettingsKinds, AdminKinds, ApiKinds
  <2>5. q.sess # None => /\ SessionSound(q.sess, born, admins)
                         /\ \/ \E d \in Browsers : q.sess = cookie[d]
                            \/ \A fl, ls : CopyFresh(q.sess, account, fl, ls)
      BY <1>4, <2>2
  <2> QED BY <1>1, <1>10, <2>1, <2>2, <2>3, <2>4, <2>5, ArrivalMove
<1>11. \A l \in Mailed("verification") : l \in letters /\ l.kind = "verification" BY DEF Mailed
<1> QED BY <1>2, <1>3, <1>6, <1>7, <1>8, <1>9, <1>10, <1>11

LEMMA AdminRequestSound ==
    ASSUME Core, Recorded, NEW p \in Requests, AdminRequest(p) PROVE Core'
<1>1. UNCHANGED data BY DEF AdminRequest
<1>2. PICK b \in Browsers : LET from == [NoRequest EXCEPT !.at = b, !.sess = cookie[b]] IN
        /\ cookie[b] # None /\ cookie[b].admin
        /\ \/ \E kind \in {"adminCreate"} \intersect group, e \in Emails, w \in Passwords,
                 enabled \in BOOLEAN :
                 Start(p, kind, [from EXCEPT !.email = e, !.word = w, !.flag = enabled])
           \/ \E kind \in {"adminEdit"} \intersect group, u \in Live, e \in Emails :
                 Start(p, kind, [from EXCEPT !.who = u, !.new = e, !.copy = account[u]])
           \/ \E kind \in {"adminPassword"} \intersect group, u \in Live, w \in Passwords :
                 Start(p, kind, [from EXCEPT !.who = u, !.word = w])
           \/ \E kind \in {"adminEnable"} \intersect group, u \in Live, enabled \in BOOLEAN :
                 Start(p, kind, [from EXCEPT !.who = u, !.flag = enabled])
           \/ \E kind \in {"adminDelete"} \intersect group, u \in born :
                 Start(p, kind, [from EXCEPT !.who = u])
           \/ \E kind \in {"admins"} \intersect group, form \in SUBSET born :
                 Start(p, kind, [from EXCEPT !.form = form])
    BY DEF AdminRequest
<1>3. PICK from : from = [NoRequest EXCEPT !.at = b, !.sess = cookie[b]] OBVIOUS
<1>31. PICK s : s = cookie[b] OBVIOUS
<1>4. s \in Session /\ SessionSound(s, born, admins) /\ s # None BY <1>2, <1>31, CookieSound
<1>5. from \in Request /\ from.sess = s /\ from.tfa = None
    BY <1>3, <1>31, <1>4, NoRequestTyped DEF Request
<1>51. s.admin BY <1>2, <1>31
<1>6. ASSUME NEW kind \in {"adminCreate"}, NEW e \in Emails, NEW w \in Passwords, NEW enabled \in BOOLEAN,
             Start(p, kind, [from EXCEPT !.email = e, !.word = w, !.flag = enabled])
      PROVE  Core'
  <2>1. PICK q : q = [from EXCEPT !.email = e, !.word = w, !.flag = enabled] OBVIOUS
  <2>01. q = CreateForm(from, e, w, enabled) BY <2>1 DEF CreateForm
  <2>2. q \in Request /\ q.sess = s /\ q.email = e /\ q.word = w
      BY <1>5, <2>01, CreateFormTyped
  <2>3. kind \in Kinds BY DEF Kinds, VisitorKinds, SettingsKinds, AdminKinds, ApiKinds
  <2>4. ASSUME NEW n \in Request, n.kind = kind, n.pc = kind,
               Carries(n, q.at, q.sess, q.who, q.email, q.new, q.word, q.key, q.tfa, q.copy)
        PROVE  Fields(n) /\ Entitled(n, drawnFor)
      BY <1>4, <1>51, <2>2, <2>4 DEF Carries, Fields, Entitled, SettingsKinds, AdminKinds, ApiKinds
  <2>5. q.sess # None => /\ SessionSound(q.sess, born, admins)
                         /\ \/ \E d \in Browsers : q.sess = cookie[d]
                            \/ \A fl, ls : CopyFresh(q.sess, account, fl, ls)
      BY <1>31, <1>4, <2>2
  <2> QED BY <1>1, <1>6, <2>1, <2>2, <2>3, <2>4, <2>5, ArrivalMove
<1>7. ASSUME NEW kind \in {"adminEdit"}, NEW u \in Live, NEW e \in Emails,
             Start(p, kind, [from EXCEPT !.who = u, !.new = e, !.copy = account[u]])
      PROVE  Core'
  <2>1. PICK q : q = [from EXCEPT !.who = u, !.new = e, !.copy = account[u]] OBVIOUS
  <2>00. PICK c : c = account[u] OBVIOUS
  <2>0. u \in Accounts /\ c \in Account /\ (u \in External => c.tfa = None)
         /\ q = EditForm(from, u, e, c)
      BY <2>00, <2>1, CoreTypes DEF EditForm
  <2>2. q \in Request /\ q.sess = s /\ q.who = u /\ q.new = e /\ q.copy = c
      BY <1>5, <2>0, EditFormTyped
  <2>3. kind \in Kinds BY DEF Kinds, VisitorKinds, SettingsKinds, AdminKinds, ApiKinds
  <2>4. ASSUME NEW n \in Request, n.kind = kind, n.pc = kind,
               Carries(n, q.at, q.sess, q.who, q.email, q.new, q.word, q.key, q.tfa, q.copy)
        PROVE  Fields(n) /\ Entitled(n, drawnFor)
      BY <1>4, <1>51, <2>0, <2>2, <2>4 DEF Carries, Fields, Entitled, SettingsKinds, AdminKinds, ApiKinds
  <2>5. q.sess # None => /\ SessionSound(q.sess, born, admins)
                         /\ \/ \E d \in Browsers : q.sess = cookie[d]
                            \/ \A fl, ls : CopyFresh(q.sess, account, fl, ls)
      BY <1>31, <1>4, <2>2
  <2> QED BY <1>1, <1>7, <2>1, <2>2, <2>3, <2>4, <2>5, ArrivalMove
<1>8. ASSUME NEW kind \in {"adminPassword"}, NEW u \in Live, NEW w \in Passwords,
             Start(p, kind, [from EXCEPT !.who = u, !.word = w])
      PROVE  Core'
  <2>1. PICK q : q = [from EXCEPT !.who = u, !.word = w] OBVIOUS
  <2>0. u \in Accounts BY CoreTypes
  <2>01. q = PasswordForm(from, u, w) BY <2>1 DEF PasswordForm
  <2>2. q \in Request /\ q.sess = s /\ q.who = u /\ q.word = w
      BY <1>5, <2>0, <2>01, PasswordFormTyped
  <2>3. kind \in Kinds BY DEF Kinds, VisitorKinds, SettingsKinds, AdminKinds, ApiKinds
  <2>4. ASSUME NEW n \in Request, n.kind = kind, n.pc = kind,
               Carries(n, q.at, q.sess, q.who, q.email, q.new, q.word, q.key, q.tfa, q.copy)
        PROVE  Fields(n) /\ Entitled(n, drawnFor)
      BY <1>4, <1>51, <2>2, <2>4 DEF Carries, Fields, Entitled, SettingsKinds, AdminKinds, ApiKinds
  <2>5. q.sess # None => /\ SessionSound(q.sess, born, admins)
                         /\ \/ \E d \in Browsers : q.sess = cookie[d]
                            \/ \A fl, ls : CopyFresh(q.sess, account, fl, ls)
      BY <1>31, <1>4, <2>2
  <2> QED BY <1>1, <1>8, <2>1, <2>2, <2>3, <2>4, <2>5, ArrivalMove
<1>9. ASSUME NEW kind \in {"adminEnable"}, NEW u \in Live, NEW enabled \in BOOLEAN,
             Start(p, kind, [from EXCEPT !.who = u, !.flag = enabled])
      PROVE  Core'
  <2>1. PICK q : q = [from EXCEPT !.who = u, !.flag = enabled] OBVIOUS
  <2>0. u \in Accounts BY CoreTypes
  <2>01. q = EnableForm(from, u, enabled) BY <2>1 DEF EnableForm
  <2>2. q \in Request /\ q.sess = s
      BY <1>5, <2>0, <2>01, EnableFormTyped
  <2>3. kind \in Kinds BY DEF Kinds, VisitorKinds, SettingsKinds, AdminKinds, ApiKinds
  <2>4. ASSUME NEW n \in Request, n.kind = kind, n.pc = kind,
               Carries(n, q.at, q.sess, q.who, q.email, q.new, q.word, q.key, q.tfa, q.copy)
        PROVE  Fields(n) /\ Entitled(n, drawnFor)
      BY <1>4, <1>51, <2>2, <2>4 DEF Carries, Fields, Entitled, SettingsKinds, AdminKinds, ApiKinds
  <2>5. q.sess # None => /\ SessionSound(q.sess, born, admins)
                         /\ \/ \E d \in Browsers : q.sess = cookie[d]
                            \/ \A fl, ls : CopyFresh(q.sess, account, fl, ls)
      BY <1>31, <1>4, <2>2
  <2> QED BY <1>1, <1>9, <2>1, <2>2, <2>3, <2>4, <2>5, ArrivalMove
<1>10. ASSUME NEW kind \in {"adminDelete"}, NEW u \in born,
             Start(p, kind, [from EXCEPT !.who = u])
      PROVE  Core'
  <2>1. PICK q : q = [from EXCEPT !.who = u] OBVIOUS
  <2>0. u \in Accounts BY CoreTypes
  <2>2. q \in Request /\ q.sess = s
      BY <1>5, <2>0, <2>1 DEF Request
  <2>3. kind \in Kinds BY DEF Kinds, VisitorKinds, SettingsKinds, AdminKinds, ApiKinds
  <2>4. ASSUME NEW n \in Request, n.kind = kind, n.pc = kind,
               Carries(n, q.at, q.sess, q.who, q.email, q.new, q.word, q.key, q.tfa, q.copy)
        PROVE  Fields(n) /\ Entitled(n, drawnFor)
      BY <1>4, <1>51, <2>2, <2>4 DEF Carries, Fields, Entitled, SettingsKinds, AdminKinds, ApiKinds
  <2>5. q.sess # None => /\ SessionSound(q.sess, born, admins)
                         /\ \/ \E d \in Browsers : q.sess = cookie[d]
                            \/ \A fl, ls : CopyFresh(q.sess, account, fl, ls)
      BY <1>31, <1>4, <2>2
  <2> QED BY <1>1, <1>10, <2>1, <2>2, <2>3, <2>4, <2>5, ArrivalMove
<1>11. ASSUME NEW kind \in {"admins"}, NEW form \in SUBSET born,
             Start(p, kind, [from EXCEPT !.form = form])
      PROVE  Core'
  <2>1. PICK q : q = [from EXCEPT !.form = form] OBVIOUS
  <2>0. form \in SUBSET Accounts BY CoreTypes
  <2>2. q \in Request /\ q.sess = s
      BY <1>5, <2>0, <2>1 DEF Request
  <2>3. kind \in Kinds BY DEF Kinds, VisitorKinds, SettingsKinds, AdminKinds, ApiKinds
  <2>4. ASSUME NEW n \in Request, n.kind = kind, n.pc = kind,
               Carries(n, q.at, q.sess, q.who, q.email, q.new, q.word, q.key, q.tfa, q.copy)
        PROVE  Fields(n) /\ Entitled(n, drawnFor)
      BY <1>4, <1>51, <2>2, <2>4 DEF Carries, Fields, Entitled, SettingsKinds, AdminKinds, ApiKinds
  <2>5. q.sess # None => /\ SessionSound(q.sess, born, admins)
                         /\ \/ \E d \in Browsers : q.sess = cookie[d]
                            \/ \A fl, ls : CopyFresh(q.sess, account, fl, ls)
      BY <1>31, <1>4, <2>2
  <2> QED BY <1>1, <1>11, <2>1, <2>2, <2>3, <2>4, <2>5, ArrivalMove
<1> QED BY <1>2, <1>3, <1>6, <1>7, <1>8, <1>9, <1>10, <1>11

LEMMA ApiRequestSound ==
    ASSUME Core, {u \in Live : account[u].admin} \subseteq admins, Recorded,
           NEW p \in Requests, ApiRequest(p)
    PROVE  Core'
<1>1. UNCHANGED data BY DEF ApiRequest
<1>2. PICK u \in Live : LET from == [NoRequest EXCEPT !.sess = SessionOf(u, account[u])] IN
        \/ \E kind \in {"apiCreate"} \intersect group, e \in Emails, w \in Passwords :
              account[u].admin
              /\ Start(p, kind, [from EXCEPT !.email = e, !.word = w, !.flag = TRUE])
        \/ \E kind \in {"apiUpdate"} \intersect group, v \in Live, e \in Emails,
              w \in Passwords \union {None}, extra \in BOOLEAN :
              (u = v \/ account[u].admin)
              /\ Start(p, kind, [from EXCEPT !.who = v, !.new = e, !.word = w,
                                                !.flag = extra, !.copy = account[v]])
        \/ \E kind \in {"apiDelete"} \intersect group, v \in Live :
              (u = v \/ account[u].admin) /\ Start(p, kind, [from EXCEPT !.who = v])
    BY DEF ApiRequest
<1>3. PICK s : s = SessionOf(u, account[u]) OBVIOUS
<1>4. /\ s \in Session /\ SessionSound(s, born, admins)
      /\ \A fl, ls : CopyFresh(s, account, fl, ls)
    BY <1>3, OpenedSound
<1>5. PICK from : from = [NoRequest EXCEPT !.sess = s] OBVIOUS
<1>6. from \in Request /\ from.sess = s /\ s # None /\ s.id = u /\ s.admin = account[u].admin
  <2>1. s # None BY <1>4, AccountsNoRecordAssumption
  <2>2. s.id = u /\ s.admin = account[u].admin BY <1>3 DEF SessionOf
  <2> QED BY <1>4, <1>5, <2>1, <2>2, NoRequestTyped DEF Request
<1>7. ASSUME NEW kind \in {"apiCreate"}, NEW e \in Emails, NEW w \in Passwords, account[u].admin,
             Start(p, kind, [from EXCEPT !.email = e, !.word = w, !.flag = TRUE])
      PROVE  Core'
  <2>1. PICK q : q = [from EXCEPT !.email = e, !.word = w, !.flag = TRUE] OBVIOUS
  <2>2. q \in Request /\ q.sess = s /\ q.email = e /\ q.word = w
      BY <1>6, <2>1 DEF Request
  <2>3. kind \in Kinds BY DEF Kinds, VisitorKinds, SettingsKinds, AdminKinds, ApiKinds
  <2>4. ASSUME NEW n \in Request, n.kind = kind, n.pc = kind,
               Carries(n, q.at, q.sess, q.who, q.email, q.new, q.word, q.key, q.tfa, q.copy)
        PROVE  Fields(n) /\ Entitled(n, drawnFor)
      BY <1>6, <1>7, <2>2, <2>4 DEF Carries, Fields, Entitled, SettingsKinds, AdminKinds, ApiKinds
  <2>5. q.sess # None => /\ SessionSound(q.sess, born, admins)
                         /\ \/ \E d \in Browsers : q.sess = cookie[d]
                            \/ \A fl, ls : CopyFresh(q.sess, account, fl, ls)
      BY <1>4, <2>2
  <2> QED BY <1>1, <1>7, <2>1, <2>2, <2>3, <2>4, <2>5, ArrivalMove
<1>8. ASSUME NEW kind \in {"apiUpdate"}, NEW v \in Live, NEW e \in Emails,
             NEW w \in Passwords \union {None}, NEW extra \in BOOLEAN, u = v \/ account[u].admin,
             Start(p, kind, [from EXCEPT !.who = v, !.new = e, !.word = w,
                                    !.flag = extra, !.copy = account[v]])
      PROVE  Core'
  <2>1. PICK q : q = [from EXCEPT !.who = v, !.new = e, !.word = w,
                                    !.flag = extra, !.copy = account[v]] OBVIOUS
  <2>0. v \in Accounts /\ account[v] \in Account BY CoreTypes
  <2>01. PICK h : h = [from EXCEPT !.who = v, !.new = e] OBVIOUS
  <2>00. PICK c : c = account[v] OBVIOUS
  <2>02. h \in Request /\ h.sess = s /\ h.who = v /\ h.new = e
      BY <1>6, <2>0, <2>01 DEF Request
  <2>03. PICK j : j = [h EXCEPT !.word = w, !.flag = extra] OBVIOUS
  <2>04. /\ j \in Request /\ j.sess = s /\ j.who = v /\ j.new = e
         /\ q = [j EXCEPT !.copy = c]
    <3>1. j \in Request /\ j.sess = s /\ j.who = v /\ j.new = e
        BY <2>02, <2>03 DEF Request
    <3>2. q = [j EXCEPT !.copy = c] BY <1>6, <2>00, <2>01, <2>02, <2>03, <2>1 DEF Request
    <3> QED BY <3>1, <3>2
  <2>2. q \in Request /\ q.sess = s /\ q.who = v /\ q.new = e /\ q.copy = account[v] /\ q.copy \in Account
      BY <2>0, <2>00, <2>04 DEF Request
  <2>3. kind \in Kinds BY DEF Kinds, VisitorKinds, SettingsKinds, AdminKinds, ApiKinds
  <2>4. ASSUME NEW n \in Request, n.kind = kind, n.pc = kind,
               Carries(n, q.at, q.sess, q.who, q.email, q.new, q.word, q.key, q.tfa, q.copy)
        PROVE  Fields(n) /\ Entitled(n, drawnFor)
      BY <1>6, <1>8, <2>2, <2>4 DEF Carries, Fields, Entitled, SettingsKinds, AdminKinds, ApiKinds
  <2>5. q.sess # None => /\ SessionSound(q.sess, born, admins)
                         /\ \/ \E d \in Browsers : q.sess = cookie[d]
                            \/ \A fl, ls : CopyFresh(q.sess, account, fl, ls)
      BY <1>4, <2>2
  <2> QED BY <1>1, <1>8, <2>1, <2>2, <2>3, <2>4, <2>5, ArrivalMove
<1>9. ASSUME NEW kind \in {"apiDelete"}, NEW v \in Live, u = v \/ account[u].admin,
             Start(p, kind, [from EXCEPT !.who = v])
      PROVE  Core'
  <2>1. PICK q : q = [from EXCEPT !.who = v] OBVIOUS
  <2>0. v \in Accounts BY CoreTypes
  <2>2. q \in Request /\ q.sess = s /\ q.who = v
      BY <1>6, <2>0, <2>1 DEF Request
  <2>3. kind \in Kinds BY DEF Kinds, VisitorKinds, SettingsKinds, AdminKinds, ApiKinds
  <2>4. ASSUME NEW n \in Request, n.kind = kind, n.pc = kind,
               Carries(n, q.at, q.sess, q.who, q.email, q.new, q.word, q.key, q.tfa, q.copy)
        PROVE  Fields(n) /\ Entitled(n, drawnFor)
      BY <1>6, <1>9, <2>2, <2>4 DEF Carries, Fields, Entitled, SettingsKinds, AdminKinds, ApiKinds
  <2>5. q.sess # None => /\ SessionSound(q.sess, born, admins)
                         /\ \/ \E d \in Browsers : q.sess = cookie[d]
                            \/ \A fl, ls : CopyFresh(q.sess, account, fl, ls)
      BY <1>4, <2>2
  <2> QED BY <1>1, <1>9, <2>1, <2>2, <2>3, <2>4, <2>5, ArrivalMove
<1> QED BY <1>2, <1>3, <1>5, <1>7, <1>8, <1>9

(***************************************************************************)
(* The theorems.                                                           *)
(***************************************************************************)
LEMMA InitSound == Init => AccountsInv
<1> SUFFICES ASSUME Init PROVE AccountsInv OBVIOUS
<1>1. PICK s \in Starts[group] : account = s.account /\ profile = s.profile /\ cookie = s.cookie
    BY DEF Init
<1>2. group \in Groups /\ letters = {} /\ req = [p \in Requests |-> NoRequest] /\ born = Live
      /\ drawnFor = [k \in Keys |-> {}] /\ admins = {u \in Live : account[u].admin} /\ lost = {}
    BY DEF Init
<1>3. SoundStart(s) BY <1>1, <1>2, AccountsStartsAssumption
<1>4. /\ account \in [Live -> Account] /\ Live \subseteq Accounts
      /\ \A u, v \in Live : account[u].email = account[v].email => u = v
      /\ \A u \in Live \intersect External : account[u].tfa = None
      /\ profile \in [DOMAIN profile -> [email: {account[u].email : u \in Live}, keys: {NoKeys}]]
      /\ DOMAIN profile \subseteq Rows
      /\ cookie \in [Browsers -> {SessionOf(u, account[u]) : u \in Live} \union {None}]
    BY <1>1, <1>3 DEF SoundStart, Live
<1>5. AccountsSound(account, born) BY <1>2, <1>4 DEF AccountsSound, Live
<1>6. NoKeys \in [KeyKinds -> Keys \union {None}] /\ \A kind \in KeyKinds : NoKeys[kind] = None
    BY DEF NoKeys
<1>7. ASSUME NEW r \in DOMAIN profile
      PROVE  /\ profile[r] \in Profile /\ profile[r].keys = NoKeys
             /\ \E u \in Live : account[u].email = profile[r].email
  <2>1. profile[r] \in [email: {account[u].email : u \in Live}, keys: {NoKeys}] BY <1>4
  <2>2. PICK u \in Live : profile[r].email = account[u].email BY <2>1
  <2>3. account[u].email \in Emails
    <3>1. account[u] \in Account BY <1>4
    <3> QED BY <3>1 DEF Account
  <2> QED BY <1>6, <2>1, <2>2, <2>3 DEF Profile
<1>8. ProfilesSound(account, profile) BY <1>4, <1>7 DEF ProfilesSound, Live
<1>9. KeysFounded(account, profile, drawnFor) BY <1>6, <1>7 DEF KeysFounded
<1>10. ASSUME NEW b \in Browsers, cookie[b] # None
       PROVE  /\ cookie[b] \in Session /\ SessionSound(cookie[b], born, admins)
              /\ \A fl, ls : CopyFresh(cookie[b], account, fl, ls)
  <2>1. PICK u \in Live : cookie[b] = SessionOf(u, account[u]) BY <1>4, <1>10
  <2>2. account[u] \in Account /\ u \in Accounts /\ u \in born BY <1>2, <1>4
  <2>3. PICK c : c = cookie[b] OBVIOUS
  <2>4. c \in Session BY <2>1, <2>2, <2>3 DEF SessionOf, Session, Account
  <2>5. c.id = u /\ c.admin = account[u].admin /\ c.tfa = account[u].tfa
      BY <2>1, <2>3 DEF SessionOf
  <2>6. u \in External => account[u].tfa = None BY <1>4
  <2>7. c.admin => u \in admins BY <1>2, <2>5
  <2>8. SessionSound(c, born, admins) BY <2>2, <2>4, <2>5, <2>6, <2>7 DEF SessionSound
  <2>9. \A fl, ls : CopyFresh(c, account, fl, ls) BY <2>5 DEF CopyFresh
  <2> QED BY <2>3, <2>4, <2>8, <2>9
<1>11. cookie \in [Browsers -> Session \union {None}] BY <1>4, <1>10
<1>12. req \in [Requests -> Request] /\ \A p \in Requests : req[p] = NoRequest
    BY <1>2, NoRequestTyped
<1>13. \A p \in Requests : RequestSound(req[p], born, admins, drawnFor) /\ req[p].sess = None
    BY <1>12, NoRequestSound, NoRequestTyped
<1>14. SessionsSound(cookie, req, account, born, admins, drawnFor, lost)
    BY <1>10, <1>11, <1>12, <1>13 DEF SessionsSound
<1>15. LettersSound(letters) BY <1>2 DEF LettersSound
<1>16. drawnFor \in [Keys -> SUBSET Accounts] BY <1>2
<1>17. RowsSound(account, profile, born, drawnFor) BY <1>5, <1>8, <1>9 DEF RowsSound
<1> QED BY <1>2, <1>14, <1>15, <1>16, <1>17 DEF AccountsInv, Core

LEMMA StutterSound == AccountsInv /\ UNCHANGED vars => AccountsInv'
BY DEF AccountsInv, Core, vars, Live

\* Every action of a request keeps the invariant.
LEMMA ActionSound ==
    ASSUME AccountsInv, Recorded, NEW p \in Requests,
           Arrival(p) \/ KeyStep(p) \/ VisitorStep(p) \/ SettingsStep(p) \/ AdminStep(p)
    PROVE  Core'
<1>1. Core /\ {u \in Live : account[u].admin} \subseteq admins BY DEF AccountsInv
<1>2. CASE Arrival(p)
    BY <1>1, <1>2, VisitorRequestSound, SettingsRequestSound, AdminRequestSound, ApiRequestSound
       DEF Arrival
<1>3. CASE KeyStep(p)
    BY <1>1, <1>3, FindProfileSound, UpdateProfileSound, CreateProfileSound DEF KeyStep
<1>4. CASE VisitorStep(p)
  <2>1. CASE ValidateNew(p) BY <1>1, <2>1, ValidateNewSound
  <2>2. CASE SignUp(p) BY <1>1, <2>2, SignUpSound
  <2>3. CASE AdminCreate(p) \/ ApiCreate(p)
      BY <1>1, <2>3, CreateByAdministratorSound DEF AdminCreate, ApiCreate
  <2>4. CASE Login(p) BY <1>1, <2>4, LoginSound
  <2>5. CASE SubmitToken(p) BY <1>1, <2>5, SubmitTokenSound
  <2>6. CASE TfaVerify(p) BY <1>1, <2>6, TfaVerifySound
  <2>7. CASE FlushExtra(p) BY <1>1, <2>7, FlushExtraSound
  <2>8. CASE ExternalLogin(p) BY <1>1, <2>8, ExternalLoginSound
  <2>9. CASE ValidateLocal(p) BY <1>1, <2>9, ValidateLocalSound
  <2>10. CASE CreateLocal(p) BY <1>1, <2>10, CreateLocalSound
  <2>11. CASE PasswordSendEmail(p) BY <1>1, <2>11, PasswordSendEmailSound
  <2>12. CASE AvoidTfaEmail(p) BY <1>1, <2>12, AvoidTfaEmailSound
  <2>13. CASE ResendConfirmation(p) BY <1>1, <2>13, ResendConfirmationSound
  <2>14. CASE MailAgain(p) BY <1>1, <2>14, MailAgainSound
  <2>15. CASE Activate(p) BY <1>1, <2>15, ActivateSound
  <2>16. CASE SaveEnabled(p) BY <1>1, <2>16, SaveEnabledSound
  <2>17. CASE ChangePassword(p) BY <1>1, <2>17, ChangePasswordSound
  <2>18. CASE SetPassword(p) BY <1>1, <2>18, SetPasswordSound
  <2>19. CASE DisableTfaByKey(p) BY <1>1, <2>19, DisableTfaByKeySound
  <2> QED BY <1>4, <2>1, <2>2, <2>3, <2>4, <2>5, <2>6, <2>7, <2>8, <2>9, <2>10, <2>11, <2>12,
             <2>13, <2>14, <2>15, <2>16, <2>17, <2>18, <2>19 DEF VisitorStep
<1>5. CASE SettingsStep(p)
  <2>1. CASE Visit(p) BY <1>1, <2>1, VisitSound
  <2>2. CASE Logout(p) BY <1>1, <2>2, LogoutSound
  <2>3. CASE UpdateInfo(p) BY <1>1, <2>3, UpdateInfoSound
  <2>4. CASE EnableTfa(p) BY <1>1, <2>4, EnableTfaSound
  <2>5. CASE DisableTfa(p) BY <1>1, <2>5, DisableTfaSound
  <2>6. CASE NoExtra(p) BY <1>1, <2>6, NoExtraSound
  <2>7. CASE CheckPassword(p) BY <1>1, <2>7, CheckPasswordSound
  <2>8. CASE SetOwnPassword(p) BY <1>1, <2>8, SetOwnPasswordSound
  <2>9. CASE ChangeEmail(p) BY <1>1, <2>9, ChangeEmailSound
  <2>10. CASE ChangeEmailCheck(p) BY <1>1, <2>10, ChangeEmailCheckSound
  <2>11. CASE EmailVerify(p) BY <1>1, <2>11, EmailVerifySound
  <2>12. CASE SetEmail(p) BY <1>1, <2>12, SetEmailSound
  <2>13. CASE CancelAccount(p) BY <1>1, <2>13, CancelAccountSound
  <2>14. CASE Destroy(p) BY <1>1, <2>14, DestroyStepSound
  <2> QED BY <1>5, <2>1, <2>2, <2>3, <2>4, <2>5, <2>6, <2>7, <2>8, <2>9, <2>10, <2>11, <2>12,
             <2>13, <2>14 DEF SettingsStep
<1>6. CASE AdminStep(p)
  <2>1. CASE AdminEdit(p) BY <1>1, <2>1, AdminEditSound
  <2>2. CASE AdminSave(p) \/ ApiSave(p) BY <1>1, <2>2, SaveCopySound DEF AdminSave, ApiSave
  <2>3. CASE ApiUpdate(p) BY <1>1, <2>3, ApiUpdateSound
  <2>4. CASE ApiDelete(p) BY <1>1, <2>4, ApiDeleteSound
  <2>5. CASE AdminPassword(p) BY <1>1, <2>5, AdminPasswordSound
  <2>6. CASE AdminEnable(p) BY <1>1, <2>6, AdminEnableSound
  <2>7. CASE AdminDelete(p) BY <1>1, <2>7, AdminDeleteSound
  <2>8. CASE ReadAdministrators(p) BY <1>1, <2>8, ReadAdministratorsSound
  <2>9. CASE Promote(p) BY <1>1, <2>9, PromoteSound
  <2>10. CASE Demote(p) BY <1>1, <2>10, DemoteSound
  <2> QED BY <1>6, <2>1, <2>2, <2>3, <2>4, <2>5, <2>6, <2>7, <2>8, <2>9, <2>10 DEF AdminStep
<1> QED BY <1>2, <1>3, <1>4, <1>5, <1>6

LEMMA NextSound == AccountsInv /\ Next => AccountsInv'
<1> SUFFICES ASSUME AccountsInv, Next PROVE AccountsInv' OBVIOUS
<1>1. Recorded /\ History BY HistoryRecords DEF Next
<1>2. Core' BY <1>1, ActionSound DEF Next
<1>3. \A u \in DOMAIN account' : account'[u].admin => u \in admins' BY <1>1 DEF Recorded
<1>4. group' \in Groups BY <1>1 DEF History, AccountsInv
<1> QED BY <1>2, <1>3, <1>4 DEF AccountsInv, Live

\* The invariant of the proofs: the program keeps addresses unique, profiles with their
\* accounts, and what every request and every session claims about them true.
THEOREM AccountsInvariant == Spec => []AccountsInv
<1>1. AccountsInv /\ [Next]_vars => AccountsInv' BY NextSound, StutterSound
<1> QED BY <1>1, InitSound, PTL DEF Spec

LEMMA InvTypes == AccountsInv => AccountsTypeOK
<1> SUFFICES ASSUME AccountsInv PROVE AccountsTypeOK OBVIOUS
<1>1. Core /\ group \in Groups BY DEF AccountsInv
<1>2. DOMAIN profile \subseteq Rows /\ \A r \in DOMAIN profile : profile[r].email \in Addresses
    BY <1>1 DEF Core, RowsSound, ProfilesSound, Addresses, Live
<1>3. letters \subseteq Letter BY <1>1 DEF Core, LettersSound
<1> QED BY <1>1, <1>2, <1>3, CoreTypes DEF AccountsTypeOK

\* Two accounts never share an address, no profile outlives its account's address, and
\* every row, session and request in flight is well formed, however requests interleave
\* (models/user.js, models/user_registration_profile.js, controllers/web/users.js).
THEOREM AccountsTypes == Spec => []AccountsTypeOK
BY AccountsInvariant, InvTypes, PTL

LEMMA InvCopies == AccountsInv => SessionCopyIsCurrent
<1> SUFFICES ASSUME AccountsInv, NEW b \in Browsers, cookie[b] # None
             PROVE  \/ ~cookie[b].current
                    \/ cookie[b].id \notin Live \ lost
                    \/ cookie[b].tfa = account[cookie[b].id].tfa
                    \/ \E p \in Requests : At(p, "flush") /\ req[p].who = cookie[b].id
    BY DEF SessionCopyIsCurrent
<1>1. CopyFresh(cookie[b], account, Flushes(req), lost)
    BY DEF AccountsInv, Core, SessionsSound
<1>2. ASSUME <<cookie[b].id, cookie[b].tfa>> \in Flushes(req)
      PROVE  \E p \in Requests : At(p, "flush") /\ req[p].who = cookie[b].id
    BY <1>2 DEF Flushes, At
<1> QED BY <1>1, <1>2 DEF CopyFresh, Live

\* A browser's copy of the two-factor settings is the row's, unless somebody else changed
\* them since, a save is on its way, or a process died with one: saving "extra" from the
\* session (updateInfo, enableTfa, disableTfa in controllers/web/settings.js and users.js)
\* then takes nothing back.
THEOREM SessionCopiesAreCurrent == Spec => []SessionCopyIsCurrent
BY AccountsInvariant, InvCopies, PTL

(***************************************************************************)
(* Who may change an account.                                              *)
(***************************************************************************)
Changes(u) == u \notin DOMAIN account' \/ account'[u] # account[u]
MayChange(p, u) ==
    \/ SessionMayChange(req[p].sess, u)
    \/ HasKeyOf(p, u)
    \/ At(p, "flush") /\ req[p].who = u
    \/ /\ At(p, "setEmail") /\ account[u].email = req[p].email
       /\ req[p].sess.id \notin {v \in Live : account[v].email = req[p].email}
Authorized(p) == \A u \in Live : Changes(u) => Works(p) /\ MayChange(p, u)

\* A request that is answered, or goes to another step, has done its work.
LEMMA AnsweredWorks ==
    ASSUME Core, NEW p \in Requests, ~At(p, "idle"),
           \/ Finish(p) \/ RespondSame(p) \/ \E s : Respond(p, s)
           \/ \E u, t : req' = OthersOutdated(p, u, t)
    PROVE  Works(p)
<1>1. req'[p] = NoRequest
    BY CoreTypes DEF Finish, Goto, RespondSame, Respond, OthersOutdated
<1> QED BY <1>1 DEF Works, At, NoRequest

\* An administrator's request comes with the session of one who has been administrator.
LEMMA AdministratorsMay ==
    ASSUME Core, NEW p \in Requests, ~At(p, "idle"), req[p].kind \in AdminKinds, NEW u
    PROVE  MayChange(p, u)
<1>1. Entitled(req[p], drawnFor) BY RequestFacts
<1>2. req[p].sess # None /\ req[p].sess.admin BY <1>1 DEF Entitled
<1>3. SessionSound(req[p].sess, born, admins) BY <1>2 DEF Core, SessionsSound, RequestSound
<1> QED BY <1>2, <1>3 DEF SessionSound, SessionMayChange, MayChange

LEMMA TokensMay ==
    ASSUME Core, NEW p \in Requests, ~At(p, "idle"), req[p].kind \in {"apiUpdate", "apiDelete"}
    PROVE  MayChange(p, req[p].who)
<1>1. Entitled(req[p], drawnFor) BY RequestFacts
<1>2. req[p].sess # None /\ (req[p].sess.id = req[p].who \/ req[p].sess.admin)
    BY <1>1 DEF Entitled, ApiKinds
<1>3. SessionSound(req[p].sess, born, admins) BY <1>2 DEF Core, SessionsSound, RequestSound
<1> QED BY <1>2, <1>3 DEF SessionSound, SessionMayChange, MayChange

LEMMA OwnersMay ==
    ASSUME Core, NEW p \in Requests, ~At(p, "idle"), req[p].kind \in SettingsKinds
    PROVE  MayChange(p, req[p].sess.id)
<1>1. Entitled(req[p], drawnFor) BY RequestFacts
<1>2. req[p].sess # None BY <1>1 DEF Entitled
<1> QED BY <1>2 DEF SessionMayChange, MayChange

LEMMA KeysMay ==
    ASSUME Core, NEW p \in Requests, At(p, "enable") \/ At(p, "setPassword")
    PROVE  MayChange(p, req[p].who)
<1>1. Course(req[p]) /\ Fields(req[p]) /\ Entitled(req[p], drawnFor) BY RequestFacts DEF At
<1>2. req[p].key \in Keys BY <1>1 DEF Course, Fields, At
<1>3. req[p].key # None BY <1>2, AccountsNoneAssumption
<1>4. req[p].who \in drawnFor[req[p].key] BY <1>1 DEF Entitled, At
<1> QED BY <1>3, <1>4 DEF HasKeyOf, MayChange

LEMMA UnchangedAuthorized ==
    ASSUME Core, NEW p, account' = account PROVE Authorized(p)
BY DEF Authorized, Changes, Live

\* One account changes, by a request that may.
LEMMA OneAuthorized ==
    ASSUME NEW p, NEW u, Works(p), MayChange(p, u),
           \A v \in Live \ {u} : v \in DOMAIN account' /\ account'[v] = account[v]
    PROVE  Authorized(p)
BY DEF Authorized, Changes

LEMMA CourseOf ==
    ASSUME Core, NEW p \in Requests, ~At(p, "idle")
    PROVE  /\ req[p].pc \in Kinds => req[p].kind = req[p].pc
           /\ req[p].pc = "save" => req[p].kind \in {"adminEdit", "apiUpdate"}
           /\ req[p].pc \in {"promote", "demote"} => req[p].kind = "admins"
           /\ req[p].pc = "destroy" => req[p].kind \in {"cancel", "adminDelete"}
           /\ req[p].pc = "setOwnPassword" => req[p].kind = "changePassword"
           /\ req[p].pc = "setEmail" => req[p].kind = "emailVerify"
BY RequestFacts DEF Course

LEMMA InsertedAuthorized ==
    ASSUME Core, NEW p, NEW u \in Accounts \ Live, NEW a, Insert(u, a) PROVE Authorized(p)
BY DEF Authorized, Changes, Insert, Live

LEMMA VisitorAuthorized ==
    ASSUME Core, NEW p \in Requests, Arrival(p) \/ KeyStep(p) \/ VisitorStep(p)
    PROVE  Authorized(p)
<1>1. CASE \/ Arrival(p) \/ KeyStep(p) \/ ValidateNew(p) \/ Login(p) \/ SubmitToken(p)
           \/ TfaVerify(p) \/ ExternalLogin(p) \/ ValidateLocal(p) \/ PasswordSendEmail(p)
           \/ AvoidTfaEmail(p) \/ ResendConfirmation(p) \/ MailAgain(p) \/ Activate(p)
           \/ ChangePassword(p) \/ DisableTfaByKey(p)
  <2>1. account' = account
      BY <1>1 DEF Arrival, VisitorRequest, SettingsRequest, AdminRequest, ApiRequest, KeyStep,
         FindProfile, UpdateProfile, CreateProfile, ValidateNew, Login, SubmitToken, TfaVerify,
         ExternalLogin, ValidateLocal, PasswordSendEmail, AvoidTfaEmail, ResendConfirmation,
         MailAgain, Activate, ChangePassword, DisableTfaByKey, data
  <2> QED BY <2>1, UnchangedAuthorized
<1>2. CASE SignUp(p)
  <2>1. CASE req[p].email \in Addresses
    <3>1. account' = account BY <1>2, <2>1 DEF SignUp
    <3> QED BY <3>1, UnchangedAuthorized
  <2>2. CASE req[p].email \notin Addresses
    <3>1. PICK u \in Accounts \ (born \union External) : Insert(u, NewAccount(req[p], FALSE))
        BY <1>2, <2>2 DEF SignUp
    <3> QED BY <3>1, CoreTypes, InsertedAuthorized
  <2> QED BY <2>1, <2>2
<1>3. CASE CreateByAdministrator(p)
  <2>1. CASE req[p].email \in Addresses
    <3>1. account' = account BY <1>3, <2>1 DEF CreateByAdministrator
    <3> QED BY <3>1, UnchangedAuthorized
  <2>2. CASE req[p].email \notin Addresses
    <3>1. PICK u \in Accounts \ (born \union External) : Insert(u, NewAccount(req[p], req[p].flag))
        BY <1>3, <2>2 DEF CreateByAdministrator
    <3> QED BY <3>1, CoreTypes, InsertedAuthorized
  <2> QED BY <2>1, <2>2
<1>4. CASE CreateLocal(p)
  <2>1. CASE req[p].email \in Addresses \/ req[p].who \in Live
    <3>1. account' = account BY <1>4, <2>1 DEF CreateLocal
    <3> QED BY <3>1, UnchangedAuthorized
  <2>2. CASE ~(req[p].email \in Addresses \/ req[p].who \in Live)
    <3>1. PICK w \in Passwords : Insert(req[p].who, NewAccount([req[p] EXCEPT !.word = w], TRUE))
        BY <1>4, <2>2 DEF CreateLocal
    <3>2. req[p].who \in Accounts
      <4>1. At(p, "saveLocal") BY <1>4 DEF CreateLocal
      <4>2. Course(req[p]) /\ Fields(req[p]) BY <4>1, RequestFacts DEF At
      <4> QED BY <4>1, <4>2, AccountsStartsAssumption DEF Course, Fields, At
    <3> QED BY <2>2, <3>1, <3>2, InsertedAuthorized
  <2> QED BY <2>1, <2>2
<1>5. CASE FlushExtra(p)
  <2>1. At(p, "flush") /\ ~At(p, "idle") BY <1>5 DEF FlushExtra, At
  <2>2. Works(p) BY <1>5, <2>1, AnsweredWorks DEF FlushExtra
  <2>3. MayChange(p, req[p].who) BY <2>1 DEF MayChange
  <2>4. \A v \in Live \ {req[p].who} : v \in DOMAIN account' /\ account'[v] = account[v]
      BY <1>5 DEF FlushExtra, SaveExtra, Live
  <2> QED BY <2>2, <2>3, <2>4, OneAuthorized
<1>6. CASE SaveEnabled(p)
  <2>1. At(p, "enable") /\ ~At(p, "idle") /\ Finish(p) BY <1>6 DEF SaveEnabled, At
  <2>2. Works(p) /\ MayChange(p, req[p].who) BY <2>1, AnsweredWorks, KeysMay
  <2>3. \A v \in Live \ {req[p].who} : v \in DOMAIN account' /\ account'[v] = account[v]
      BY <1>6 DEF SaveEnabled, Live
  <2> QED BY <2>2, <2>3, OneAuthorized
<1>7. CASE SetPassword(p)
  <2>1. At(p, "setPassword") /\ ~At(p, "idle") /\ RespondSame(p) BY <1>7 DEF SetPassword, At
  <2>2. Works(p) /\ MayChange(p, req[p].who) BY <2>1, AnsweredWorks, KeysMay
  <2>3. \A v \in Live \ {req[p].who} : v \in DOMAIN account' /\ account'[v] = account[v]
      BY <1>7 DEF SetPassword, SavePassword, Live
  <2> QED BY <2>2, <2>3, OneAuthorized
<1> QED BY <1>1, <1>2, <1>3, <1>4, <1>5, <1>6, <1>7 DEF VisitorStep, AdminCreate, ApiCreate

LEMMA DestroyedAuthorized ==
    ASSUME NEW p, NEW u, Works(p), MayChange(p, u),
           IF u \in Live THEN Destroyed(u) ELSE UNCHANGED <<account, profile>>
    PROVE  Authorized(p)
<1>1. \A v \in Live \ {u} : v \in DOMAIN account' /\ account'[v] = account[v]
    BY DEF Destroyed, Live
<1> QED BY <1>1, OneAuthorized

LEMMA SettingsAuthorized ==
    ASSUME Core, NEW p \in Requests, SettingsStep(p) PROVE Authorized(p)
<1>1. CASE \/ Visit(p) \/ Logout(p) \/ NoExtra(p) \/ CheckPassword(p) \/ ChangeEmail(p)
           \/ ChangeEmailCheck(p) \/ EmailVerify(p) \/ CancelAccount(p)
  <2>1. account' = account
      BY <1>1 DEF Visit, Logout, NoExtra, CheckPassword, ChangeEmail, ChangeEmailCheck,
         EmailVerify, CancelAccount, data
  <2> QED BY <2>1, UnchangedAuthorized
<1>2. CASE UpdateInfo(p) \/ EnableTfa(p) \/ DisableTfa(p)
  <2>1. ~At(p, "idle") /\ req[p].pc \in {"updateInfo", "enableTfa", "disableTfa"}
      BY <1>2 DEF UpdateInfo, EnableTfa, DisableTfa, At
  <2>2. PICK t, s : SaveExtra(p, req[p].sess.id, t) /\ AnswerExtra(p, req[p].sess.id, t, s)
      BY <1>2 DEF UpdateInfo, EnableTfa, DisableTfa, ChangeTfa
  <2>3. req[p].kind \in SettingsKinds
      BY <2>1, CourseOf DEF Kinds, SettingsKinds
  <2>4. Works(p) BY <2>1, <2>2, AnsweredWorks DEF AnswerExtra
  <2>5. MayChange(p, req[p].sess.id) BY <2>1, <2>3, OwnersMay
  <2>6. \A v \in Live \ {req[p].sess.id} : v \in DOMAIN account' /\ account'[v] = account[v]
      BY <2>2 DEF SaveExtra, Live
  <2> QED BY <2>4, <2>5, <2>6, OneAuthorized
<1>3. CASE SetOwnPassword(p)
  <2>1. ~At(p, "idle") /\ req[p].pc = "setOwnPassword" /\ Respond(p, None)
      BY <1>3 DEF SetOwnPassword, At
  <2>2. req[p].kind \in SettingsKinds BY <2>1, CourseOf DEF SettingsKinds
  <2>3. Works(p) /\ MayChange(p, req[p].sess.id) BY <2>1, <2>2, AnsweredWorks, OwnersMay
  <2>4. \A v \in Live \ {req[p].sess.id} : v \in DOMAIN account' /\ account'[v] = account[v]
      BY <1>3 DEF SetOwnPassword, SavePassword, Live
  <2> QED BY <2>3, <2>4, OneAuthorized
<1>4. CASE SetEmail(p)
  <2>1. At(p, "setEmail") /\ ~At(p, "idle") /\ req[p].kind \in SettingsKinds
    <3>1. At(p, "setEmail") /\ ~At(p, "idle") BY <1>4 DEF SetEmail, At
    <3> QED BY <3>1, CourseOf DEF At, SettingsKinds
  <2>2. PICK e : e = req[p].email OBVIOUS
  <2>3. CASE account' = account BY <2>3, UnchangedAuthorized
  <2>4. CASE account' # account
    <3>1. /\ e \in Addresses /\ account' = [account EXCEPT ![Owner(e)].email = req[p].new]
          /\ \E s : Respond(p, s)
        BY <1>4, <2>2, <2>4 DEF SetEmail, Rename
    <3>2. Works(p) BY <2>1, <3>1, AnsweredWorks
    <3>3. Owner(e) \in Live /\ account[Owner(e)].email = e BY <3>1, OwnerOf
    <3>4. MayChange(p, Owner(e))
      <4>1. CASE req[p].sess.id = Owner(e) BY <2>1, <4>1, OwnersMay
      <4>2. CASE req[p].sess.id # Owner(e)
        <5>1. req[p].sess.id \notin {v \in Live : account[v].email = e}
            BY <3>3, <4>2, CoreTypes
        <5> QED BY <2>1, <2>2, <3>3, <5>1 DEF MayChange
      <4> QED BY <4>1, <4>2
    <3>5. \A v \in Live \ {Owner(e)} : v \in DOMAIN account' /\ account'[v] = account[v]
        BY <3>1 DEF Live
    <3> QED BY <3>2, <3>4, <3>5, OneAuthorized
  <2> QED BY <2>3, <2>4
<1>5. CASE Destroy(p)
  <2>1. At(p, "destroy") /\ ~At(p, "idle") BY <1>5 DEF Destroy, At
  <2>2. Works(p) BY <1>5, <2>1, AnsweredWorks DEF Destroy
  <2>3. MayChange(p, req[p].who)
    <3>1. req[p].kind \in {"cancel", "adminDelete"} BY <2>1, CourseOf DEF At
    <3>2. CASE req[p].kind = "cancel"
      <4>1. Entitled(req[p], drawnFor) BY <2>1, RequestFacts
      <4>2. req[p].who = req[p].sess.id BY <2>1, <3>2, <4>1 DEF Entitled, At
      <4>3. req[p].kind \in SettingsKinds BY <3>2 DEF SettingsKinds
      <4> QED BY <2>1, <4>2, <4>3, OwnersMay
    <3>3. CASE req[p].kind = "adminDelete"
      <4>1. req[p].kind \in AdminKinds BY <3>3 DEF AdminKinds
      <4> QED BY <2>1, <4>1, AdministratorsMay
    <3> QED BY <3>1, <3>2, <3>3
  <2> QED BY <1>5, <2>2, <2>3, DestroyedAuthorized DEF Destroy
<1> QED BY <1>1, <1>2, <1>3, <1>4, <1>5 DEF SettingsStep

LEMMA AdminAuthorized ==
    ASSUME Core, NEW p \in Requests, AdminStep(p) PROVE Authorized(p)
<1>1. CASE AdminEdit(p) \/ ApiUpdate(p) \/ AdminDelete(p) \/ ReadAdministrators(p)
  <2>1. account' = account
      BY <1>1 DEF AdminEdit, ApiUpdate, AdminDelete, ReadAdministrators, data
  <2> QED BY <2>1, UnchangedAuthorized
<1>2. CASE SaveCopy(p)
  <2>1. At(p, "save") /\ ~At(p, "idle") BY <1>2 DEF SaveCopy, At
  <2>2. req[p].kind \in {"adminEdit", "apiUpdate"} BY <2>1, CourseOf DEF At
  <2>3. Works(p)
    <3>1. Finish(p) \/ \E u, t : req' = OthersOutdated(p, u, t) BY <1>2 DEF SaveCopy
    <3> QED BY <2>1, <3>1, AnsweredWorks
  <2>4. MayChange(p, req[p].who)
    <3>1. CASE req[p].kind = "adminEdit"
      <4>1. req[p].kind \in AdminKinds BY <3>1 DEF AdminKinds
      <4> QED BY <2>1, <4>1, AdministratorsMay
    <3>2. CASE req[p].kind = "apiUpdate" BY <2>1, <3>2, TokensMay
    <3> QED BY <2>2, <3>1, <3>2
  <2>5. \A v \in Live \ {req[p].who} : v \in DOMAIN account' /\ account'[v] = account[v]
      BY <1>2 DEF SaveCopy, Live
  <2> QED BY <2>3, <2>4, <2>5, OneAuthorized
<1>3. CASE ApiDelete(p)
  <2>1. At(p, "apiDelete") /\ ~At(p, "idle") BY <1>3 DEF ApiDelete, At
  <2>2. req[p].kind = "apiDelete" BY <2>1, CourseOf DEF At, Kinds, ApiKinds
  <2>3. Works(p) /\ MayChange(p, req[p].who)
      BY <1>3, <2>1, <2>2, AnsweredWorks, TokensMay DEF ApiDelete
  <2> QED BY <1>3, <2>3, DestroyedAuthorized DEF ApiDelete
<1>4. CASE AdminPassword(p) \/ AdminEnable(p)
  <2>1. ~At(p, "idle") /\ req[p].pc \in {"adminPassword", "adminEnable"} /\ Finish(p)
      BY <1>4 DEF AdminPassword, AdminEnable, At
  <2>2. req[p].kind \in AdminKinds BY <2>1, CourseOf DEF Kinds, AdminKinds
  <2>3. Works(p) /\ MayChange(p, req[p].who) BY <2>1, <2>2, AnsweredWorks, AdministratorsMay
  <2>4. \A v \in Live \ {req[p].who} : v \in DOMAIN account' /\ account'[v] = account[v]
      BY <1>4 DEF AdminPassword, AdminEnable, SavePassword, Live
  <2> QED BY <2>3, <2>4, OneAuthorized
<1>5. CASE Promote(p) \/ Demote(p)
  <2>1. ~At(p, "idle") /\ req[p].pc \in {"promote", "demote"}
      BY <1>5 DEF Promote, Demote, At
  <2>2. req[p].kind \in AdminKinds BY <2>1, CourseOf DEF AdminKinds
  <2>3. Works(p)
    <3>1. CASE Promote(p)
      <4>1. req' = [req EXCEPT ![p] = [req[p] EXCEPT !.pc = "demote"]] /\ req[p].pc = "promote"
          BY <3>1 DEF Promote, Goto, At
      <4>2. req[p] \in Request BY RequestFacts
      <4>3. req'[p].pc = "demote" BY <4>1, <4>2, CoreTypes DEF Request
      <4> QED BY <2>1, <4>1, <4>3 DEF Works
    <3>2. CASE Demote(p) BY <2>1, <3>2, AnsweredWorks DEF Demote
    <3> QED BY <1>5, <3>1, <3>2
  <2>4. \A u : MayChange(p, u) BY <2>1, <2>2, AdministratorsMay
  <2> QED BY <2>3, <2>4 DEF Authorized
<1> QED BY <1>1, <1>2, <1>3, <1>4, <1>5 DEF AdminStep, AdminSave, ApiSave

ChangeIsAuthorized ==
    \A u \in Live : Changes(u) => \E p \in Requests : Works(p) /\ MayChange(p, u)
LEMMA StepAuthorized == AccountsInv /\ [Next]_vars => ChangeIsAuthorized
<1> SUFFICES ASSUME AccountsInv, [Next]_vars PROVE ChangeIsAuthorized OBVIOUS
<1>1. CASE Next
  <2>1. PICK p \in Requests : Arrival(p) \/ KeyStep(p) \/ VisitorStep(p)
                              \/ SettingsStep(p) \/ AdminStep(p)
      BY <1>1 DEF Next
  <2>2. Authorized(p)
      BY <2>1, VisitorAuthorized, SettingsAuthorized, AdminAuthorized DEF AccountsInv
  <2> QED BY <2>2 DEF Authorized, ChangeIsAuthorized
<1>2. CASE UNCHANGED vars BY <1>2 DEF vars, ChangeIsAuthorized, Changes, Live
<1> QED BY <1>1, <1>2

\* Nobody changes an account without a right to: its own session, one who has been
\* administrator, a key drawn for it or mailed to it, the token's owner, or the one change of
\* address that is overtaken (the handlers of controllers/web/{users,settings,admins}.js
\* and controllers/api/users.js).
THEOREM AccountChangesAreAuthorized == Spec => ChangesAreAuthorized
<1>1. AccountsInv /\ [Next]_vars => ChangeIsAuthorized BY StepAuthorized
<1>2. Spec => [][ChangeIsAuthorized]_vars BY <1>1, AccountsInvariant, PTL DEF Spec
<1>3. ChangeIsAuthorized <=>
        \A u \in Live : (u \notin DOMAIN account' \/ account'[u] # account[u]) =>
            \E p \in Requests :
                /\ Works(p)
                /\ \/ SessionMayChange(req[p].sess, u)
                   \/ HasKeyOf(p, u)
                   \/ At(p, "flush") /\ req[p].who = u
                   \/ /\ At(p, "setEmail") /\ account[u].email = req[p].email
                      /\ req[p].sess.id \notin {v \in Live : account[v].email = req[p].email}
    BY DEF ChangeIsAuthorized, Changes, MayChange
<1> QED BY <1>2, <1>3, PTL DEF ChangesAreAuthorized

(***************************************************************************)
(* The link last mailed works.                                             *)
(***************************************************************************)
\* Requests that have drawn a key and not mailed it yet.
Draws(q) == q.pc \in {"find", "write", "mailAgain"}

\* A key is drawn by one request, which mails it once.
KeysOnce(rs, ls, dr) ==
    /\ \A l \in ls : dr[l.key] # {}
    /\ \A p \in Requests : Draws(rs[p]) =>
           /\ dr[rs[p].key] # {}
           /\ \A l \in ls : l.key # rs[p].key
           /\ \A q \in Requests \ {p} : Draws(rs[q]) => rs[q].key # rs[p].key

\* An address with one profile at most and one request that draws for it at most; a request
\* that is to write for the address has found its row, and no other request writes there.
RowsFor(prof, e) == {r \in DOMAIN prof : prof[r].email = e}
OneDrawer(rs, e) ==
    \A p, q \in Requests :
        (Draws(rs[p]) /\ Draws(rs[q]) /\ rs[p].email = e /\ rs[q].email = e) => p = q
Settled(prof, rs, e) ==
    /\ OneDrawer(rs, e)
    /\ \A r, s \in RowsFor(prof, e) : r = s
    /\ \A p \in Requests : (rs[p].pc = "write" /\ rs[p].email = e) =>
          \/ rs[p].row = None /\ RowsFor(prof, e) = {}
          \/ rs[p].row # None /\ rs[p].row \in RowsFor(prof, e)
    /\ \A p \in Requests : (rs[p].pc = "write" /\ rs[p].row \in RowsFor(prof, e)) => rs[p].email = e

LinkWorks(prof, e, lt) ==
    \A kind \in KeyKinds : lt[kind] # None =>
        /\ RowsFor(prof, e) # {}
        /\ \A r \in RowsFor(prof, e) : prof[r].keys[kind] = lt[kind]

LinkInv ==
    /\ KeysOnce(req, letters, drawnFor)
    /\ latest \in [Accounts -> [KeyKinds -> Keys \union {None}]]
    /\ \A u \in Accounts \ Live : latest[u] = NoKeys
    /\ \A u \in Live \ torn : /\ Settled(profile, req, account[u].email)
                              /\ LinkWorks(profile, account[u].email, latest[u])

LEMMA LinkInvWorks == AccountsInv /\ LinkInv => LatestLinkWorks
<1> SUFFICES ASSUME AccountsInv, LinkInv, NEW u \in Live \ torn, NEW kind \in KeyKinds,
                    latest[u][kind] # None
             PROVE  /\ RowsOf(account[u].email) # {}
                    /\ \A r \in RowsOf(account[u].email) : profile[r].keys[kind] = latest[u][kind]
    BY DEF LatestLinkWorks
<1>1. LinkWorks(profile, account[u].email, latest[u]) BY DEF LinkInv
<1>2. RowsOf(account[u].email) = RowsFor(profile, account[u].email) BY DEF RowsOf, RowsFor
<1> QED BY <1>1, <1>2 DEF LinkWorks

LEMMA LinkInit == Init => LinkInv
<1> SUFFICES ASSUME Init PROVE LinkInv OBVIOUS
<1>1. req = [p \in Requests |-> NoRequest] /\ letters = {} /\ latest = [u \in Accounts |-> NoKeys]
      /\ torn = {u \in Live : \E r, t \in RowsOf(account[u].email) : r # t}
    BY DEF Init
<1>2. \A p \in Requests : req[p].pc = "idle" BY <1>1 DEF NoRequest
<1>3. KeysOnce(req, letters, drawnFor) BY <1>1, <1>2 DEF KeysOnce, Draws
<1>4. NoKeys \in [KeyKinds -> Keys \union {None}] /\ \A kind \in KeyKinds : NoKeys[kind] = None
    BY DEF NoKeys
<1>5. latest \in [Accounts -> [KeyKinds -> Keys \union {None}]] BY <1>1, <1>4
<1>6. Live \subseteq Accounts BY InitSound DEF AccountsInv, Core, RowsSound, AccountsSound, Live
<1>7. ASSUME NEW u \in Live \ torn
      PROVE  /\ Settled(profile, req, account[u].email)
             /\ LinkWorks(profile, account[u].email, latest[u])
  <2>1. \A r, s \in RowsFor(profile, account[u].email) : r = s
      BY <1>1, <1>7 DEF RowsFor, RowsOf
  <2>2. Settled(profile, req, account[u].email) BY <1>2, <2>1 DEF Settled, OneDrawer, Draws
  <2>3. LinkWorks(profile, account[u].email, latest[u]) BY <1>1, <1>4, <1>6 DEF LinkWorks
  <2> QED BY <2>2, <2>3
<1> QED BY <1>1, <1>3, <1>5, <1>7 DEF LinkInv

(***************************************************************************)
(* What the history remembers.                                             *)
(***************************************************************************)
Sent(u, kind) == {l \in letters' \ letters : l.kind = kind /\ l.to = account'[u].email}
Rowless(u) == \E p \in Requests : /\ At(p, "mailAgain") /\ req'[p].pc = "idle"
                                  /\ req[p].email = account'[u].email
                                  /\ RowsOf(req[p].email) = {}
Remembered ==
    /\ \A u \in Accounts : u \notin DOMAIN account' => latest'[u] = NoKeys
    /\ \A u \in Accounts \intersect DOMAIN account', kind \in KeyKinds :
           /\ Sent(u, kind) = {} => latest'[u][kind] = latest[u][kind]
           /\ \A l : Sent(u, kind) = {l} => latest'[u][kind] = l.key
    /\ \E lt : latest' = [u \in Accounts |-> [kind \in KeyKinds |-> lt[u][kind]]]
    /\ \A u \in DOMAIN account' : u \notin torn' =>
           /\ u \notin torn
           /\ (u \notin Live \/ account'[u].email # account[u].email) =>
                 DrawingFor(req, account'[u].email) = {}
           /\ (u \in Live /\ account'[u].email # account[u].email) =>
                 DrawingFor(req, account[u].email) = {}
           /\ \A p, q \in DrawingFor(req', account'[u].email) : p = q
           /\ ~Rowless(u)

LEMMA HistoryRemembers == History => Remembered
<1> SUFFICES ASSUME History PROVE Remembered OBVIOUS
<1> DEFINE live == DOMAIN account'
           mark(u, kind) == IF u \notin live THEN None
                            ELSE IF Sent(u, kind) # {} THEN (CHOOSE l \in Sent(u, kind) : TRUE).key
                            ELSE latest[u][kind]
           addresses(u) == {account'[u].email} \union {account[v].email : v \in Live \intersect {u}}
           moved(u) == /\ u \notin Live \/ account'[u].email # account[u].email
                       /\ \E e \in addresses(u) : DrawingFor(req, e) # {}
           twice(u) == \E p, q \in DrawingFor(req', account'[u].email) : p # q
<1>1. latest' = [u \in Accounts |-> [kind \in KeyKinds |-> mark(u, kind)]]
    BY DEF History, Sent
<1>2. torn' = {u \in live : u \in torn \/ Rowless(u) \/ moved(u) \/ twice(u)}
    BY DEF History, Rowless
<1>3. \A u \in Accounts : u \notin live => latest'[u] = NoKeys BY <1>1 DEF NoKeys
<1>4. ASSUME NEW u \in Accounts \intersect live, NEW kind \in KeyKinds
      PROVE  /\ Sent(u, kind) = {} => latest'[u][kind] = latest[u][kind]
             /\ \A l : Sent(u, kind) = {l} => latest'[u][kind] = l.key
  <2>1. latest'[u][kind] = mark(u, kind) BY <1>1
  <2> HIDE DEF mark
  <2>2. Sent(u, kind) = {} => mark(u, kind) = latest[u][kind] BY DEF mark
  <2>3. ASSUME NEW l, Sent(u, kind) = {l} PROVE mark(u, kind) = l.key
    <3>1. (CHOOSE m \in Sent(u, kind) : TRUE) = l BY <2>3
    <3> QED BY <2>3, <3>1 DEF mark
  <2> QED BY <2>1, <2>2, <2>3
<1>5. \E lt : latest' = [u \in Accounts |-> [kind \in KeyKinds |-> lt[u][kind]]]
  <2> DEFINE lt == [u \in Accounts |-> [kind \in KeyKinds |-> mark(u, kind)]]
  <2>1. latest' = lt BY <1>1
  <2> HIDE DEF mark
  <2>2. lt = [u \in Accounts |-> [kind \in KeyKinds |-> lt[u][kind]]] OBVIOUS
  <2> QED BY <2>1, <2>2
<1>6. ASSUME NEW u \in live, u \notin torn'
      PROVE  /\ u \notin torn
             /\ (u \notin Live \/ account'[u].email # account[u].email) =>
                   DrawingFor(req, account'[u].email) = {}
             /\ (u \in Live /\ account'[u].email # account[u].email) =>
                   DrawingFor(req, account[u].email) = {}
             /\ \A p, q \in DrawingFor(req', account'[u].email) : p = q
             /\ ~Rowless(u)
  <2>1. u \notin torn /\ ~Rowless(u) /\ ~moved(u) /\ ~twice(u) BY <1>2, <1>6
  <2>2. account'[u].email \in addresses(u) OBVIOUS
  <2>3. u \in Live => account[u].email \in addresses(u) OBVIOUS
  <2> HIDE DEF addresses
  <2> QED BY <2>1, <2>2, <2>3
<1> QED BY <1>3, <1>4, <1>5, <1>6 DEF Remembered

\* No request comes to write, or is at it for another address or row than before.
NoNewWriter(rs, rs2) ==
    \A p \in Requests : rs2[p].pc = "write" =>
        rs[p].pc = "write" /\ rs2[p].email = rs[p].email /\ rs2[p].row = rs[p].row
\* Requests that draw are those that drew.
Resting(rs, rs2) ==
    \A p \in Requests : Draws(rs2[p]) =>
        /\ rs2[p].pc = rs[p].pc /\ rs2[p].email = rs[p].email
        /\ rs2[p].row = rs[p].row /\ rs2[p].key = rs[p].key
LEMMA RestingWriters ==
    ASSUME NEW rs, NEW rs2, Resting(rs, rs2) PROVE NoNewWriter(rs, rs2)
BY DEF Resting, NoNewWriter, Draws
LEMMA RestingKeys ==
    ASSUME NEW rs, NEW rs2, NEW ls, NEW dr, Resting(rs, rs2), KeysOnce(rs, ls, dr)
    PROVE  KeysOnce(rs2, ls, dr)
BY DEF Resting, KeysOnce, Draws

\* The rows of an account may move with it, as long as nobody draws for it then.
LEMMA RowsCarry ==
    ASSUME NEW prof, NEW prof2, NEW rs, NEW rs2, NEW e, NEW e2, NEW lt,
           Settled(prof, rs, e), LinkWorks(prof, e, lt),
           RowsFor(prof2, e2) = RowsFor(prof, e),
           \A r \in RowsFor(prof, e) : prof2[r].keys = prof[r].keys,
           NoNewWriter(rs, rs2), OneDrawer(rs2, e2),
           e2 # e => \A p \in Requests : Draws(rs[p]) => rs[p].email # e /\ rs[p].email # e2
    PROVE  Settled(prof2, rs2, e2) /\ LinkWorks(prof2, e2, lt)
<1>1. LinkWorks(prof2, e2, lt) BY DEF LinkWorks
<1>2. \A r, s \in RowsFor(prof2, e2) : r = s BY DEF Settled
<1>3. ASSUME NEW p \in Requests, rs2[p].pc = "write", rs2[p].email = e2
      PROVE  \/ rs2[p].row = None /\ RowsFor(prof2, e2) = {}
             \/ rs2[p].row # None /\ rs2[p].row \in RowsFor(prof2, e2)
  <2>1. rs[p].pc = "write" /\ rs[p].email = e2 /\ rs[p].row = rs2[p].row
      BY <1>3 DEF NoNewWriter
  <2>2. e2 = e BY <2>1 DEF Draws
  <2> QED BY <2>1, <2>2 DEF Settled
<1>4. ASSUME NEW p \in Requests, rs2[p].pc = "write", rs2[p].row \in RowsFor(prof2, e2)
      PROVE  rs2[p].email = e2
  <2>1. rs[p].pc = "write" /\ rs2[p].email = rs[p].email /\ rs[p].row = rs2[p].row
      BY <1>4 DEF NoNewWriter
  <2>2. rs[p].email = e BY <1>4, <2>1 DEF Settled
  <2>3. e2 = e BY <2>1, <2>2 DEF Draws
  <2> QED BY <2>1, <2>2, <2>3
<1> QED BY <1>1, <1>2, <1>3, <1>4 DEF Settled

\* An account that is made has no rows, and links that were never mailed.
LEMMA RowsBegin ==
    ASSUME NEW prof2, NEW rs, NEW rs2, NEW e2,
           RowsFor(prof2, e2) = {}, NoNewWriter(rs, rs2), OneDrawer(rs2, e2),
           \A p \in Requests : Draws(rs[p]) => rs[p].email # e2
    PROVE  Settled(prof2, rs2, e2) /\ LinkWorks(prof2, e2, NoKeys)
<1>1. LinkWorks(prof2, e2, NoKeys) BY DEF LinkWorks, NoKeys
<1>2. \A p \in Requests : ~(rs2[p].pc = "write" /\ rs2[p].email = e2)
    BY DEF NoNewWriter, Draws
<1> QED BY <1>1, <1>2 DEF Settled

\* Marks of the accounts, when no letter is sent.
LEMMA MarksTyped ==
    ASSUME Remembered, Core', letters \subseteq letters', LinkInv,
           \A l \in letters' \ letters : letters' \ letters = {l}
    PROVE  latest' \in [Accounts -> [KeyKinds -> Keys \union {None}]]
<1>1. PICK lt : latest' = [u \in Accounts |-> [kind \in KeyKinds |-> lt[u][kind]]]
    BY DEF Remembered
<1>2. ASSUME NEW u \in Accounts, NEW kind \in KeyKinds
      PROVE  latest'[u][kind] \in Keys \union {None}
  <2>1. CASE u \notin DOMAIN account'
    <3>1. latest'[u] = NoKeys BY <2>1 DEF Remembered
    <3> QED BY <3>1 DEF NoKeys
  <2>2. CASE u \in DOMAIN account' /\ Sent(u, kind) = {}
    <3>1. latest'[u][kind] = latest[u][kind] BY <2>2 DEF Remembered
    <3> QED BY <3>1 DEF LinkInv
  <2>3. CASE u \in DOMAIN account' /\ Sent(u, kind) # {}
    <3>1. PICK l : Sent(u, kind) = {l} BY <2>3 DEF Sent
    <3>2. latest'[u][kind] = l.key BY <2>3, <3>1 DEF Remembered
    <3>3. l \in Letter BY <3>1 DEF Sent, Core, LettersSound
    <3> QED BY <3>2, <3>3 DEF Letter
  <2> QED BY <2>1, <2>2, <2>3
<1>3. \A u \in Accounts : latest'[u] = [kind \in KeyKinds |-> lt[u][kind]] BY <1>1
<1>4. \A u \in Accounts, kind \in KeyKinds : latest'[u][kind] = lt[u][kind] BY <1>3
<1>5. \A u \in Accounts : latest'[u] \in [KeyKinds -> Keys \union {None}] BY <1>2, <1>3, <1>4
<1> QED BY <1>1, <1>5

LEMMA MarksStay ==
    ASSUME Remembered, LinkInv, letters' = letters, NEW u \in Accounts, u \in DOMAIN account',
           latest' \in [Accounts -> [KeyKinds -> Keys \union {None}]]
    PROVE  latest'[u] = latest[u]
<1>1. \A kind \in KeyKinds : Sent(u, kind) = {} BY DEF Sent
<1>2. \A kind \in KeyKinds : latest'[u][kind] = latest[u][kind] BY <1>1 DEF Remembered
<1>3. latest'[u] \in [KeyKinds -> Keys \union {None}] /\ latest[u] \in [KeyKinds -> Keys \union {None}]
    BY DEF LinkInv
<1> QED BY <1>2, <1>3

Kept(u) ==
    /\ u \in Live
    /\ RowsFor(profile', account'[u].email) = RowsFor(profile, account[u].email)
    /\ \A r \in RowsFor(profile, account[u].email) : profile'[r].keys = profile[r].keys
Made(u) == u \notin Live /\ RowsFor(profile', account'[u].email) = {}

\* A step that mails nothing, after which accounts have the rows they had, or none.
LEMMA LinksCarry ==
    ASSUME AccountsInv, LinkInv, Remembered, Core', letters' = letters,
           KeysOnce(req', letters, drawnFor'), NoNewWriter(req, req'),
           \A u \in DOMAIN account' : Kept(u) \/ Made(u)
    PROVE  LinkInv'
<1>1. latest' \in [Accounts -> [KeyKinds -> Keys \union {None}]] BY MarksTyped
<1>2. DOMAIN account' \subseteq Accounts BY DEF Core, RowsSound, AccountsSound
<1>3. Live' = DOMAIN account' BY DEF Live
<1>4. \A u \in Accounts : u \notin Live' => latest'[u] = NoKeys BY <1>3 DEF Remembered
<1>5. ASSUME NEW u \in Live', u \notin torn'
      PROVE  /\ Settled(profile', req', account'[u].email)
             /\ LinkWorks(profile', account'[u].email, latest'[u])
  <2>1. u \in Accounts /\ latest'[u] = latest[u] BY <1>1, <1>2, <1>3, <1>5, MarksStay
  <2>2. u \notin torn BY <1>3, <1>5 DEF Remembered
  <2>3. OneDrawer(req', account'[u].email)
      BY <1>3, <1>5 DEF Remembered, OneDrawer, DrawingFor, Draws
  <2>4. CASE Kept(u)
    <3>1. /\ u \in Live
          /\ RowsFor(profile', account'[u].email) = RowsFor(profile, account[u].email)
          /\ \A r \in RowsFor(profile, account[u].email) : profile'[r].keys = profile[r].keys
        BY <2>4 DEF Kept
    <3>2. Settled(profile, req, account[u].email) /\ LinkWorks(profile, account[u].email, latest[u])
        BY <2>2, <3>1 DEF LinkInv
    <3>3. account'[u].email # account[u].email =>
             \A p \in Requests : Draws(req[p]) =>
                 req[p].email # account[u].email /\ req[p].email # account'[u].email
        BY <1>3, <1>5, <3>1 DEF Remembered, DrawingFor, Draws
    <3> QED BY <2>1, <2>3, <3>1, <3>2, <3>3, RowsCarry
  <2>5. CASE Made(u)
    <3>1. u \notin Live /\ RowsFor(profile', account'[u].email) = {} BY <2>5 DEF Made
    <3>2. latest[u] = NoKeys BY <2>1, <3>1 DEF LinkInv
    <3>3. \A p \in Requests : Draws(req[p]) => req[p].email # account'[u].email
        BY <1>3, <1>5, <3>1 DEF Remembered, DrawingFor, Draws
    <3> QED BY <2>1, <2>3, <3>1, <3>2, <3>3, RowsBegin
  <2> QED BY <1>3, <1>5, <2>4, <2>5
<1>6. KeysOnce(req', letters', drawnFor') OBVIOUS
<1> QED BY <1>1, <1>4, <1>5, <1>6 DEF LinkInv

\* A request that is answered, or goes on to a step other than drawing, draws no key.
LEMMA RestGoto ==
    ASSUME Core, NEW p \in Requests, NEW n, req' = [req EXCEPT ![p] = n], ~Draws(n)
    PROVE  Resting(req, req')
BY CoreTypes DEF Resting
LEMMA RestEnd ==
    ASSUME Core, NEW p \in Requests, Finish(p) \/ RespondSame(p) \/ \E s : Respond(p, s)
    PROVE  Resting(req, req')
<1>1. req' = [req EXCEPT ![p] = NoRequest] BY DEF Finish, Goto, RespondSame, Respond
<1>2. ~Draws(NoRequest) BY DEF Draws, NoRequest
<1> QED BY <1>1, <1>2, RestGoto
LEMMA RestDie == Die => Resting(req, req')
BY DEF Die, Resting, Draws, NoRequest
LEMMA RestOthers ==
    ASSUME Core, NEW p \in Requests, NEW u, NEW t, req' = OthersOutdated(p, u, t)
    PROVE  Resting(req, req')
<1> SUFFICES ASSUME NEW q \in Requests, Draws(req'[q])
             PROVE  /\ req'[q].pc = req[q].pc /\ req'[q].email = req[q].email
                    /\ req'[q].row = req[q].row /\ req'[q].key = req[q].key
    BY DEF Resting
<1>1. q # p BY DEF OthersOutdated, Draws, NoRequest
<1>2. req'[q] = [req[q] EXCEPT !.sess = Outdated(@, u, t)] BY <1>1 DEF OthersOutdated
<1>3. req[q] \in Request BY CoreTypes
<1> QED BY <1>2, <1>3 DEF Request

\* The steps of a request that lead to no drawing.
LEMMA RestStep ==
    ASSUME Core, NEW p \in Requests, NEW n, req' = [req EXCEPT ![p] = n],
           n.pc \in Steps \ {"find", "write", "mailAgain"}
    PROVE  Resting(req, req')
<1>1. ~Draws(n) BY DEF Draws
<1> QED BY <1>1, RestGoto

SameAddresses ==
    /\ profile' = profile /\ DOMAIN account' = Live
    /\ \A u \in Live : account'[u].email = account[u].email

LEMMA QuietLinks ==
    ASSUME AccountsInv, LinkInv, Remembered, Core', letters' = letters, drawnFor' = drawnFor,
           Resting(req, req'), \A u \in DOMAIN account' : Kept(u) \/ Made(u)
    PROVE  LinkInv'
<1>1. KeysOnce(req', letters, drawnFor') BY RestingKeys DEF LinkInv
<1>2. NoNewWriter(req, req') BY RestingWriters
<1> QED BY <1>1, <1>2, LinksCarry

LEMMA CalmLinks ==
    ASSUME AccountsInv, LinkInv, Remembered, Core', letters' = letters, drawnFor' = drawnFor,
           Resting(req, req'), SameAddresses
    PROVE  LinkInv'
<1>1. \A u \in DOMAIN account' : Kept(u) BY DEF SameAddresses, Kept
<1> QED BY <1>1, QuietLinks

LEMMA DataLinks ==
    ASSUME AccountsInv, LinkInv, Remembered, Core', UNCHANGED data, Resting(req, req')
    PROVE  LinkInv'
<1>1. letters' = letters /\ drawnFor' = drawnFor /\ account' = account /\ profile' = profile
    BY DEF data
<1>2. SameAddresses BY <1>1 DEF SameAddresses, Live
<1> QED BY <1>1, <1>2, CalmLinks

LEMMA ArrivalRests ==
    ASSUME Core, NEW p \in Requests, Arrival(p) PROVE UNCHANGED data /\ Resting(req, req')
<1>1. UNCHANGED data
    BY DEF Arrival, VisitorRequest, SettingsRequest, AdminRequest, ApiRequest
<1>2. ASSUME NEW kind \in Kinds, NEW q, "pc" \in DOMAIN q, Start(p, kind, q)
      PROVE  Resting(req, req')
  <2>1. req' = [req EXCEPT ![p] = [q EXCEPT !.pc = kind, !.kind = kind]]
      BY <1>2 DEF Start, Goto
  <2>2. PICK n : n = [q EXCEPT !.pc = kind, !.kind = kind] OBVIOUS
  <2>3. n.pc = kind BY <1>2, <2>2
  <2>4. kind \in Steps \ {"find", "write", "mailAgain"}
      BY DEF Steps, Kinds, VisitorKinds, SettingsKinds, AdminKinds, ApiKinds
  <2> QED BY <2>1, <2>2, <2>3, <2>4, RestStep
<1>3. \E kind \in Kinds : \E q : "pc" \in DOMAIN q /\ Start(p, kind, q)
  <2>1. "pc" \in DOMAIN NoRequest BY DEF NoRequest
  <2>2. \A b, l : "pc" \in DOMAIN Following(b, l) BY <2>1 DEF Following
  <2> QED BY <2>1, <2>2
         DEF Arrival, VisitorRequest, SettingsRequest, AdminRequest, ApiRequest,
             Kinds, VisitorKinds, SettingsKinds, AdminKinds, ApiKinds
<1> QED BY <1>1, <1>2, <1>3

\* Steps that change no row.
LEMMA QuietStepRests ==
    ASSUME Core, NEW p \in Requests,
           \/ ValidateNew(p) \/ Login(p) \/ SubmitToken(p) \/ TfaVerify(p) \/ ExternalLogin(p)
           \/ ValidateLocal(p) \/ Activate(p) \/ ChangePassword(p) \/ DisableTfaByKey(p)
           \/ Visit(p) \/ Logout(p) \/ NoExtra(p) \/ CheckPassword(p) \/ ChangeEmail(p)
           \/ EmailVerify(p) \/ CancelAccount(p) \/ AdminEdit(p) \/ ApiUpdate(p)
           \/ AdminDelete(p) \/ ReadAdministrators(p)
    PROVE  UNCHANGED data /\ Resting(req, req')
<1>1. UNCHANGED data
    BY DEF ValidateNew, Login, SubmitToken, TfaVerify, ExternalLogin, ValidateLocal, Activate,
       ChangePassword, DisableTfaByKey, Visit, Logout, NoExtra, CheckPassword, ChangeEmail,
       EmailVerify, CancelAccount, AdminEdit, ApiUpdate, AdminDelete, ReadAdministrators
<1> SUFFICES Resting(req, req') BY <1>1
<1>2. req[p] \in Request BY RequestFacts
<1>3. PICK q : q = req[p] OBVIOUS
<1>4. q \in Request BY <1>2, <1>3
<1>5. {"insert", "tokenPage", "tfaVerify", "flush", "local", "saveLocal", "enable", "setPassword",
       "setOwnPassword", "emailCheck", "setEmail", "destroy", "save", "promote", "idle"}
        \subseteq Steps \ {"find", "write", "mailAgain"}
    BY DEF Steps
<1>6. ASSUME NEW n, req' = [req EXCEPT ![p] = n],
             n.pc \in {"insert", "tokenPage", "tfaVerify", "flush", "local", "saveLocal", "enable",
                       "setPassword", "setOwnPassword", "emailCheck", "setEmail", "destroy",
                       "save", "promote", "idle"}
      PROVE  Resting(req, req')
    BY <1>5, <1>6, RestStep
<1>7. CASE Finish(p) \/ RespondSame(p) \/ \E s : Respond(p, s) BY <1>7, RestEnd
<1>8. CASE Die BY <1>8, RestDie
<1>9. CASE ValidateNew(p)
  <2>1. CASE Goto(p, [q EXCEPT !.pc = "insert"])
    <3>1. PICK n : n = [q EXCEPT !.pc = "insert"] OBVIOUS
    <3>2. n.pc = "insert" BY <1>4, <3>1 DEF Request
    <3> QED BY <1>6, <2>1, <3>1, <3>2 DEF Goto
  <2> QED BY <1>3, <1>7, <1>9, <2>1 DEF ValidateNew
<1>10. CASE Login(p)
  <2>1. ASSUME NEW u, Goto(p, [q EXCEPT !.pc = "tokenPage", !.who = u]) PROVE Resting(req, req')
    <3>1. PICK n : n = [q EXCEPT !.pc = "tokenPage", !.who = u] OBVIOUS
    <3>2. n.pc = "tokenPage" BY <1>4, <3>1 DEF Request
    <3> QED BY <1>6, <2>1, <3>1, <3>2 DEF Goto
  <2> QED BY <1>3, <1>7, <1>10, <2>1 DEF Login
<1>11. CASE SubmitToken(p)
  <2>1. ASSUME NEW f, NEW s, NEW t,
               Goto(p, [q EXCEPT !.pc = "tfaVerify", !.flag = f, !.sess = s, !.tfa = t])
        PROVE  Resting(req, req')
    <3>1. PICK n : n = [q EXCEPT !.pc = "tfaVerify", !.flag = f, !.sess = s, !.tfa = t] OBVIOUS
    <3>2. n.pc = "tfaVerify" BY <1>4, <3>1 DEF Request
    <3> QED BY <1>6, <2>1, <3>1, <3>2 DEF Goto
  <2> QED BY <1>3, <1>7, <1>11, <2>1 DEF SubmitToken
<1>12. CASE TfaVerify(p)
  <2>1. ASSUME NEW t, req' = [req EXCEPT ![p] = [q EXCEPT !.pc = "flush", !.tfa = t, !.sess = None]]
        PROVE  Resting(req, req')
    <3>1. PICK n : n = [q EXCEPT !.pc = "flush", !.tfa = t, !.sess = None] OBVIOUS
    <3>2. n.pc = "flush" BY <1>4, <3>1 DEF Request
    <3> QED BY <1>6, <2>1, <3>1, <3>2
  <2>2. CASE req' = [req EXCEPT ![p] = NoRequest]
    <3>1. NoRequest.pc = "idle" BY DEF NoRequest
    <3> QED BY <1>6, <2>2, <3>1
  <2>3. \/ Die \/ Finish(p) \/ req' = [req EXCEPT ![p] = NoRequest]
        \/ \E t : req' = [req EXCEPT ![p] = [q EXCEPT !.pc = "flush", !.tfa = t, !.sess = None]]
    BY <1>3, <1>12 DEF TfaVerify
  <2> QED BY <1>7, <1>8, <2>1, <2>2, <2>3
<1>13. CASE ExternalLogin(p) \/ ValidateLocal(p)
  <2>1. ASSUME NEW pc \in {"local", "saveLocal"}, Goto(p, [q EXCEPT !.pc = pc])
        PROVE  Resting(req, req')
    <3>1. PICK n : n = [q EXCEPT !.pc = pc] OBVIOUS
    <3>2. n.pc = pc BY <1>4, <3>1 DEF Request
    <3> QED BY <1>6, <2>1, <3>1, <3>2 DEF Goto
  <2> QED BY <1>3, <1>7, <1>13, <2>1 DEF ExternalLogin, ValidateLocal
<1>14. CASE Activate(p) \/ ChangePassword(p)
  <2>1. ASSUME NEW pc \in {"enable", "setPassword"}, NEW u, Goto(p, [q EXCEPT !.pc = pc, !.who = u])
        PROVE  Resting(req, req')
    <3>1. PICK n : n = [q EXCEPT !.pc = pc, !.who = u] OBVIOUS
    <3>2. n.pc = pc BY <1>4, <3>1 DEF Request
    <3> QED BY <1>6, <2>1, <3>1, <3>2 DEF Goto
  <2> QED BY <1>3, <1>7, <1>14, <2>1 DEF Activate, ChangePassword
<1>15. CASE DisableTfaByKey(p)
  <2>1. ASSUME NEW u, req' = [req EXCEPT ![p].pc = "flush", ![p].who = u, ![p].sess = None]
        PROVE  Resting(req, req')
    <3>1. PICK n : n = [q EXCEPT !.pc = "flush", !.who = u, !.sess = None] OBVIOUS
    <3>2. n.pc = "flush" BY <1>4, <3>1 DEF Request
    <3>3. req' = [req EXCEPT ![p] = n] BY <1>3, <2>1, <3>1, CoreTypes DEF Request
    <3> QED BY <1>6, <3>2, <3>3
  <2> QED BY <1>7, <1>15, <2>1 DEF DisableTfaByKey
<1>16. CASE Visit(p) \/ Logout(p) \/ NoExtra(p) BY <1>7, <1>16 DEF Visit, Logout, NoExtra
<1>17. CASE \/ CheckPassword(p) \/ ChangeEmail(p) \/ AdminEdit(p) \/ ApiUpdate(p)
            \/ AdminDelete(p)
  <2>1. ASSUME NEW pc \in {"setOwnPassword", "emailCheck", "save", "destroy"},
               Goto(p, [q EXCEPT !.pc = pc])
        PROVE  Resting(req, req')
    <3>1. PICK n : n = [q EXCEPT !.pc = pc] OBVIOUS
    <3>2. n.pc = pc BY <1>4, <3>1 DEF Request
    <3> QED BY <1>6, <2>1, <3>1, <3>2 DEF Goto
  <2> QED BY <1>3, <1>7, <1>8, <1>17, <2>1
          DEF CheckPassword, ChangeEmail, AdminEdit, ApiUpdate, AdminDelete
<1>18. CASE EmailVerify(p)
  <2>1. ASSUME NEW e, Goto(p, [q EXCEPT !.pc = "setEmail", !.email = e]) PROVE Resting(req, req')
    <3>1. PICK n : n = [q EXCEPT !.pc = "setEmail", !.email = e] OBVIOUS
    <3>2. n.pc = "setEmail" BY <1>4, <3>1 DEF Request
    <3> QED BY <1>6, <2>1, <3>1, <3>2 DEF Goto
  <2> QED BY <1>3, <1>7, <1>18, <2>1 DEF EmailVerify
<1>19. CASE CancelAccount(p)
  <2>1. ASSUME NEW u, Goto(p, [q EXCEPT !.pc = "destroy", !.who = u]) PROVE Resting(req, req')
    <3>1. PICK n : n = [q EXCEPT !.pc = "destroy", !.who = u] OBVIOUS
    <3>2. n.pc = "destroy" BY <1>4, <3>1 DEF Request
    <3> QED BY <1>6, <2>1, <3>1, <3>2 DEF Goto
  <2> QED BY <1>3, <1>8, <1>19, <2>1 DEF CancelAccount
<1>20. CASE ReadAdministrators(p)
  <2>1. ASSUME NEW f, NEW d, Goto(p, [q EXCEPT !.pc = "promote", !.form = f, !.drop = d])
        PROVE  Resting(req, req')
    <3>1. PICK n : n = [q EXCEPT !.pc = "promote", !.form = f, !.drop = d] OBVIOUS
    <3>2. n.pc = "promote" BY <1>4, <3>1 DEF Request
    <3> QED BY <1>6, <2>1, <3>1, <3>2 DEF Goto
  <2>2. \E f, d : Goto(p, [q EXCEPT !.pc = "promote", !.form = f, !.drop = d])
    <3>1. PICK found : found = {u \in Live : account[u].admin} OBVIOUS
    <3>2. Goto(p, [q EXCEPT !.pc = "promote", !.form = q.form \ found, !.drop = found \ q.form])
        BY <1>3, <1>4, <1>20, <3>1 DEF ReadAdministrators, Request
    <3> QED BY <3>2
  <2> QED BY <2>1, <2>2
<1> QED BY <1>9, <1>10, <1>11, <1>12, <1>13, <1>14, <1>15, <1>16, <1>17, <1>18, <1>19, <1>20

\* Steps that change accounts and leave them their addresses.
LEMMA ChangeStepLinks ==
    ASSUME AccountsInv, LinkInv, Remembered, Core', NEW p \in Requests,
           \/ FlushExtra(p) \/ SaveEnabled(p) \/ SetPassword(p) \/ UpdateInfo(p) \/ EnableTfa(p)
           \/ DisableTfa(p) \/ SetOwnPassword(p) \/ AdminPassword(p) \/ AdminEnable(p)
           \/ Promote(p) \/ Demote(p)
    PROVE  LinkInv'
<1>1. Core BY DEF AccountsInv
<1>2. letters' = letters /\ drawnFor' = drawnFor /\ profile' = profile
    BY DEF FlushExtra, SaveEnabled, SetPassword, UpdateInfo, EnableTfa, DisableTfa,
       SetOwnPassword, AdminPassword, AdminEnable, Promote, Demote, SavePassword, ChangeTfa
<1>3. SameAddresses
  <2>1. \A u \in Live : account[u] \in Account BY <1>1, CoreTypes
  <2>2. CASE FlushExtra(p) \/ UpdateInfo(p) \/ EnableTfa(p) \/ DisableTfa(p)
    <3>1. PICK u, t : SaveExtra(p, u, t)
        BY <2>2 DEF FlushExtra, UpdateInfo, EnableTfa, DisableTfa, ChangeTfa
    <3>2. CASE u \in Live
      <4>1. account' = [account EXCEPT ![u].tfa = t] BY <3>1, <3>2 DEF SaveExtra
      <4>2. DOMAIN account' = Live BY <4>1 DEF Live
      <4>3. ASSUME NEW v \in Live PROVE account'[v].email = account[v].email
        <5>1. CASE v = u
          <6>1. account'[v] = [account[v] EXCEPT !.tfa = t] BY <4>1, <5>1 DEF Live
          <6> QED BY <2>1, <6>1 DEF Account
        <5>2. CASE v # u BY <4>1, <5>2 DEF Live
        <5> QED BY <5>1, <5>2
      <4> QED BY <1>2, <4>2, <4>3 DEF SameAddresses
    <3>3. CASE u \notin Live BY <1>2, <3>1, <3>3 DEF SaveExtra, SameAddresses, Live
    <3> QED BY <3>2, <3>3
  <2>3. CASE SetPassword(p) \/ SetOwnPassword(p) \/ AdminPassword(p)
    <3>1. PICK u : SavePassword(p, u) BY <2>3 DEF SetPassword, SetOwnPassword, AdminPassword
    <3>2. CASE u \in Live
      <4>1. account' = [account EXCEPT ![u].pass = req[p].word] BY <3>1, <3>2 DEF SavePassword
      <4>2. DOMAIN account' = Live BY <4>1 DEF Live
      <4>3. ASSUME NEW v \in Live PROVE account'[v].email = account[v].email
        <5>1. CASE v = u
          <6>1. account'[v] = [account[v] EXCEPT !.pass = req[p].word] BY <4>1, <5>1 DEF Live
          <6> QED BY <2>1, <6>1 DEF Account
        <5>2. CASE v # u BY <4>1, <5>2 DEF Live
        <5> QED BY <5>1, <5>2
      <4> QED BY <1>2, <4>2, <4>3 DEF SameAddresses
    <3>3. CASE u \notin Live BY <1>2, <3>1, <3>3 DEF SavePassword, SameAddresses, Live
    <3> QED BY <3>2, <3>3
  <2>4. CASE SaveEnabled(p) \/ AdminEnable(p)
    <3>1. PICK enabled : account' = IF req[p].who \in Live
                                    THEN [account EXCEPT ![req[p].who].enabled = enabled] ELSE account
        BY <2>4 DEF SaveEnabled, AdminEnable
    <3>2. CASE req[p].who \in Live
      <4>1. account' = [account EXCEPT ![req[p].who].enabled = enabled] BY <3>1, <3>2
      <4>2. DOMAIN account' = Live BY <4>1 DEF Live
      <4>3. ASSUME NEW v \in Live PROVE account'[v].email = account[v].email
        <5>1. CASE v = req[p].who
          <6>1. account'[v] = [account[v] EXCEPT !.enabled = enabled] BY <4>1, <5>1 DEF Live
          <6> QED BY <2>1, <6>1 DEF Account
        <5>2. CASE v # req[p].who BY <4>1, <5>2 DEF Live
        <5> QED BY <5>1, <5>2
      <4> QED BY <1>2, <4>2, <4>3 DEF SameAddresses
    <3>3. CASE req[p].who \notin Live BY <1>2, <3>1, <3>3 DEF SameAddresses, Live
    <3> QED BY <3>2, <3>3
  <2>5. CASE Promote(p) \/ Demote(p)
    <3>1. PICK us, value : SetAdmin(us, value) BY <2>5 DEF Promote, Demote
    <3>2. DOMAIN account' = Live BY <3>1 DEF SetAdmin
    <3>3. ASSUME NEW v \in Live PROVE account'[v].email = account[v].email
      <4>1. account'[v] = account[v] \/ account'[v] = [account[v] EXCEPT !.admin = value]
          BY <3>1 DEF SetAdmin
      <4> QED BY <2>1, <4>1 DEF Account
    <3> QED BY <1>2, <3>2, <3>3 DEF SameAddresses
  <2> QED BY <2>2, <2>3, <2>4, <2>5
<1>4. Resting(req, req')
  <2>1. CASE FlushExtra(p) \/ UpdateInfo(p) \/ EnableTfa(p) \/ DisableTfa(p)
    <3>1. PICK u, t : req' = OthersOutdated(p, u, t)
        BY <2>1 DEF FlushExtra, UpdateInfo, EnableTfa, DisableTfa, ChangeTfa, AnswerExtra
    <3> QED BY <1>1, <3>1, RestOthers
  <2>2. CASE \/ SaveEnabled(p) \/ SetPassword(p) \/ SetOwnPassword(p) \/ AdminPassword(p)
             \/ AdminEnable(p) \/ Demote(p)
    <3>1. Finish(p) \/ RespondSame(p) \/ \E s : Respond(p, s)
        BY <2>2 DEF SaveEnabled, SetPassword, SetOwnPassword, AdminPassword, AdminEnable, Demote
    <3> QED BY <1>1, <3>1, RestEnd
  <2>3. CASE Promote(p)
    <3>1. PICK n : n = [req[p] EXCEPT !.pc = "demote"] OBVIOUS
    <3>2. req[p] \in Request BY <1>1, RequestFacts
    <3>3. n.pc = "demote" BY <3>1, <3>2 DEF Request
    <3>4. req' = [req EXCEPT ![p] = n] BY <2>3, <3>1 DEF Promote, Goto
    <3>5. n.pc \in Steps \ {"find", "write", "mailAgain"} BY <3>3 DEF Steps
    <3> QED BY <1>1, <3>4, <3>5, RestStep
  <2> QED BY <2>1, <2>2, <2>3
<1> QED BY <1>2, <1>3, <1>4, CalmLinks

\* Rows of profiles have addresses of accounts.
LEMMA ProfileAddresses ==
    ASSUME Core PROVE \A r \in DOMAIN profile : profile[r].email \in Addresses
BY DEF Core, RowsSound, ProfilesSound, Addresses, Live

LEMMA InsertLinks ==
    ASSUME Core, NEW u, u \notin Live, NEW a, Insert(u, a), a.email \notin Addresses, profile' = profile
    PROVE  \A v \in DOMAIN account' : Kept(v) \/ Made(v)
<1>1. account' = [v \in Live \union {u} |-> IF v = u THEN a ELSE account[v]] BY DEF Insert
<1>2. DOMAIN account' = Live \union {u} BY <1>1
<1>3. ASSUME NEW v \in Live PROVE Kept(v)
  <2>1. account'[v] = account[v] BY <1>1
  <2> QED BY <2>1 DEF Kept
<1>4. Made(u)
  <2>1. account'[u] = a BY <1>1
  <2>2. RowsFor(profile, a.email) = {} BY ProfileAddresses DEF RowsFor
  <2> QED BY <2>1, <2>2 DEF Made
<1> QED BY <1>2, <1>3, <1>4

LEMMA CreateStepLinks ==
    ASSUME AccountsInv, LinkInv, Remembered, Core', NEW p \in Requests,
           CreateByAdministrator(p) \/ CreateLocal(p)
    PROVE  LinkInv'
<1>1. Core /\ Live \subseteq born BY CoreTypes DEF AccountsInv
<1>2. letters' = letters /\ drawnFor' = drawnFor /\ profile' = profile
    BY DEF CreateByAdministrator, CreateLocal
<1>3. Resting(req, req')
  <2>1. Finish(p) \/ Die \/ \E s : Respond(p, s) BY DEF CreateByAdministrator, CreateLocal
  <2> QED BY <1>1, <2>1, RestEnd, RestDie
<1>4. CASE account' = account
  <2>1. SameAddresses BY <1>2, <1>4 DEF SameAddresses, Live
  <2> QED BY <1>2, <1>3, <2>1, CalmLinks
<1>5. CASE account' # account
  <2>1. PICK u, a : u \notin Live /\ Insert(u, a) /\ a.email = req[p].email /\ req[p].email \notin Addresses
    <3>1. CASE CreateByAdministrator(p)
      <4>1. req[p].email \notin Addresses BY <1>5, <3>1 DEF CreateByAdministrator
      <4>2. PICK u \in Accounts \ (born \union External) : Insert(u, NewAccount(req[p], req[p].flag))
          BY <3>1, <4>1 DEF CreateByAdministrator
      <4>3. NewAccount(req[p], req[p].flag).email = req[p].email BY DEF NewAccount
      <4> QED BY <1>1, <4>1, <4>2, <4>3
    <3>2. CASE CreateLocal(p)
      <4>1. req[p].email \notin Addresses /\ req[p].who \notin Live BY <1>5, <3>2 DEF CreateLocal
      <4>2. PICK w \in Passwords :
                Insert(req[p].who, NewAccount([req[p] EXCEPT !.word = w], TRUE))
          BY <3>2, <4>1 DEF CreateLocal
      <4>3. req[p] \in Request BY <1>1, RequestFacts
      <4>4. [req[p] EXCEPT !.word = w].email = req[p].email BY <4>3 DEF Request
      <4>5. NewAccount([req[p] EXCEPT !.word = w], TRUE).email = req[p].email
          BY <4>4 DEF NewAccount
      <4> QED BY <4>1, <4>2, <4>5
    <3> QED BY <3>1, <3>2
  <2>2. \A v \in DOMAIN account' : Kept(v) \/ Made(v) BY <1>1, <1>2, <2>1, InsertLinks
  <2> QED BY <1>2, <1>3, <2>2, QuietLinks
<1> QED BY <1>4, <1>5

LEMMA DestroyStepLinks ==
    ASSUME AccountsInv, LinkInv, Remembered, Core', NEW p \in Requests, Destroy(p) \/ ApiDelete(p)
    PROVE  LinkInv'
<1>1. Core BY DEF AccountsInv
<1>2. letters' = letters /\ drawnFor' = drawnFor BY DEF Destroy, ApiDelete
<1>3. Resting(req, req')
  <2>1. Finish(p) \/ \E s : Respond(p, s) BY DEF Destroy, ApiDelete
  <2> QED BY <1>1, <2>1, RestEnd
<1>4. CASE UNCHANGED <<account, profile>>
  <2>1. SameAddresses BY <1>4 DEF SameAddresses, Live
  <2> QED BY <1>2, <1>3, <2>1, CalmLinks
<1>5. CASE Destroyed(req[p].who)
  <2>1. PICK u : u = req[p].who OBVIOUS
  <2>2. /\ account' = [v \in Live \ {u} |-> account[v]]
        /\ profile' = [r \in {s \in DOMAIN profile : profile[s].email \in
                             {account[v].email : v \in Live \ {u}}} |-> profile[r]]
      BY <1>5, <2>1 DEF Destroyed
  <2>3. ASSUME NEW v \in DOMAIN account' PROVE Kept(v)
    <3>1. v \in Live \ {u} /\ account'[v] = account[v] BY <2>2
    <3>2. \A r \in DOMAIN profile : profile[r].email = account[v].email => r \in DOMAIN profile'
        BY <2>2, <3>1
    <3>3. \A r \in DOMAIN profile' : r \in DOMAIN profile /\ profile'[r] = profile[r] BY <2>2
    <3> QED BY <3>1, <3>2, <3>3 DEF Kept, RowsFor
  <2> QED BY <1>2, <1>3, <2>3, QuietLinks
<1> QED BY <1>4, <1>5 DEF Destroy, ApiDelete

\* An account that moves takes its rows along; nobody had the address it moves to.
LEMMA MoveLinks ==
    ASSUME Core, NEW u \in Live, NEW e, DOMAIN account' = Live,
           account'[u].email = e, e \notin Addresses \ {account[u].email},
           \A v \in Live \ {u} : account'[v] = account[v],
           profile' = [r \in DOMAIN profile |-> IF profile[r].email = account[u].email
                                                THEN [profile[r] EXCEPT !.email = e] ELSE profile[r]]
    PROVE  \A v \in DOMAIN account' : Kept(v)
<1>1. DOMAIN profile' = DOMAIN profile OBVIOUS
<1>2. ASSUME NEW r \in DOMAIN profile
      PROVE  /\ profile'[r].keys = profile[r].keys
             /\ profile'[r].email = IF profile[r].email = account[u].email THEN e ELSE profile[r].email
  <2>1. profile[r] \in Profile BY CoreTypes
  <2>2. profile'[r] = IF profile[r].email = account[u].email
                      THEN [profile[r] EXCEPT !.email = e] ELSE profile[r]
      OBVIOUS
  <2> QED BY <2>1, <2>2 DEF Profile
<1>3. \A r \in DOMAIN profile : profile[r].email \in Addresses BY ProfileAddresses
<1>4. ASSUME NEW v \in Live, v # u PROVE Kept(v)
  <2>1. account[v].email # account[u].email /\ account[v].email # e
    <3>1. account[v].email # account[u].email BY <1>4, CoreTypes
    <3> QED BY <3>1 DEF Addresses
  <2>2. RowsFor(profile', account[v].email) = RowsFor(profile, account[v].email)
      BY <1>1, <1>2, <2>1 DEF RowsFor
  <2>3. \A r \in RowsFor(profile, account[v].email) : profile'[r].keys = profile[r].keys
      BY <1>2 DEF RowsFor
  <2> QED BY <1>4, <2>2, <2>3 DEF Kept
<1>5. Kept(u)
  <2>1. RowsFor(profile', e) = RowsFor(profile, account[u].email)
      BY <1>1, <1>2, <1>3 DEF RowsFor
  <2>2. \A r \in RowsFor(profile, account[u].email) : profile'[r].keys = profile[r].keys
      BY <1>2 DEF RowsFor
  <2> QED BY <2>1, <2>2 DEF Kept
<1> QED BY <1>4, <1>5

LEMMA SetEmailLinks ==
    ASSUME AccountsInv, LinkInv, Remembered, Core', NEW p \in Requests, SetEmail(p)
    PROVE  LinkInv'
<1>1. Core BY DEF AccountsInv
<1>2. letters' = letters /\ drawnFor' = drawnFor BY DEF SetEmail
<1>3. Resting(req, req')
  <2>1. Finish(p) \/ \E s : Respond(p, s) BY DEF SetEmail
  <2> QED BY <1>1, <2>1, RestEnd
<1>4. CASE UNCHANGED <<account, profile>>
  <2>1. SameAddresses BY <1>4 DEF SameAddresses, Live
  <2> QED BY <1>2, <1>3, <2>1, CalmLinks
<1>5. CASE ~UNCHANGED <<account, profile>>
  <2>1. PICK e, new : e = req[p].email /\ new = req[p].new OBVIOUS
  <2>2. e \in Addresses /\ new \notin Addresses \ {e} /\ Rename(Owner(e), new)
      BY <1>5, <2>1 DEF SetEmail
  <2>3. PICK u : u = Owner(e) OBVIOUS
  <2>4. u \in Live /\ account[u].email = e BY <2>2, <2>3, OwnerOf
  <2>5. account' = [account EXCEPT ![u].email = new] BY <2>2, <2>3 DEF Rename
  <2>6. account[u] \in Account BY <1>1, <2>4, CoreTypes
  <2>7. DOMAIN account' = Live /\ account'[u] = [account[u] EXCEPT !.email = new]
        /\ \A v \in Live \ {u} : account'[v] = account[v]
      BY <2>4, <2>5 DEF Live
  <2>8. account'[u].email = new BY <2>6, <2>7 DEF Account
  <2>9. profile' = [r \in DOMAIN profile |-> IF profile[r].email = account[u].email
                                             THEN [profile[r] EXCEPT !.email = new] ELSE profile[r]]
      BY <2>2, <2>3 DEF Rename
  <2>10. \A v \in DOMAIN account' : Kept(v)
      BY <1>1, <2>2, <2>4, <2>7, <2>8, <2>9, MoveLinks
  <2> QED BY <1>2, <1>3, <2>10, QuietLinks
<1> QED BY <1>4, <1>5

LEMMA SaveCopyLinks ==
    ASSUME AccountsInv, LinkInv, Remembered, Core', NEW p \in Requests, SaveCopy(p)
    PROVE  LinkInv'
<1>1. Core BY DEF AccountsInv
<1>2. letters' = letters /\ drawnFor' = drawnFor BY DEF SaveCopy
<1>3. Resting(req, req')
  <2>1. Finish(p) \/ \E u, t : req' = OthersOutdated(p, u, t) BY DEF SaveCopy
  <2> QED BY <1>1, <2>1, RestEnd, RestOthers
<1>4. CASE UNCHANGED <<account, profile>>
  <2>1. SameAddresses BY <1>4 DEF SameAddresses, Live
  <2> QED BY <1>2, <1>3, <2>1, CalmLinks
<1>5. CASE ~UNCHANGED <<account, profile>>
  <2>1. PICK u, a : u = req[p].who /\ a = Saved(account[u], req[p]) OBVIOUS
  <2>2. PICK e : e = a.email OBVIOUS
  <2>3. /\ u \in Live /\ e \notin Addresses \ {account[u].email}
        /\ account' = [account EXCEPT ![u] = a]
      BY <1>5, <2>1, <2>2 DEF SaveCopy
  <2>4. profile' = [r \in DOMAIN profile |->
               IF r \in RowsOf(account[u].email)
               THEN [profile[r] EXCEPT !.email = e] ELSE profile[r]]
      BY <1>5, <2>1, <2>2 DEF SaveCopy
  <2>5. DOMAIN account' = Live /\ account'[u].email = e
        /\ \A v \in Live \ {u} : account'[v] = account[v]
      BY <2>2, <2>3 DEF Live
  <2>6. profile' = [r \in DOMAIN profile |-> IF profile[r].email = account[u].email
                                             THEN [profile[r] EXCEPT !.email = e] ELSE profile[r]]
      BY <2>4 DEF RowsOf
  <2>7. \A v \in DOMAIN account' : Kept(v) BY <1>1, <2>3, <2>5, <2>6, MoveLinks
  <2> QED BY <1>2, <1>3, <2>7, QuietLinks
<1> QED BY <1>4, <1>5

\* A request draws a key that nobody has drawn.
LEMMA DrawKeys ==
    ASSUME Core, LinkInv, NEW p \in Requests, NEW pc \in {"find", "mailAgain"}, NEW u, NEW e,
           Drawing(p, pc, u, e)
    PROVE  KeysOnce(req', letters, drawnFor') /\ NoNewWriter(req, req')
<1>1. PICK k \in Undrawn : /\ drawnFor' = [drawnFor EXCEPT ![k] = {u}]
                           /\ Goto(p, [req[p] EXCEPT !.pc = pc, !.who = u, !.key = k, !.email = e])
    BY DEF Drawing
<1>2. k \in Keys /\ drawnFor[k] = {} BY <1>1 DEF Undrawn
<1>3. PICK n : n = [req[p] EXCEPT !.pc = pc, !.who = u, !.key = k, !.email = e] OBVIOUS
<1>4. req[p] \in Request BY RequestFacts
<1>5. n.pc = pc /\ n.key = k BY <1>3, <1>4 DEF Request
<1>6. req' = [req EXCEPT ![p] = n] BY <1>1, <1>3 DEF Goto
<1>7. req'[p] = n /\ \A q \in Requests \ {p} : req'[q] = req[q] BY <1>6, CoreTypes
<1>8. NoNewWriter(req, req') BY <1>5, <1>7 DEF NoNewWriter
<1>9. drawnFor \in [Keys -> SUBSET Accounts] BY DEF Core
<1>10. drawnFor'[k] # {} /\ \A x : x # k => drawnFor'[x] = drawnFor[x]
  <2>1. drawnFor'[k] = {u} BY <1>1, <1>2, <1>9
  <2> QED BY <1>1, <1>9, <2>1
<1>11. KeysOnce(req, letters, drawnFor) BY DEF LinkInv
<1>12. \A l \in letters : l.key # k /\ drawnFor'[l.key] # {}
    BY <1>2, <1>10, <1>11 DEF KeysOnce
<1>13. \A q \in Requests \ {p} : Draws(req[q]) => req[q].key # k /\ drawnFor'[req[q].key] # {}
    BY <1>2, <1>10, <1>11 DEF KeysOnce
<1>14. KeysOnce(req', letters, drawnFor')
    BY <1>5, <1>7, <1>10, <1>11, <1>12, <1>13 DEF KeysOnce
<1> QED BY <1>8, <1>14

LEMMA DrawStepLinks ==
    ASSUME AccountsInv, LinkInv, Remembered, Core', NEW p \in Requests,
           \/ SignUp(p) \/ PasswordSendEmail(p) \/ AvoidTfaEmail(p) \/ ResendConfirmation(p)
           \/ ChangeEmailCheck(p)
    PROVE  LinkInv'
<1>1. Core /\ Live \subseteq born BY CoreTypes DEF AccountsInv
<1>2. letters' = letters /\ profile' = profile
    BY DEF SignUp, PasswordSendEmail, AvoidTfaEmail, ResendConfirmation, ChangeEmailCheck
<1>3. \A v \in DOMAIN account' : Kept(v) \/ Made(v)
  <2>1. CASE account' = account BY <1>2, <2>1 DEF Kept, Live
  <2>2. CASE account' # account
    <3>1. SignUp(p) /\ req[p].email \notin Addresses
        BY <2>2 DEF SignUp, PasswordSendEmail, AvoidTfaEmail, ResendConfirmation, ChangeEmailCheck
    <3>2. PICK u \in Accounts \ (born \union External) : Insert(u, NewAccount(req[p], FALSE))
        BY <3>1 DEF SignUp
    <3>3. NewAccount(req[p], FALSE).email = req[p].email BY DEF NewAccount
    <3> QED BY <1>1, <1>2, <3>1, <3>2, <3>3, InsertLinks
  <2> QED BY <2>1, <2>2
<1>4. CASE drawnFor' = drawnFor /\ (Die \/ Finish(p))
  <2>1. Resting(req, req') BY <1>1, <1>4, RestDie, RestEnd
  <2> QED BY <1>2, <1>3, <1>4, <2>1, QuietLinks
<1>5. CASE \E pc \in {"find", "mailAgain"} : \E u, e : Drawing(p, pc, u, e)
  <2>1. KeysOnce(req', letters, drawnFor') /\ NoNewWriter(req, req') BY <1>1, <1>5, DrawKeys
  <2> QED BY <1>2, <1>3, <2>1, LinksCarry
<1>6. \/ drawnFor' = drawnFor /\ (Die \/ Finish(p))
      \/ \E pc \in {"find", "mailAgain"} : \E u, e : Drawing(p, pc, u, e)
    BY DEF SignUp, PasswordSendEmail, AvoidTfaEmail, ResendConfirmation, ChangeEmailCheck
<1> QED BY <1>4, <1>5, <1>6

\* The row is looked for, and found or not.
LEMMA FindProfileLinks ==
    ASSUME AccountsInv, LinkInv, Remembered, Core', NEW p \in Requests, FindProfile(p)
    PROVE  LinkInv'
<1>1. Core BY DEF AccountsInv
<1>2. /\ At(p, "find") /\ account' = account /\ profile' = profile /\ letters' = letters
      /\ drawnFor' = drawnFor
    BY DEF FindProfile, data
<1>3. PICK row : /\ row \in RowsOf(req[p].email) \/ (row = None /\ RowsOf(req[p].email) = {})
                 /\ Goto(p, [req[p] EXCEPT !.pc = "write", !.row = row])
    BY DEF FindProfile
<1>4. PICK n : n = [req[p] EXCEPT !.pc = "write", !.row = row] OBVIOUS
<1>5. req[p] \in Request BY <1>1, RequestFacts
<1>6. n.pc = "write" /\ n.row = row /\ n.email = req[p].email /\ n.key = req[p].key
    BY <1>4, <1>5 DEF Request
<1>7. req'[p] = n /\ \A q \in Requests \ {p} : req'[q] = req[q]
    BY <1>1, <1>3, <1>4, CoreTypes DEF Goto
<1>8. req[p].pc = "find" /\ Draws(req[p]) /\ Draws(n) BY <1>2, <1>6 DEF At, Draws
<1>9. \A q \in Requests : /\ Draws(req'[q]) => Draws(req[q])
                          /\ req'[q].key = req[q].key /\ req'[q].email = req[q].email
    BY <1>6, <1>7, <1>8
<1>10. KeysOnce(req', letters, drawnFor')
    BY <1>2, <1>9 DEF LinkInv, KeysOnce
<1>11. latest' \in [Accounts -> [KeyKinds -> Keys \union {None}]] BY <1>2, MarksTyped
<1>12. Live' = Live /\ DOMAIN account' = Live BY <1>2 DEF Live
<1>13. Live \subseteq Accounts BY <1>1, CoreTypes
<1>14. \A u \in Accounts : u \notin Live' => latest'[u] = NoKeys BY <1>12 DEF Remembered
<1>15. ASSUME NEW u \in Live, u \notin torn'
       PROVE  /\ Settled(profile, req', account[u].email)
              /\ LinkWorks(profile, account[u].email, latest'[u])
  <2>1. latest'[u] = latest[u] BY <1>2, <1>11, <1>12, <1>13, MarksStay
  <2>2. u \notin torn BY <1>12, <1>15 DEF Remembered
  <2>3. PICK e : e = account[u].email OBVIOUS
  <2>4. Settled(profile, req, e) /\ LinkWorks(profile, e, latest[u]) BY <2>2, <2>3 DEF LinkInv
  <2>5. RowsOf(req[p].email) = RowsFor(profile, req[p].email) BY DEF RowsOf, RowsFor
  <2>6. OneDrawer(req', e) BY <1>9, <2>4 DEF Settled, OneDrawer
  <2>7. ASSUME NEW q \in Requests, req'[q].pc = "write", req'[q].email = e
        PROVE  \/ req'[q].row = None /\ RowsFor(profile, e) = {}
               \/ req'[q].row # None /\ req'[q].row \in RowsFor(profile, e)
    <3>1. CASE q = p
      <4>1. e = req[p].email /\ req'[q].row = row BY <1>6, <1>7, <2>7, <3>1
      <4>2. CASE row \in RowsOf(req[p].email)
        <5>1. row \in Rows BY <1>1, <4>2 DEF RowsOf, Core, RowsSound, ProfilesSound
        <5>2. row # None BY <5>1, AccountsNoneAssumption
        <5> QED BY <2>5, <4>1, <4>2, <5>2
      <4>3. CASE row = None /\ RowsOf(req[p].email) = {} BY <2>5, <4>1, <4>3
      <4> QED BY <1>3, <4>2, <4>3
    <3>2. CASE q # p BY <1>7, <2>4, <2>7, <3>2 DEF Settled
    <3> QED BY <3>1, <3>2
  <2>8. ASSUME NEW q \in Requests, req'[q].pc = "write", req'[q].row \in RowsFor(profile, e)
        PROVE  req'[q].email = e
    <3>1. CASE q = p
      <4>1. req'[q].row = row /\ req'[q].email = req[p].email BY <1>6, <1>7, <3>1
      <4>2. row # None
        <5>1. row \in Rows BY <1>1, <2>8, <4>1 DEF RowsFor, Core, RowsSound, ProfilesSound
        <5> QED BY <5>1, AccountsNoneAssumption
      <4>3. row \in RowsFor(profile, req[p].email) BY <1>3, <2>5, <4>2
      <4> QED BY <2>8, <4>1, <4>3 DEF RowsFor
    <3>2. CASE q # p BY <1>7, <2>4, <2>8, <3>2 DEF Settled
    <3> QED BY <3>1, <3>2
  <2>9. Settled(profile, req', e) BY <2>4, <2>6, <2>7, <2>8 DEF Settled
  <2> QED BY <2>1, <2>3, <2>4, <2>9
<1> QED BY <1>2, <1>10, <1>11, <1>12, <1>14, <1>15 DEF LinkInv

\* A letter is sent with the key that was put in the rows of its address.
LEMMA MailLinks ==
    ASSUME AccountsInv, LinkInv, Remembered, Core', NEW p \in Requests, NEW holders,
           Draws(req[p]), Mail(p, holders), Finish(p) \/ RespondSame(p), account' = account,
           NEW kind \in KeyKinds, kind = KindOf[req[p].kind],
           NEW e, e = req[p].email, NEW k \in Keys, k = req[p].key,
           \A q \in Requests \ {p} : (req[q].pc = "write" /\ req[q].row \in RowsFor(profile', e))
                                        => req[q].row \in RowsFor(profile, e),
           \A u \in Live : (u \notin torn' /\ account[u].email = e) =>
               /\ RowsFor(profile', e) # {} /\ \A r, s \in RowsFor(profile', e) : r = s
               /\ \A r \in RowsFor(profile', e) :
                     /\ profile'[r].keys[kind] = k
                     /\ \A c \in KeyKinds \ {kind} :
                           latest[u][c] # None => profile'[r].keys[c] = latest[u][c],
           \A u \in Live : (u \notin torn' /\ account[u].email # e) =>
               /\ RowsFor(profile', account[u].email) = RowsFor(profile, account[u].email)
               /\ \A r \in RowsFor(profile, account[u].email) : profile'[r].keys = profile[r].keys
    PROVE  LinkInv'
<1>1. Core BY DEF AccountsInv
<1>2. Live' = Live /\ DOMAIN account' = Live /\ Live \subseteq Accounts BY <1>1, CoreTypes DEF Live
<1>3. req'[p] = NoRequest /\ \A q \in Requests \ {p} : req'[q] = req[q]
    BY <1>1, CoreTypes DEF Finish, RespondSame, Respond, Goto
<1>4. ~Draws(req'[p]) /\ req'[p].pc # "write" BY <1>3 DEF Draws, NoRequest
<1>5. Resting(req, req') BY <1>3, <1>4 DEF Resting
<1>6. NoNewWriter(req, req') BY <1>5, RestingWriters
<1>7. KeysOnce(req, letters, drawnFor) BY DEF LinkInv
<1>8. PICK l : l = [kind |-> kind, key |-> k, to |-> e, new |-> req[p].new] OBVIOUS
<1>9. l.kind = kind /\ l.key = k /\ l.to = e BY <1>8
<1>10. letters' = letters \union {l} BY <1>8 DEF Mail
<1>11. l \notin letters BY <1>7, <1>9 DEF KeysOnce
<1>12. letters' \ letters = {l} BY <1>10, <1>11
<1>13. drawnFor \in [Keys -> SUBSET Accounts] BY <1>1 DEF Core
<1>14. \A x : drawnFor[x] # {} => drawnFor'[x] # {}
  <2>1. PICK us : us = drawnFor[k] \union holders \union {u \in Live : account[u].email = e} OBVIOUS
  <2>2. drawnFor' = [drawnFor EXCEPT ![k] = us] BY <2>1 DEF Mail
  <2>3. drawnFor'[k] = us /\ \A x : x # k => drawnFor'[x] = drawnFor[x] BY <1>13, <2>2
  <2> QED BY <2>1, <2>3
<1>15. KeysOnce(req', letters', drawnFor')
  <2>1. drawnFor[k] # {} /\ \A q \in Requests \ {p} : Draws(req[q]) => req[q].key # k
      BY <1>7 DEF KeysOnce
  <2>2. \A m \in letters' : drawnFor'[m.key] # {} BY <1>7, <1>9, <1>10, <1>14, <2>1 DEF KeysOnce
  <2>3. ASSUME NEW q \in Requests, Draws(req'[q])
        PROVE  /\ drawnFor'[req'[q].key] # {}
               /\ \A m \in letters' : m.key # req'[q].key
               /\ \A o \in Requests \ {q} : Draws(req'[o]) => req'[o].key # req'[q].key
    <3>1. q # p /\ req'[q] = req[q] BY <1>3, <1>4, <2>3
    <3>2. drawnFor'[req[q].key] # {} BY <1>7, <1>14, <2>3, <3>1 DEF KeysOnce
    <3>3. \A m \in letters' : m.key # req[q].key
        BY <1>7, <1>9, <1>10, <2>1, <2>3, <3>1 DEF KeysOnce
    <3>4. \A o \in Requests \ {q} : Draws(req'[o]) => req'[o].key # req[q].key
        BY <1>3, <1>4, <1>7, <2>3, <3>1 DEF KeysOnce
    <3> QED BY <3>1, <3>2, <3>3, <3>4
  <2> QED BY <2>2, <2>3 DEF KeysOnce
<1>16. latest' \in [Accounts -> [KeyKinds -> Keys \union {None}]] BY <1>10, <1>12, MarksTyped
<1>17. \A u \in Accounts : u \notin Live' => latest'[u] = NoKeys BY <1>2 DEF Remembered
<1>18. ASSUME NEW u \in Live, u \notin torn'
       PROVE  /\ Settled(profile', req', account[u].email)
              /\ LinkWorks(profile', account[u].email, latest'[u])
  <2>1. u \notin torn BY <1>2, <1>18 DEF Remembered
  <2>2. Settled(profile, req, account[u].email) /\ LinkWorks(profile, account[u].email, latest[u])
      BY <2>1 DEF LinkInv
  <2>3. OneDrawer(req', account[u].email)
      BY <1>2, <1>18 DEF Remembered, OneDrawer, DrawingFor, Draws
  <2>4. CASE account[u].email = e
    <3>1. \A q \in Requests \ {p} : ~(Draws(req[q]) /\ req[q].email = e)
        BY <2>2, <2>4 DEF Settled, OneDrawer
    <3>2. \A q \in Requests : ~(req'[q].pc = "write" /\ req'[q].email = e)
        BY <1>3, <1>4, <3>1 DEF Draws
    <3>3. ASSUME NEW q \in Requests, req'[q].pc = "write", req'[q].row \in RowsFor(profile', e)
          PROVE  FALSE
      <4>1. q # p /\ req'[q] = req[q] BY <1>3, <1>4, <3>3
      <4>2. req[q].row \in RowsFor(profile, e) BY <3>3, <4>1
      <4>3. req[q].email = e BY <2>2, <2>4, <3>3, <4>1, <4>2 DEF Settled
      <4> QED BY <3>2, <3>3, <4>1, <4>3
    <3>4. Settled(profile', req', e) BY <1>18, <2>3, <2>4, <3>2, <3>3 DEF Settled
    <3>5. Sent(u, kind) = {l} BY <1>9, <1>12, <2>4 DEF Sent
    <3>6. latest'[u][kind] = k BY <1>2, <1>9, <3>5 DEF Remembered
    <3>7. \A c \in KeyKinds \ {kind} : Sent(u, c) = {} BY <1>9, <1>12 DEF Sent
    <3>8. \A c \in KeyKinds \ {kind} : latest'[u][c] = latest[u][c] BY <1>2, <3>7 DEF Remembered
    <3>9. LinkWorks(profile', e, latest'[u]) BY <1>18, <2>4, <3>6, <3>8 DEF LinkWorks
    <3> QED BY <2>4, <3>4, <3>9
  <2>5. CASE account[u].email # e
    <3>1. \A c \in KeyKinds : Sent(u, c) = {} BY <1>9, <1>12, <2>5 DEF Sent
    <3>2. \A c \in KeyKinds : latest'[u][c] = latest[u][c] BY <1>2, <3>1 DEF Remembered
    <3>3. Settled(profile', req', account[u].email) /\ LinkWorks(profile', account[u].email, latest[u])
        BY <1>6, <1>18, <2>2, <2>3, <2>5, RowsCarry
    <3> QED BY <3>2, <3>3 DEF LinkWorks
  <2> QED BY <2>4, <2>5
<1> QED BY <1>2, <1>15, <1>16, <1>17, <1>18 DEF LinkInv

\* What a request that is about to mail has.
LEMMA MailFacts ==
    ASSUME Core, NEW p \in Requests, Draws(req[p])
    PROVE  KindOf[req[p].kind] \in KeyKinds /\ req[p].key \in Keys
<1>1. /\ Course(req[p]) /\ Fields(req[p])
      /\ req[p].pc \in {"find", "write", "mailAgain"}
    BY RequestFacts DEF At, Draws
<1>2. req[p].key \in Keys BY <1>1 DEF Fields
<1>3. req[p].kind \in {"signUp", "passwordRequest", "changeEmail", "avoid", "resend"}
    BY <1>1 DEF Course
<1> QED BY <1>2, <1>3 DEF KindOf, KeyKinds

\* What a key put in rows changes of them.
RowsKeyed(prof, pr, rs, kind, k) ==
    /\ \A f : RowsFor(pr, f) = RowsFor(prof, f)
    /\ \A r \in DOMAIN prof :
         /\ r \notin rs => pr[r] = prof[r]
         /\ r \in rs => /\ pr[r].keys[kind] = k
                        /\ \A c \in KeyKinds \ {kind} : pr[r].keys[c] = prof[r].keys[c]
LEMMA KeyedRows ==
    ASSUME NEW prof, prof \in [DOMAIN prof -> Profile], NEW rs, NEW kind \in KeyKinds, NEW k \in Keys,
           NEW pr, pr = Keyed(prof, rs, kind, k)
    PROVE  RowsKeyed(prof, pr, rs, kind, k)
<1>1. pr = Keyed(prof, rs, kind, k) OBVIOUS
<1>2. DOMAIN pr = DOMAIN prof BY <1>1 DEF Keyed
<1>3. \A r \in DOMAIN prof : r \notin rs => pr[r] = prof[r] BY <1>1 DEF Keyed
<1>4. ASSUME NEW r \in DOMAIN prof, r \in rs
      PROVE  /\ pr[r].email = prof[r].email /\ pr[r].keys[kind] = k
             /\ \A c \in KeyKinds \ {kind} : pr[r].keys[c] = prof[r].keys[c]
  <2>1. PICK keys : keys = WithKey(prof[r].keys, kind, k) OBVIOUS
  <2>2. pr[r] = [prof[r] EXCEPT !.keys = keys] BY <1>1, <1>4, <2>1 DEF Keyed
  <2>3. prof[r] \in Profile OBVIOUS
  <2>4. prof[r].keys \in [KeyKinds -> Keys \union {None}] BY <2>3 DEF Profile
  <2>5. pr[r].email = prof[r].email /\ pr[r].keys = keys BY <2>2, <2>3 DEF Profile
  <2> QED BY <2>1, <2>4, <2>5, KeySound
<1>5. \A f : RowsFor(pr, f) = RowsFor(prof, f) BY <1>2, <1>3, <1>4 DEF RowsFor
<1> QED BY <1>3, <1>4, <1>5 DEF RowsKeyed

LEMMA UpdateProfileLinks ==
    ASSUME AccountsInv, LinkInv, Remembered, Core', NEW p \in Requests, UpdateProfile(p)
    PROVE  LinkInv'
<1>1. Core BY DEF AccountsInv
<1>2. PICK e, k, kind, row : /\ e = req[p].email /\ k = req[p].key
                             /\ kind = KindOf[req[p].kind] /\ row = req[p].row
    OBVIOUS
<1>3. /\ req[p].pc = "write" /\ Draws(req[p]) /\ row # None /\ account' = account
      /\ Finish(p) \/ RespondSame(p)
    BY <1>2 DEF UpdateProfile, At, Draws, Mailing
<1>4. PICK holders : Mail(p, holders) BY DEF UpdateProfile, Mailing
<1>5. kind \in KeyKinds /\ k \in Keys BY <1>1, <1>2, <1>3, MailFacts
<1>6. profile' = Keyed(profile, {row}, kind, k) BY <1>2 DEF UpdateProfile, Keyed
<1>7. profile \in [DOMAIN profile -> Profile] BY <1>1, CoreTypes
<1>7a. RowsKeyed(profile, profile', {row}, kind, k) BY <1>5, <1>6, <1>7, KeyedRows
<1>8. \A f : RowsFor(profile', f) = RowsFor(profile, f) BY <1>7a DEF RowsKeyed
<1>9. \A r \in DOMAIN profile :
         /\ r # row => profile'[r] = profile[r]
         /\ r = row => /\ profile'[r].keys[kind] = k
                       /\ \A c \in KeyKinds \ {kind} : profile'[r].keys[c] = profile[r].keys[c]
    BY <1>7a DEF RowsKeyed
<1>10. Live' = Live /\ DOMAIN account' = Live BY <1>3 DEF Live
<1>11. ASSUME NEW u \in Live, u \notin torn'
       PROVE  Settled(profile, req, account[u].email) /\ LinkWorks(profile, account[u].email, latest[u])
    BY <1>10, <1>11 DEF Remembered, LinkInv
<1>12. ASSUME NEW u \in Live, u \notin torn', account[u].email = e
       PROVE  /\ RowsFor(profile', e) # {} /\ \A r, s \in RowsFor(profile', e) : r = s
              /\ \A r \in RowsFor(profile', e) :
                    /\ profile'[r].keys[kind] = k
                    /\ \A c \in KeyKinds \ {kind} :
                          latest[u][c] # None => profile'[r].keys[c] = latest[u][c]
  <2>1. row \in RowsFor(profile, e) BY <1>2, <1>3, <1>11, <1>12 DEF Settled
  <2>2. \A r, s \in RowsFor(profile, e) : r = s BY <1>11, <1>12 DEF Settled
  <2>3. row \in DOMAIN profile BY <2>1 DEF RowsFor
  <2>4. \A c \in KeyKinds : latest[u][c] # None => profile[row].keys[c] = latest[u][c]
      BY <1>11, <1>12, <2>1 DEF LinkWorks
  <2>5. \A r \in RowsFor(profile', e) : r = row BY <1>8, <2>1, <2>2
  <2> QED BY <1>8, <1>9, <2>1, <2>2, <2>3, <2>4, <2>5
<1>13. ASSUME NEW u \in Live, u \notin torn', account[u].email # e
       PROVE  /\ RowsFor(profile', account[u].email) = RowsFor(profile, account[u].email)
              /\ \A r \in RowsFor(profile, account[u].email) : profile'[r].keys = profile[r].keys
  <2>1. row \notin RowsFor(profile, account[u].email)
      BY <1>2, <1>3, <1>11, <1>13 DEF Settled
  <2>2. \A r \in RowsFor(profile, account[u].email) : profile'[r] = profile[r]
      BY <1>9, <2>1 DEF RowsFor
  <2> QED BY <1>8, <2>2
<1> QED BY <1>2, <1>3, <1>4, <1>5, <1>8, <1>12, <1>13, MailLinks

LEMMA CreateProfileLinks ==
    ASSUME AccountsInv, LinkInv, Remembered, Core', NEW p \in Requests, CreateProfile(p)
    PROVE  LinkInv'
<1>1. Core BY DEF AccountsInv
<1>2. CASE UNCHANGED data /\ (Die \/ Finish(p))
  <2>1. Resting(req, req') BY <1>1, <1>2, RestDie, RestEnd
  <2> QED BY <1>2, <2>1, DataLinks
<1>3. CASE req[p].email \in Addresses
  <2>1. PICK e, k, kind : e = req[p].email /\ k = req[p].key /\ kind = KindOf[req[p].kind]
      OBVIOUS
  <2>2. /\ req[p].pc = "write" /\ Draws(req[p]) /\ req[p].row = None /\ account' = account
        /\ Mail(p, {}) /\ (Finish(p) \/ RespondSame(p))
      BY <1>3 DEF CreateProfile, At, Draws, Mailing
  <2>3. kind \in KeyKinds /\ k \in Keys BY <1>1, <2>1, <2>2, MailFacts
  <2>4. PICK row \in FreeRows : profile' = Added(profile, row, e, kind, k)
      BY <1>3, <2>1 DEF CreateProfile, Added
  <2>5. row \notin DOMAIN profile /\ \A q \in Requests : req[q].row # row BY DEF FreeRows
  <2>6. NoKeys \in [KeyKinds -> Keys \union {None}] BY DEF NoKeys
  <2>7. /\ DOMAIN profile' = DOMAIN profile \union {row}
        /\ profile'[row].email = e /\ profile'[row].keys[kind] = k
        /\ \A r \in DOMAIN profile : profile'[r] = profile[r]
    <3>1. DOMAIN profile' = DOMAIN profile \union {row}
          /\ profile'[row] = [email |-> e, keys |-> WithKey(NoKeys, kind, k)]
          /\ \A r \in DOMAIN profile : profile'[r] = profile[r]
        BY <2>4, <2>5 DEF Added, WithKey
    <3>2. WithKey(NoKeys, kind, k)[kind] = k BY <2>3, <2>6, KeySound
    <3> QED BY <3>1, <3>2
  <2>8. RowsFor(profile', e) = RowsFor(profile, e) \union {row} BY <2>5, <2>7 DEF RowsFor
  <2>9. \A f : f # e => RowsFor(profile', f) = RowsFor(profile, f) BY <2>5, <2>7 DEF RowsFor
  <2>10. \A q \in Requests \ {p} : (req[q].pc = "write" /\ req[q].row \in RowsFor(profile', e))
                                        => req[q].row \in RowsFor(profile, e)
      BY <2>5, <2>8
  <2>11. Live' = Live /\ DOMAIN account' = Live BY <2>2 DEF Live
  <2>12. ASSUME NEW u \in Live, u \notin torn'
         PROVE  Settled(profile, req, account[u].email) /\ LinkWorks(profile, account[u].email, latest[u])
      BY <2>11, <2>12 DEF Remembered, LinkInv
  <2>13. ASSUME NEW u \in Live, u \notin torn', account[u].email = e
         PROVE  /\ RowsFor(profile', e) # {} /\ \A r, s \in RowsFor(profile', e) : r = s
                /\ \A r \in RowsFor(profile', e) :
                      /\ profile'[r].keys[kind] = k
                      /\ \A c \in KeyKinds \ {kind} :
                            latest[u][c] # None => profile'[r].keys[c] = latest[u][c]
    <3>1. RowsFor(profile, e) = {} BY <2>1, <2>2, <2>12, <2>13 DEF Settled
    <3>2. \A c \in KeyKinds : latest[u][c] = None BY <2>12, <2>13, <3>1 DEF LinkWorks
    <3>3. RowsFor(profile', e) = {row} BY <2>8, <3>1
    <3> QED BY <2>7, <3>2, <3>3
  <2>14. ASSUME NEW u \in Live, u \notin torn', account[u].email # e
         PROVE  /\ RowsFor(profile', account[u].email) = RowsFor(profile, account[u].email)
                /\ \A r \in RowsFor(profile, account[u].email) : profile'[r].keys = profile[r].keys
      BY <2>7, <2>9, <2>14 DEF RowsFor
  <2> QED BY <2>1, <2>2, <2>3, <2>10, <2>13, <2>14, MailLinks
<1> QED BY <1>2, <1>3 DEF CreateProfile, data

LEMMA MailAgainLinks ==
    ASSUME AccountsInv, LinkInv, Remembered, Core', NEW p \in Requests, MailAgain(p)
    PROVE  LinkInv'
<1>1. Core BY DEF AccountsInv
<1>2. PICK e, k, kind : e = req[p].email /\ k = req[p].key /\ kind = KindOf[req[p].kind]
    OBVIOUS
<1>3. /\ req[p].pc = "mailAgain" /\ Draws(req[p]) /\ account' = account
      /\ Mail(p, {}) /\ RespondSame(p)
    BY DEF MailAgain, At, Draws
<1>4. kind \in KeyKinds /\ k \in Keys BY <1>1, <1>2, <1>3, MailFacts
<1>5. kind = "activation" BY <1>1, <1>2, <1>3, RequestFacts DEF Course, At, KindOf
<1>6. RowsOf(e) = RowsFor(profile, e) BY DEF RowsOf, RowsFor
<1>7. profile' = Keyed(profile, RowsOf(e), kind, k) BY <1>2, <1>5 DEF MailAgain, Keyed
<1>8. profile \in [DOMAIN profile -> Profile] BY <1>1, CoreTypes
<1>8a. RowsKeyed(profile, profile', RowsOf(e), kind, k) BY <1>4, <1>7, <1>8, KeyedRows
<1>9. \A f : RowsFor(profile', f) = RowsFor(profile, f) BY <1>8a DEF RowsKeyed
<1>10. \A r \in DOMAIN profile :
         /\ r \notin RowsOf(e) => profile'[r] = profile[r]
         /\ r \in RowsOf(e) =>
              /\ profile'[r].keys[kind] = k
              /\ \A c \in KeyKinds \ {kind} : profile'[r].keys[c] = profile[r].keys[c]
    BY <1>8a DEF RowsKeyed
<1>11. Live' = Live /\ DOMAIN account' = Live BY <1>3 DEF Live
<1>12. req'[p].pc = "idle" BY <1>1, <1>3, CoreTypes DEF RespondSame, Respond, NoRequest
<1>13. ASSUME NEW u \in Live, u \notin torn'
       PROVE  /\ Settled(profile, req, account[u].email)
              /\ LinkWorks(profile, account[u].email, latest[u])
              /\ account[u].email = e => RowsOf(e) # {}
  <2>1. u \notin torn /\ ~Rowless(u) BY <1>11, <1>13 DEF Remembered
  <2>2. account[u].email = e => RowsOf(e) # {} BY <1>2, <1>3, <1>12, <2>1 DEF Rowless, At
  <2> QED BY <2>1, <2>2 DEF LinkInv
<1>14. ASSUME NEW u \in Live, u \notin torn', account[u].email = e
       PROVE  /\ RowsFor(profile', e) # {} /\ \A r, s \in RowsFor(profile', e) : r = s
              /\ \A r \in RowsFor(profile', e) :
                    /\ profile'[r].keys[kind] = k
                    /\ \A c \in KeyKinds \ {kind} :
                          latest[u][c] # None => profile'[r].keys[c] = latest[u][c]
  <2>1. \A r, s \in RowsFor(profile, e) : r = s BY <1>13, <1>14 DEF Settled
  <2>2. \A r \in RowsFor(profile, e), c \in KeyKinds :
           latest[u][c] # None => profile[r].keys[c] = latest[u][c]
      BY <1>13, <1>14 DEF LinkWorks
  <2>3. \A r \in RowsFor(profile, e) : r \in DOMAIN profile BY DEF RowsFor
  <2> QED BY <1>6, <1>9, <1>10, <1>13, <1>14, <2>1, <2>2, <2>3
<1>15. ASSUME NEW u \in Live, u \notin torn', account[u].email # e
       PROVE  /\ RowsFor(profile', account[u].email) = RowsFor(profile, account[u].email)
              /\ \A r \in RowsFor(profile, account[u].email) : profile'[r].keys = profile[r].keys
    BY <1>6, <1>9, <1>10, <1>15 DEF RowsFor
<1> QED BY <1>2, <1>3, <1>4, <1>9, <1>14, <1>15, MailLinks

LEMMA NextLinks == AccountsInv /\ LinkInv /\ Next => LinkInv'
<1> SUFFICES ASSUME AccountsInv, LinkInv, Next PROVE LinkInv' OBVIOUS
<1>1. Core /\ Core' BY NextSound DEF AccountsInv
<1>2. Remembered BY HistoryRemembers DEF Next
<1>3. PICK p \in Requests :
         Arrival(p) \/ KeyStep(p) \/ VisitorStep(p) \/ SettingsStep(p) \/ AdminStep(p)
    BY DEF Next
<1>4. CASE Arrival(p) BY <1>1, <1>2, <1>4, ArrivalRests, DataLinks
<1>5. CASE \/ ValidateNew(p) \/ Login(p) \/ SubmitToken(p) \/ TfaVerify(p) \/ ExternalLogin(p)
           \/ ValidateLocal(p) \/ Activate(p) \/ ChangePassword(p) \/ DisableTfaByKey(p)
           \/ Visit(p) \/ Logout(p) \/ NoExtra(p) \/ CheckPassword(p) \/ ChangeEmail(p)
           \/ EmailVerify(p) \/ CancelAccount(p) \/ AdminEdit(p) \/ ApiUpdate(p)
           \/ AdminDelete(p) \/ ReadAdministrators(p)
    BY <1>1, <1>2, <1>5, QuietStepRests, DataLinks
<1>6. CASE \/ FlushExtra(p) \/ SaveEnabled(p) \/ SetPassword(p) \/ UpdateInfo(p) \/ EnableTfa(p)
           \/ DisableTfa(p) \/ SetOwnPassword(p) \/ AdminPassword(p) \/ AdminEnable(p)
           \/ Promote(p) \/ Demote(p)
    BY <1>1, <1>2, <1>6, ChangeStepLinks
<1>7. CASE AdminCreate(p) \/ ApiCreate(p) \/ CreateLocal(p)
    BY <1>1, <1>2, <1>7, CreateStepLinks DEF AdminCreate, ApiCreate
<1>8. CASE Destroy(p) \/ ApiDelete(p) BY <1>1, <1>2, <1>8, DestroyStepLinks
<1>9. CASE SetEmail(p) BY <1>1, <1>2, <1>9, SetEmailLinks
<1>10. CASE AdminSave(p) \/ ApiSave(p)
    BY <1>1, <1>2, <1>10, SaveCopyLinks DEF AdminSave, ApiSave
<1>11. CASE \/ SignUp(p) \/ PasswordSendEmail(p) \/ AvoidTfaEmail(p) \/ ResendConfirmation(p)
            \/ ChangeEmailCheck(p)
    BY <1>1, <1>2, <1>11, DrawStepLinks
<1>12. CASE KeyStep(p)
    BY <1>1, <1>2, <1>12, FindProfileLinks, UpdateProfileLinks, CreateProfileLinks DEF KeyStep
<1>13. CASE MailAgain(p) BY <1>1, <1>2, <1>13, MailAgainLinks
<1> QED BY <1>3, <1>4, <1>5, <1>6, <1>7, <1>8, <1>9, <1>10, <1>11, <1>12, <1>13
        DEF VisitorStep, SettingsStep, AdminStep

\* The link last mailed to an account works (activate, change_password, email_verify,
\* disable_2fa): from when it is mailed until the next of its kind, its key is in every
\* profile row that may be found for the account, wherever the account moves.  It does not
\* hold by itself: what makes it hold is that an address has at most one row, one request
\* that draws a key for it, and that nobody else writes to its row.
THEOREM LatestLinksWork == Spec => []LatestLinkWorks
<1>1. Init => AccountsInv /\ LinkInv BY InitSound, LinkInit
<1>2. AccountsInv /\ LinkInv /\ [Next]_vars => (AccountsInv /\ LinkInv)'
  <2>1. LinkInv /\ UNCHANGED vars => LinkInv'
      BY DEF LinkInv, KeysOnce, Draws, Settled, OneDrawer, RowsFor, LinkWorks, vars, Live
  <2> QED BY <2>1, NextSound, StutterSound, NextLinks
<1>3. AccountsInv /\ LinkInv => LatestLinkWorks BY LinkInvWorks
<1> QED BY <1>1, <1>2, <1>3, PTL DEF Spec
=============================================================================
