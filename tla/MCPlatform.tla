----------------------------- MODULE MCPlatform -----------------------------
(***************************************************************************)
(* One run for the parts of Keyrock that meet in its tables but not in     *)
(* each other's hazards: a behaviour sees one group of requests, chosen    *)
(* when it starts, and each group's requests race with one another.        *)
(***************************************************************************)
EXTENDS Applications, Decisions, Dialogs, AccessControlPage, Participants,
        Delegation, Eidas, TLC
CONSTANTS u1, u2, a1, a2, x1, i0, i1, i2, s1, s2, m1, m2, t1, t2, o1, r1, r2, r3, q1, q2, q3,
          k1, k2, k3, c1, c2, c3, n1, n2, e1

Row(jwt, secret, image) == [jwt |-> jwt, secret |-> secret, image |-> image]
Empty == [app |-> <<>>, provided |-> {}, machine |-> <<>>, files |-> {"logo"}, token |-> <<>>,
          owners |-> {}]
Owned == [Empty EXCEPT !.owners = {u1, u2}]
With(r) == [Empty EXCEPT !.app = a1 :> r, !.provided = {<<a1, u1>>}]
Plain == With(Row(FALSE, None, "default"))
Pictured == [With(Row(FALSE, None, i0)) EXCEPT !.files = {"logo", i0}]
Both == [Plain EXCEPT !.app = a1 :> Row(FALSE, None, "default") @@ a2 :> Row(FALSE, None, "default"),
                      !.provided = {<<a1, u1>>, <<a2, u1>>}]
Proxied == [Plain EXCEPT !.machine = m1 :> [app |-> a1, kind |-> "pep", password |-> s1]]
Tokened == [Proxied EXCEPT !.token = t1 :> u1]

Founding == {"webCreate", "apiCreate", "deleteAccount", "loseOrganization"}
Signing == {"updateInfo", "changeTypes", "resetSecret", "apiRetype"}
Pictures == {"upload", "deleteAvatar", "apiUpdate", "webDestroy"}
Proxies == {"registerPep", "createPep", "resetPep", "updatePep", "deletePep",
            "destroyPep", "apiDestroy"}
Agents == {"registerIot", "createIot", "resetIot", "updateIot", "deleteIot", "destroyIot",
           "apiDestroy"}
Renewing == {"createToken", "deleteToken", "deletePep"}
Relying == {"setTrusted", "addTrusted", "removeTrusted", "apiDestroy"}

Deciding == {"decide"}
Editing == {"edit"}
Assigning == {"assign"}
Joining == {"participate"}
Delegating == {"delegate"}
Certifying == {"certify"}
Identifying == {"identify"}

OfApplications == {Founding, Signing, Pictures, Proxies, Agents, Renewing, Relying}
AllGroups == OfApplications \union {Deciding, Editing, Assigning, Joining, Delegating,
                                    Certifying, Identifying}
AllStarts ==
    [g \in AllGroups |->
        CASE g = Founding -> {Owned}
          [] g = Signing -> {Plain, With(Row(TRUE, s1, "default"))}
          [] g = Pictures -> {Pictured}
          [] g \in {Proxies, Agents} -> {Plain}
          [] g = Renewing -> {Tokened}
          [] g = Relying -> {Both}
          [] OTHER -> {Empty}]

Allows(a, covers, header, ids) ==
    [app |-> a, action |-> "get", covers |-> covers, header |-> header, ids |-> ids]
Wide == Allows(a1, {"x", "y"}, "tenant", {"x"})
Narrow == Allows(a2, {"x"}, "none", {})
AllPermissions == {Wide, Narrow}
Tables ==
    {<<"belongs", u2, o1, "member">>, <<"staffs", o1, "owner", r1, a1>>,
     <<"staffs", o1, "member", r2, a2>>, <<"plays", u2, r2, a1>>,
     <<"grants", r1, Wide>>, <<"grants", r2, Narrow>>,
     <<"permission", Wide>>, <<"permission", Narrow>>,
     <<"consents", u2, a1, "email">>, <<"domain", a1>>, <<"application", a1>>,
     <<"application", a2>>, <<"trusts", a2, a1>>}
AllBeginnings == {Tables, (Tables \ {<<"belongs", u2, o1, "member">>})
                              \union {<<"belongs", u2, o1, "owner">>}}
About(what, holder, a, decide) ==
    [kind |-> what, user |-> u2, holder |-> holder, app |-> a, decide |-> decide, roles |-> {},
     action |-> "get", resource |-> "x", header |-> "tenant", ids |-> {}]
OfRoles(what, roles, a, ids) ==
    [About(what, a, a, TRUE) EXCEPT !.roles = roles, !.ids = ids]
AllQuestions ==
    {About("bearer", a1, None, FALSE), About("bearer", a1, a1, TRUE),
     About("bearer", a1, a2, TRUE), About("jwt", a2, a2, TRUE), About("idToken", a2, None, FALSE),
     OfRoles("opa", {r1}, a1, {"x"}), OfRoles("opa", {r1, r2}, a2, {"x", "y"}),
     OfRoles("credential", {r1}, a1, {})}

DialogNames == {"users", "organizations", "members", "administrators", "trusted"}
AllMarks ==
    [k \in DialogNames |->
        CASE k = "users" -> {r1, r2}
          [] k = "organizations" -> {"owner", "member"} \X {r1}
          [] k = "members" -> {"owner", "member"}
          [] OTHER -> {}]
AllLists ==
    [k \in DialogNames |->
        CASE k = "users" -> {{<<u1, r1>>}, {<<u1, r1>>, <<u1, r2>>, <<u2, r1>>}}
          [] k = "organizations" ->
                {{<<u1, <<"owner", r1>>>>},
                 {<<u1, <<"owner", r1>>>>, <<u1, <<"member", r1>>>>, <<u2, <<"member", r1>>>>}}
          [] k = "members" -> {{<<u1, "owner">>, <<u1, "member">>, <<u2, "member">>},
                               {<<u1, "owner">>}}
          [] OTHER -> {{u1}}]

GrantedBefore == {[roles |-> {r1}, permissions |-> {q1}, grants |-> {<<r1, q1>>}]}

AllSigned == {<<k2, k1>>, <<k3, k2>>}
AllChains == {<<k1, k3>>, <<k1, k2, k3>>}
AllMemberships == {<<c1, k1>>}

Thing(ids, attributes, actions) ==
    [type |-> "t", ids |-> ids, attributes |-> attributes, actions |-> actions]
Policy(ids, attributes, actions, providers, denials) ==
    [type |-> "t", ids |-> ids, attributes |-> attributes, actions |-> actions,
     providers |-> providers, denials |-> denials]
NoX == Thing({"x"}, {"*"}, {})
AllDocuments ==
    {[subject |-> c2, issuer |-> c1, sets |-> sets] : sets \in
        {{{Policy({"*"}, {"*"}, {"get", "post"}, None, {NoX}),
           Policy({"x", "y"}, {"a"}, {"*"}, {c3}, {})}},
         {{Policy({"x", "*"}, None, {"get"}, None, {})},
          {Policy({"y"}, {"a", "b"}, {"get"}, None, {Thing({"y"}, None, {"get"}), Thing({"*"}, {"b"}, {})})}},
         {{Policy({"x"}, {"a"}, {"get"}, None, {Thing({"y"}, {"*"}, {})}),
           Policy({"y", "z"}, {"a", "b"}, {"get"}, {c3}, {Thing({"x"}, {"b"}, {"*"})})}}}}
        \union {[subject |-> c2, issuer |-> c3, sets |-> {{Policy({"*"}, {"*"}, {"*"}, None, {})}}]}
AllMasks ==
    {[issuer |-> c1, subject |-> c2, provider |-> c3, wants |-> wants, steps |-> s[1],
      step |-> [iss |-> s[2], sub |-> c2, aud |-> s[3], sound |-> TRUE]] :
        wants \in {{Thing({"x"}, {"a"}, {"get"}), Thing({"y"}, None, {"get"})},
                   {Thing({"x", "y"}, {"a"}, {"get"})}, {Thing({"y"}, {"b"}, {"get", "post"})},
                   {Thing({"x", "z"}, {"a", "c"}, {"post"})}},
        s \in {<<"absent", None, None>>, <<"given", c2, c3>>, <<"given", c1, c3>>,
               <<"given", c2, c2>>}}
AllAskers == {[name |-> c1, trusted |-> TRUE], [name |-> c2, trusted |-> FALSE],
              [name |-> c3, trusted |-> FALSE]}

Person(person, email, photo, attributes) ==
    [person |-> person, email |-> email, photo |-> photo, attributes |-> attributes]
AllIdentities == {Person(n1, e1, "sent", {}), Person(n1, None, "default", {"birth"}),
                  Person(n2, e1, "sent", {})}

\* What its group does not see stays as it is.
federationVars == <<participantVars, delegationVars, eidasVars>>
platformVars == <<applicationVars, decisionVars, dialogVars, pageVars, federationVars>>
Next ==
    \/ /\ group \in OfApplications /\ ApplicationStep /\ ApplicationHistory
       /\ UNCHANGED <<decisionVars, dialogVars, pageVars, federationVars>>
    \/ /\ group = Deciding /\ DecisionStep /\ DecisionHistory
       /\ UNCHANGED <<applicationVars, dialogVars, pageVars, federationVars>>
    \/ /\ group = Editing /\ DialogStep
       /\ UNCHANGED <<applicationVars, decisionVars, pageVars, federationVars>>
    \/ /\ group = Assigning /\ PageStep
       /\ UNCHANGED <<applicationVars, decisionVars, dialogVars, federationVars>>
    \/ /\ group = Joining /\ ParticipantStep
       /\ UNCHANGED <<applicationVars, decisionVars, dialogVars, pageVars, delegationVars, eidasVars>>
    \/ /\ group = Delegating /\ DelegationStep /\ DelegationHistory
       /\ UNCHANGED <<applicationVars, decisionVars, dialogVars, pageVars, participantVars, eidasVars>>
    \/ /\ group = Certifying /\ CredentialStep
       /\ UNCHANGED <<applicationVars, decisionVars, dialogVars, pageVars, participantVars, delegationVars>>
    \/ /\ group \in {Certifying, Identifying} /\ LoginStep
       /\ UNCHANGED <<applicationVars, decisionVars, dialogVars, pageVars, participantVars, delegationVars>>
Init ==
    /\ ApplicationInit
    /\ DecisionInit /\ (group = Deciding \/ facts = Tables)
    /\ DialogInit /\ (group = Editing \/ dialog = "users")
    /\ PageInit
    /\ ParticipantInit /\ registry = [roots |-> {k3}, members |-> {}]
    /\ DelegationInit
    /\ EidasInit /\ (group = Identifying <=> credentials # <<>>)
Spec == Init /\ [][Next]_platformVars

\* The group's own variables have their types; the others keep their first value.
PlatformTypeOK ==
    /\ group \in OfApplications => ApplicationsTypeOK
    /\ group = Deciding => DecisionTypeOK
    /\ group = Editing => DialogTypeOK
    /\ group = Assigning => PageTypeOK
    /\ group = Joining => ParticipantsTypeOK
    /\ group = Delegating => DelegationTypeOK
    /\ group \in {Certifying, Identifying} => EidasTypeOK
=============================================================================
