------------------------ MODULE MCAppAuthorization ------------------------
(***************************************************************************)
(* Values for model-checking AppAuthorization, and Organizations with it.  *)
(* Each group of requests starts from an application that suits it: u1 is  *)
(* its provider, u2 owns o1, whose owners hold a role of the application.  *)
(***************************************************************************)
EXTENDS AppAuthorization, TLC

CONSTANTS u1, u2, o1, r1, g1

Members == {<<u2>>, <<o1, "owner">>}
Provided == [to |-> <<u1>>, role |-> "provider"]
Shared == {Provided, [to |-> <<o1, "owner">>, role |-> r1]}

Bare == [roles |-> {}, rules |-> <<>>, grants |-> {}, assign |-> {Provided}]
Plain == [roles |-> {r1}, rules |-> <<>>, grants |-> {}, assign |-> Shared]
Delegated(perm) == [Plain EXCEPT !.grants = {<<r1, perm>>}]
Ruled == [roles |-> {r1}, rules |-> [g \in {g1} |-> {"rest"}],
          grants |-> {<<r1, "3">>}, assign |-> Shared]

Submitting == {"authorize", "deleteAccount"}
Assigning == {"addRole", "removeRole"}
Cleaning == {"addRole", "deleteRole", "createRole"}
Mapping == {"grants", "deletePermission"}
Granting == {"grant", "revoke", "leave"}
Ruling == {"createPermission", "editPermission", "deletePermission"}
Founding == {"webCreate", "apiCreate", "webDestroy", "apiDestroy", "deleteAccount"}
Replacing == {"setMembers", "leave", "deleteAccount"}
Adding == {"addMember", "removeMember"}

AllGroups == {Submitting, Assigning, Cleaning, Mapping, Granting, Ruling, Founding, Replacing, Adding}
AllStarts ==
    [g \in AllGroups |->
        CASE g = Assigning -> {Delegated("1")}
          [] g = Submitting -> {Delegated("6")}
          [] g = Cleaning -> {Bare}
          [] g = Mapping -> {Ruled}
          [] g = Ruling -> {Delegated("3")}
          [] g = Granting -> {Delegated("3"), Delegated("6")}
          [] OTHER -> {Bare}]
\* For the run about refused requests.
Refused == {Submitting}
Symmetry == Permutations(Requests) \union Permutations(Rows)
=============================================================================
