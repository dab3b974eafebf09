------------------------ MODULE CredentialLifecycle ------------------------
(***************************************************************************)
(* What the authorization server promises about a credential (a code, a    *)
(* refresh token, an access token), whatever tables, un-awaited statements *)
(* and requests it is made of.  A credential is drawn once, for one owner, *)
(* out of a grant that owner holds; then it becomes live, or is lost; once *)
(* dead it is never honoured again.                                        *)
(***************************************************************************)
CONSTANTS Ids, Owners, None

VARIABLES
    stage,     \* "unused", "drawn", "live" (honoured when presented) or "dead"
    owner,     \* the client and user it was drawn for
    source,    \* the credential that bought it
    held       \* the credentials that were handed over

vars == <<stage, owner, source, held>>

Stages == {"unused", "drawn", "live", "dead"}
Later == [s \in Stages |->
            CASE s = "unused" -> {"unused"}
              [] s = "drawn" -> {"drawn", "live", "dead"}
              [] s = "live" -> {"live", "dead"}
              [] s = "dead" -> {"dead"}]

Init == /\ stage = [x \in Ids |-> "unused"]
        /\ owner = [x \in Ids |-> None]
        /\ source = [x \in Ids |-> None]
        /\ held = {}

\* New values are drawn for one owner, with a credential that owner was
\* handed, or with none.
Issue(S, o, g) ==
    /\ S # {} /\ \A x \in S : stage[x] = "unused"
    /\ g = None \/ (g \in held /\ owner[g] = o)
    /\ \A x \in Ids :
        /\ stage'[x] \in IF x \in S THEN {"drawn", "live"} ELSE {stage[x]}
        /\ owner'[x] = IF x \in S THEN o ELSE owner[x]
        /\ source'[x] = IF x \in S THEN g ELSE source[x]
    /\ held' \in {held, held \union S}

\* Credentials are stored, handed over, revoked or lost; a deletion or a crash
\* may end many at once.  Only a live one, or one about to be, is handed over
\* for the first time, unless it died on the way out.
Advance ==
    /\ \A x \in Ids : stage'[x] \in Later[stage[x]]
    /\ held \subseteq held'
    /\ \A x \in held' : stage'[x] # "unused"
    /\ UNCHANGED <<owner, source>>

Next == \/ \E S \in SUBSET Ids, o \in Owners, g \in Ids \union {None} : Issue(S, o, g)
        \/ Advance

Spec == Init /\ [][Next]_vars
=============================================================================
