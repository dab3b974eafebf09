----------------------------- MODULE Delegation -----------------------------
(***************************************************************************)
(* The delegation registry: administrators, and the data space's own       *)
(* party, post what a subject may do in its name, and services ask for the *)
(* part of it they need, with a mask.  A post is answered before its row   *)
(* is written, and nobody waits for it.                                    *)
(***************************************************************************)
EXTENDS Naturals, Keys

CONSTANTS
    Issuer,         \* the party this registry speaks for
    Delegates,       \* the parties it delegates to
    Documents,      \* the evidences that are posted
    Masks,          \* what is asked for
    Askers,         \* whose tokens requests come with
    Posts           \* requests in flight

\* The schemas of both: what is listed is not empty, and consists of names.
ASSUME DelegationAssumption ==
    /\ \A m \in Masks : m.issuer # None /\ m.subject \in Delegates
    /\ \A m \in Masks : \A want \in m.wants :
            /\ want.ids # {} /\ want.attributes # {} /\ want.actions # {}
            /\ want.attributes # None => None \notin want.attributes
    /\ \A doc \in Documents : \A set \in doc.sets : \A policy \in set : \A rule \in policy.denials :
            rule.attributes # None => None \notin rule.attributes

VARIABLES
    evidence,   \* the rows: a document or None for each subject
    writing,    \* upserts sent and not awaited
    post,       \* requests
    known       \* history: the documents a query might have met since it came

delegationVars == <<evidence, writing, post, known>>

Unposted == [pc |-> "none", asker |-> None, about |-> None, answer |-> {}]
AnswersOf(doc, mask) == {<<set, want>> : set \in doc.sets, want \in mask.wants}

DelegationTypeOK ==
    /\ evidence \in [Delegates -> Documents \union {None}]
    /\ writing \subseteq Documents
    /\ \A p \in Posts : /\ post[p].asker \in Askers \union {None}
                        /\ post[p].about \in Documents \union Masks \union {None}
                        /\ known[p] \subseteq Documents \union {None}

Stands(p, pc) == post[p].pc = pc
Replies(p, pc) == post' = [post EXCEPT ![p].pc = pc]
Unwritten == UNCHANGED <<evidence, writing>>
Replied == {"none", "unauthorized", "forbidden", "unprocessable", "accepted", "refused",
            "notFound", "evidence", "error"}

(***************************************************************************)
(* Which of the stored policies a mask is about, and whether they bar it.  *)
(***************************************************************************)
\* (mutant) One identifier of the mask in the policy is enough.
CoversSome(stored, asked) == stored = {"*"} \/ asked \intersect stored # {}
CoversAll(stored, asked) == stored = {"*"} \/ asked \subseteq stored

\* Attributes are optional on both sides; a policy without them does not match a mask with.
IsMatchingPolicy(mask, want, policy) ==
    /\ policy.type = want.type
    /\ policy.providers = None \/ mask.provider \in policy.providers
    /\ CoversAll(policy.ids, want.ids)
    /\ want.attributes = None \/ (policy.attributes # None /\ CoversAll(policy.attributes, want.attributes))
    /\ CoversAll(policy.actions, want.actions)

Touches(rule, want) == "*" \in rule \/ rule \intersect want # {}
OnSubject(rule, want) == rule.type = want.type /\ Touches(rule.ids, want.ids)
\* A rule or a mask without attributes, where they would be compared, throws.
Throws(rule, want) ==
    OnSubject(rule, want) /\ (rule.attributes = None
                              \/ (want.attributes = None /\ "*" \notin rule.attributes))
IsDenyingPermission(rule, want) ==
    /\ OnSubject(rule, want) /\ ~Throws(rule, want)
    /\ "*" \in rule.attributes \/ Touches(rule.attributes, want.attributes)
    /\ rule.actions = {} \/ Touches(rule.actions, want.actions)

MatchingPolicies(mask, want, set) == {policy \in set : IsMatchingPolicy(mask, want, policy)}
DenialsOf(mask, want, set) == UNION {policy.denials : policy \in MatchingPolicies(mask, want, set)}
Denied(mask, want, set) == \E rule \in DenialsOf(mask, want, set) : IsDenyingPermission(rule, want)
Broken(mask, want, set) == \E rule \in DenialsOf(mask, want, set) : Throws(rule, want)
Effect(mask, want, set) ==
    IF MatchingPolicies(mask, want, set) = {} \/ Denied(mask, want, set) THEN "Deny" ELSE "Permit"

(***************************************************************************)
(* Requests.                                                               *)
(***************************************************************************)
\* A token is authenticated as any bearer token.
AuthenticateAsker(p) ==
    /\ Stands(p, "none")
    /\ \E asker \in Askers, about \in Documents \union Masks :
        post' = [post EXCEPT ![p] = [Unposted EXCEPT !.asker = asker, !.about = about,
                    !.pc = IF about \in Documents THEN "post" ELSE "query"]]
    /\ Unwritten
AuthenticateAskerFails(p) ==
    Stands(p, "none") /\ Replies(p, "unauthorized") /\ Unwritten

UpsertPolicyRefused(p) ==
    /\ Stands(p, "post")
    /\ \/ ~post[p].asker.trusted /\ Replies(p, "forbidden")
       \/ post[p].asker.trusted /\ post[p].about.issuer # Issuer /\ Replies(p, "unprocessable")
    /\ Unwritten

UpsertPolicy(p) ==
    /\ Stands(p, "post") /\ post[p].asker.trusted /\ post[p].about.issuer = Issuer
    /\ writing' = writing \union {post[p].about}
    /\ Replies(p, "accepted")
    /\ UNCHANGED evidence

WritePolicy(doc) ==
    /\ evidence' = [evidence EXCEPT ![doc.subject] = doc]
    /\ writing' = writing \ {doc}
    /\ UNCHANGED post

\* A statement that is refused is a rejection nobody handles: the process ends.
WritePolicyFails ==
    /\ writing # {} /\ writing' = {}
    /\ post' = [p \in Posts |-> IF post[p].pc \in Replied THEN post[p]
                                ELSE [post[p] EXCEPT !.pc = "lost"]]
    /\ UNCHANGED evidence

\* The first provider in the mask asks, with a token that the issuer or the subject made
\* for it.  (Participants says how the token's certificates are verified.)
IsValidPrevSteps(mask, asker) ==
    /\ mask.steps = "given"
    /\ mask.provider = asker.name
    /\ mask.step.sound /\ mask.step.iss \in {mask.issuer, mask.subject}
    /\ mask.step.iss = mask.step.sub /\ mask.step.aud = asker.name

\* Without previous steps there is nothing to check.
MayAsk(mask, asker) ==
    \/ mask.steps = "absent" \/ IsValidPrevSteps(mask, asker)
    \/ asker.name \in {mask.issuer, mask.subject}

QueryEvidences(p) ==
    /\ Stands(p, "query")
    /\ Replies(p, IF MayAsk(post[p].about, post[p].asker) THEN "find" ELSE "refused")
    /\ Unwritten

GetDelegationEvidence(p) ==
    /\ Stands(p, "find")
    /\ LET mask == post[p].about   doc == evidence[mask.subject]
           broken == {x \in AnswersOf(doc, mask) : Broken(mask, x[2], x[1])} IN
       \/ doc = None /\ Replies(p, "notFound")
       \/ /\ doc # None
          /\ {x \in broken : ~Denied(mask, x[2], x[1])} = {}
          /\ post' = [post EXCEPT
                ![p].pc = "evidence",
                ![p].answer = {<<x[1], x[2], Effect(mask, x[2], x[1])>> : x \in AnswersOf(doc, mask)}]
       \/ /\ doc # None
          /\ broken # {}
          /\ Replies(p, "error")
    /\ Unwritten

DelegationStep ==
    \/ \E p \in Posts :
            \/ AuthenticateAsker(p) \/ AuthenticateAskerFails(p) \/ UpsertPolicy(p)
            \/ UpsertPolicyRefused(p) \/ QueryEvidences(p) \/ GetDelegationEvidence(p)
    \/ \E doc \in writing : WritePolicy(doc)
    \/ WritePolicyFails

DelegationHistory ==
    known' = [p \in Posts |->
        IF post'[p].pc = "query" /\ Stands(p, "none") THEN {evidence'[post'[p].about.subject]}
        ELSE IF post'[p].pc \in {"query", "find"} THEN known[p] \union {evidence'[post[p].about.subject]}
        ELSE known[p]]

DelegationInit ==
    /\ evidence = [s \in Delegates |-> None] /\ writing = {}
    /\ post = [p \in Posts |-> Unposted] /\ known = [p \in Posts |-> {}]

DelegationSpec ==
    DelegationInit /\ [][DelegationStep /\ DelegationHistory]_delegationVars

(***************************************************************************)
(* Properties.                                                             *)
(***************************************************************************)
\* A mask is taken apart into the single things it asks for.
Points(want) == [id: want.ids, attribute: IF want.attributes = None THEN {None} ELSE want.attributes,
                 action: want.actions]
Among(x, stored) == stored = {"*"} \/ x \in stored
Grants(mask, policy, want) ==
    /\ policy.type = want.type
    /\ policy.providers # None => mask.provider \in policy.providers
    /\ \A x \in Points(want) :
        /\ Among(x.id, policy.ids) /\ Among(x.action, policy.actions)
        /\ x.attribute = None \/ (policy.attributes # None /\ Among(x.attribute, policy.attributes))
Bars(rule, want) ==
    /\ rule.type = want.type
    /\ \E x \in Points(want) :
        /\ {"*", x.id} \intersect rule.ids # {}
        /\ rule.attributes # None /\ {"*", x.attribute} \intersect rule.attributes # {}
        /\ rule.actions = {} \/ {"*", x.action} \intersect rule.actions # {}

\* What a service is told of its mask is what one document that was stored while it asked
\* says, policy set by policy set: permitted is what one policy grants in every single
\* thing, provided no such policy bars any of them.  And it is told to the issuer, the
\* subject or the provider they sent, or to one who shows no previous step at all.  A post
\* answered with success is not promised to be seen: its row is written when it may be.
DelegationsHaveGrounds ==
    \A p \in Posts : Stands(p, "evidence") =>
        LET mask == post[p].about   asker == post[p].asker IN
        /\ \E doc \in known[p] \ {None} :
            /\ doc.issuer = Issuer /\ doc.subject = mask.subject
            /\ {<<x[1], x[2]>> : x \in post[p].answer} = doc.sets \X mask.wants
            /\ \A x \in post[p].answer :
                LET granting == {policy \in x[1] : Grants(mask, policy, x[2])} IN
                x[3] = "Permit" <=>
                    /\ granting # {}
                    /\ \A policy \in granting : \A rule \in policy.denials : ~Bars(rule, x[2])
        /\ \/ asker.name \in {mask.issuer, mask.subject} \/ mask.steps = "absent"
           \/ mask.step.sound /\ mask.step.aud = asker.name /\ asker.name = mask.provider
=============================================================================
