--------------------------- MODULE PlatformProofs ---------------------------
(***************************************************************************)
(* Proofs about the parts of Keyrock together: a behaviour of all of them  *)
(* is a behaviour of each, so that what is proved of a part alone holds    *)
(* of it beside the others.                                                *)
(***************************************************************************)
EXTENDS MCPlatform, ApplicationsProofs, FederationProofs, InterfaceProofs

(***************************************************************************)
(* Every step of the whole is a step of one part, and leaves the variables *)
(* of the others alone.                                                    *)
(***************************************************************************)
LEMMA PlatformIsApplications == Spec => ApplicationSpec
<1>1. Init => ApplicationInit
  BY DEF Init
<1>2. [Next]_platformVars => [ApplicationStep /\ ApplicationHistory]_applicationVars
  BY DEF Next, platformVars
<1> QED BY <1>1, <1>2, PTL DEF Spec, ApplicationSpec

LEMMA PlatformDecides == Spec => DecisionSpec
<1>1. Init => DecisionInit
  BY DEF Init
<1>2. [Next]_platformVars => [DecisionStep /\ DecisionHistory]_decisionVars
  BY DEF Next, platformVars
<1> QED BY <1>1, <1>2, PTL DEF Spec, DecisionSpec

LEMMA PlatformEdits == Spec => DialogSpec
<1>1. Init => DialogInit
  BY DEF Init
<1>2. [Next]_platformVars => [DialogStep]_dialogVars
  BY DEF Next, platformVars
<1> QED BY <1>1, <1>2, PTL DEF Spec, DialogSpec

LEMMA PlatformAssigns == Spec => PageSpec
<1>1. Init => PageInit
  BY DEF Init
<1>2. [Next]_platformVars => [PageStep]_pageVars
  BY DEF Next, platformVars
<1> QED BY <1>1, <1>2, PTL DEF Spec, PageSpec

LEMMA PlatformAdmits == Spec => ParticipantSpec
<1>1. Init => ParticipantInit
  BY DEF Init
<1>2. [Next]_platformVars => [ParticipantStep]_participantVars
  BY DEF Next, platformVars, federationVars
<1> QED BY <1>1, <1>2, PTL DEF Spec, ParticipantSpec

LEMMA PlatformDelegates == Spec => DelegationSpec
<1>1. Init => DelegationInit
  BY DEF Init
<1>2. [Next]_platformVars => [DelegationStep /\ DelegationHistory]_delegationVars
  BY DEF Next, platformVars, federationVars
<1> QED BY <1>1, <1>2, PTL DEF Spec, DelegationSpec

LEMMA PlatformIdentifies == Spec => EidasSpec
<1>1. Init => EidasInit
  BY DEF Init
<1>2. [Next]_platformVars => [CredentialStep \/ LoginStep]_eidasVars
  BY DEF Next, platformVars, federationVars
<1> QED BY <1>1, <1>2, PTL DEF Spec, EidasSpec

\* Whatever group of requests a behaviour of the platform sees, it is a behaviour of the
\* applications, the decisions, the dialogs, the roles page, the participants, the delegation
\* registry and the national identities as each is specified alone: the run that checks them
\* together adds no step to any of them.
THEOREM PlatformIsItsParts ==
    Spec => /\ ApplicationSpec /\ DecisionSpec /\ DialogSpec /\ PageSpec
            /\ ParticipantSpec /\ DelegationSpec /\ EidasSpec
BY PlatformIsApplications, PlatformDecides, PlatformEdits, PlatformAssigns, PlatformAdmits,
   PlatformDelegates, PlatformIdentifies

\* Every table, cache, page and request in flight has its type, in every group: among other
\* things no grant outlives its permission, no mark its row, no agent its application, and no
\* address is that of two accounts, for any number of requests under way.
THEOREM PlatformIsTyped == Spec => []PlatformTypeOK
<1>1. ApplicationsTypeOK /\ DecisionTypeOK /\ DialogTypeOK /\ PageTypeOK
        /\ ParticipantsTypeOK /\ DelegationTypeOK /\ EidasTypeOK => PlatformTypeOK
  BY DEF PlatformTypeOK
<1> QED BY <1>1, PlatformIsItsParts, ApplicationsTypes, DecisionsAreTyped, DialogsAreTyped,
       PagesAreTyped, ParticipantsAreTyped, DelegationsAreTyped, IdentitiesAreTyped, PTL

\* What each part promises it keeps beside the others: applications keep a provider, their
\* images, one proxy, a secret for their JWTs and tokens of their owners; answers have grounds;
\* dialogs and the roles page send what they show; participants are vouched for, delegations
\* have grounds, logins return to their request and persons keep their account.
THEOREM PlatformKeepsItsPromises ==
    Spec => [](/\ ApplicationsHaveAProvider /\ JwtHasSecret /\ ImageIsOnDisk
               /\ OneProxyPerApplication /\ TokensComeFromTheirOwner /\ AnswersHaveGrounds
               /\ DialogSendsWhatItShows /\ GrantsAreWhatThePageShowed
               /\ ParticipantsAreVouchedFor /\ DelegationsHaveGrounds
               /\ LoginsReturnToTheirRequest /\ PersonsKeepTheirAccount)
BY PlatformIsItsParts, ProvidersAreKept, JwtsHaveASecret, ImagesAreOnDisk, ProxiesAreSingle,
   TokensHaveTheirOwner, AnswersAreFounded, DialogsSendWhatTheyShow, PageSavesWhatItShowed,
   ParticipantsAreVouched, DelegationsAreFounded, LoginsReturn, PersonsKeepAccounts, PTL
=============================================================================
