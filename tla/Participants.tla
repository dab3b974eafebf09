---------------------------- MODULE Participants ----------------------------
(***************************************************************************)
(* The participants of an iSHARE data space, which Keyrock serves on the   *)
(* word of a participant registry elsewhere: their certificates must lead  *)
(* to an authority on the registry's list, which is fetched at start and   *)
(* every hour, and they must be active members when they ask.  Both        *)
(* questions to the registry need an access token, which is fetched once   *)
(* and shared until it expires.                                            *)
(***************************************************************************)
EXTENDS FiniteSets, Sequences, Naturals, Keys

CONSTANTS
    Certificates, Signed,   \* certificates, and which is signed by which
    Listable,               \* those the registry may name as authorities
    Clients, Chains,        \* participants, and the chains they present
    Callers,                \* requests to Keyrock in flight
    Refreshes,              \* refreshes of the list in flight
    Memberships,            \* who may be a member, with which certificate
    MaxShifts               \* changes at the registry, and ends of access tokens

ASSUME ParticipantsAssumption ==
    /\ Signed \subseteq Certificates \X Certificates /\ Listable \subseteq Certificates
    /\ MaxShifts \in Nat /\ Refreshes # {}
    /\ Memberships \subseteq Clients \X Certificates /\ Chains \subseteq Seq(Certificates) \ {<<>>}

VARIABLES
    registry,   \* the registry elsewhere: its authorities and its active members
    access,     \* get_access_token: pending, the promise of a token, and whether it is fresh
    trusted,    \* get_trusted_list: pending, trusted_list and old_trusted_list
    refresh,    \* the refreshes of that list
    call,       \* participants' requests
    entered,    \* rows of applications, accounts and tokens made for participants
    shifts,     \* changes so far
    vouched     \* history: the authorities since the last refresh and the one before

participantVars == <<registry, access, trusted, refresh, call, entered, shifts, vouched>>

Idle == [pc |-> "none", kind |-> "none", client |-> None, chain |-> <<>>, anchored |-> FALSE,
         member |-> FALSE]
Resting == [pc |-> "idle", roots |-> {}]

ParticipantsTypeOK ==
    /\ registry \in [roots: SUBSET Listable, members: SUBSET Memberships]
    /\ access \in [pending: BOOLEAN, token: {"none", "coming", "kept", "refused"}, fresh: BOOLEAN]
    /\ trusted.list \in {None} \union SUBSET Listable
    /\ trusted.old \in {None} \union SUBSET Listable /\ trusted.pending \in BOOLEAN
    /\ refresh \in [Refreshes -> [pc: {"idle", "token", "list", "served"},
                                  roots: SUBSET Listable]]
    /\ \A p \in Callers : call[p].client \in Clients \union {None}
    /\ entered \subseteq {"application", "user", "token"} \X Clients
    /\ shifts \in 0 .. MaxShifts

(***************************************************************************)
(* The process starts, and starts again: the caches are its own, and the   *)
(* first refresh sets out as the module is loaded.  Whatever rejects with  *)
(* nobody to handle it ends the process.                                   *)
(***************************************************************************)
First == CHOOSE f \in Refreshes : TRUE
AtStart ==
    [access |-> [pending |-> TRUE, token |-> "coming", fresh |-> FALSE],
     trusted |-> [pending |-> TRUE, list |-> None, old |-> None],
     refresh |-> [f \in Refreshes |-> IF f = First THEN [Resting EXCEPT !.pc = "token"]
                                      ELSE Resting]]

InFlight(p) == call[p].pc \notin {"none", "refused", "redirected", "tokened", "lost"}
StartAgain ==
    /\ access' = AtStart.access /\ trusted' = AtStart.trusted /\ refresh' = AtStart.refresh
    /\ call' = [p \in Callers |-> IF InFlight(p) THEN [call[p] EXCEPT !.pc = "lost"] ELSE call[p]]
    /\ vouched' = [last |-> registry.roots, before |-> {}, overlapped |-> FALSE]
    /\ UNCHANGED <<registry, entered, shifts>>

(***************************************************************************)
(* The access token: whoever asks while it is fetched shares the promise.  *)
(***************************************************************************)
Cached == ~access.pending /\ access.token = "kept" /\ access.fresh
Refusing == access.pending /\ access.token = "refused"
GetAccessToken ==
    access' = IF access.pending \/ Cached THEN access
              ELSE [pending |-> TRUE, token |-> "coming", fresh |-> FALSE]

\* The token comes for all who wait for it.
FetchAccessToken ==
    /\ access.token = "coming"
    /\ access' = [pending |-> FALSE, token |-> "kept", fresh |-> TRUE]
    /\ refresh' = [f \in Refreshes |-> IF refresh[f].pc = "token"
                                       THEN [refresh[f] EXCEPT !.pc = "list"] ELSE refresh[f]]
    /\ call' = [p \in Callers |-> IF call[p].pc = "token"
                                  THEN [call[p] EXCEPT !.pc = "parties"] ELSE call[p]]
    /\ UNCHANGED <<registry, trusted, entered, shifts, vouched>>

\* The registry refuses it, and the rejected promise stays: pending is not reset.  A refresh
\* that waits for it does not catch that.
FetchAccessTokenRefused ==
    /\ access.token = "coming"
    /\ IF \E f \in Refreshes : refresh[f].pc = "token"
       THEN StartAgain
       ELSE /\ access' = [access EXCEPT !.token = "refused"]
            /\ call' = [p \in Callers |-> IF call[p].pc = "token"
                                          THEN [call[p] EXCEPT !.pc = "refused"] ELSE call[p]]
            /\ UNCHANGED <<registry, trusted, refresh, entered, shifts, vouched>>

\* The request to the registry fails: that is no OAuthError, and ends the process.
FetchAccessTokenFails == access.token = "coming" /\ StartAgain

AccessTokenExpires ==
    /\ shifts < MaxShifts /\ shifts' = shifts + 1
    /\ access.fresh /\ access' = [access EXCEPT !.fresh = FALSE]
    /\ UNCHANGED <<registry, trusted, refresh, call, entered, vouched>>

(***************************************************************************)
(* The list of authorities.                                                *)
(***************************************************************************)
RefreshTrustedList(f) ==
    /\ refresh[f].pc = "idle"
    /\ ~Refusing
    /\ trusted' = [trusted EXCEPT !.pending = TRUE, !.old = trusted.list]
    /\ GetAccessToken
    /\ refresh' = [refresh EXCEPT ![f].pc = IF Cached THEN "list" ELSE "token"]
    /\ vouched' = [last |-> registry.roots, before |-> vouched.last,
                   overlapped |-> vouched.overlapped \/ \E g \in Refreshes : refresh[g].pc # "idle"]
    /\ UNCHANGED <<registry, call, entered, shifts>>

\* With a refused token, the hourly refresh is what ends the process.
RefreshWithoutToken(f) == refresh[f].pc = "idle" /\ Refusing /\ StartAgain

ServeTrustedList(f) ==
    /\ refresh[f].pc = "list"
    /\ refresh' = [refresh EXCEPT ![f] = [pc |-> "served", roots |-> registry.roots]]
    /\ UNCHANGED <<registry, access, trusted, call, entered, shifts, vouched>>

FetchTrustedList(f) ==
    /\ refresh[f].pc = "served"
    /\ trusted' = [trusted EXCEPT !.list = refresh[f].roots, !.pending = FALSE]
    /\ refresh' = [refresh EXCEPT ![f] = Resting]
    /\ UNCHANGED <<registry, access, call, entered, shifts, vouched>>

FetchTrustedListFails(f) == refresh[f].pc \in {"list", "served"} /\ StartAgain

(***************************************************************************)
(* A participant's request: for a login, or for a token of its own.        *)
(***************************************************************************)
Signs(issuer, subject) == <<issuer, subject>> \in Signed

\* The loop ends at the first certificate on the list, and before the last link.
VerifyCertificateChain(chain, list) ==
    LET n == Len(chain)
        signed(i) == \A j \in 1 .. i - 1 : Signs(chain[j + 1], chain[j]) IN
    \/ \E i \in 1 .. n - 2 : signed(i) /\ chain[i] \in list
    \/ signed(IF n > 1 THEN n - 1 ELSE 1) /\ chain[n] \in list

\* (mutant) The list of before the refresh, also when it has ended.
TrustedListOfBefore == trusted.old
GetTrustedList == IF trusted.pending THEN trusted.old ELSE trusted.list
Authorities == IF trusted.pending THEN vouched.before ELSE vouched.last
Ends(p, pc) == call' = [call EXCEPT ![p].pc = pc]
OthersStay == UNCHANGED <<registry, trusted, refresh, entered, shifts, vouched>>

Arrive(p) ==
    /\ call[p].pc = "none"
    /\ \E kind \in {"authorize", "token"}, c \in Clients, chain \in Chains :
        call' = [call EXCEPT ![p] = [Idle EXCEPT
                    !.pc = "assert", !.kind = kind, !.client = c, !.chain = chain,
                    !.member = <<c, chain[1]>> \in registry.members]]
    /\ UNCHANGED access /\ OthersStay

\* Its claims may be wrong; and before the first list there is none to look at.
AssertClientRefused(p) == call[p].pc = "assert" /\ Ends(p, "refused") /\ UNCHANGED access /\ OthersStay

AssertClient(p) ==
    /\ call[p].pc = "assert"
    /\ GetTrustedList # None /\ VerifyCertificateChain(call[p].chain, GetTrustedList)
    /\ GetAccessToken
    /\ call' = [call EXCEPT
            ![p].pc = IF Refusing THEN "refused" ELSE IF Cached THEN "parties" ELSE "token",
            ![p].anchored = vouched.overlapped \/ \E i \in DOMAIN call[p].chain : call[p].chain[i] \in Authorities]
    /\ OthersStay

\* The registry is asked about the participant and its certificate.
ValidateParticipant(p) ==
    /\ call[p].pc = "parties"
    /\ <<call[p].client, call[p].chain[1]>> \in registry.members
    /\ Ends(p, "application") /\ UNCHANGED access /\ OthersStay

ValidateParticipantRefused(p) ==
    call[p].pc = "parties" /\ Ends(p, "refused") /\ UNCHANGED access /\ OthersStay

Enters(p, what, pc) ==
    /\ entered' = entered \union {<<what, call[p].client>>}
    /\ Ends(p, pc)
    /\ UNCHANGED <<registry, access, trusted, refresh, shifts, vouched>>

EnsureClientApplication(p) ==
    /\ call[p].pc = "application"
    /\ Enters(p, "application", IF call[p].kind = "authorize" THEN "redirected" ELSE "user")
EnsureUser(p) == call[p].pc = "user" /\ Enters(p, "user", "store")
CreateAccessToken(p) == call[p].pc = "store" /\ Enters(p, "token", "tokened")

\* A request to the registry or a statement that fails is no OAuthError: it is thrown
\* again where nobody catches it.
CallFails(p) == call[p].pc \in {"parties", "application", "user", "store"} /\ StartAgain

(***************************************************************************)
(* The registry changes.                                                   *)
(***************************************************************************)
Shift ==
    /\ shifts < MaxShifts /\ shifts' = shifts + 1
    /\ \/ \E c \in Listable :
            registry' = [registry EXCEPT !.roots = IF c \in @ THEN @ \ {c} ELSE @ \union {c}]
       \/ \E m \in Memberships :
            registry' = [registry EXCEPT !.members = IF m \in @ THEN @ \ {m} ELSE @ \union {m}]
    /\ vouched' = [vouched EXCEPT !.last = @ \union registry'.roots,
                                  !.before = @ \union registry'.roots]
    /\ call' = [p \in Callers |-> [call[p] EXCEPT
                    !.member = @ \/ (InFlight(p) /\ <<call[p].client, call[p].chain[1]>> \in registry'.members)]]
    /\ UNCHANGED <<access, trusted, refresh, entered>>

ParticipantStep ==
    \/ FetchAccessToken \/ FetchAccessTokenRefused \/ FetchAccessTokenFails \/ AccessTokenExpires
    \/ \E f \in Refreshes : RefreshTrustedList(f) \/ RefreshWithoutToken(f)
            \/ ServeTrustedList(f) \/ FetchTrustedList(f) \/ FetchTrustedListFails(f)
    \/ \E p \in Callers : Arrive(p) \/ AssertClient(p) \/ AssertClientRefused(p)
            \/ ValidateParticipant(p) \/ ValidateParticipantRefused(p) \/ EnsureClientApplication(p)
            \/ EnsureUser(p) \/ CreateAccessToken(p) \/ CallFails(p)
    \/ Shift

ParticipantInit ==
    /\ \E roots \in SUBSET Listable, members \in SUBSET Memberships :
        /\ registry = [roots |-> roots, members |-> members]
        /\ vouched = [last |-> roots, before |-> {}, overlapped |-> FALSE]
    /\ access = AtStart.access /\ trusted = AtStart.trusted /\ refresh = AtStart.refresh
    /\ call = [p \in Callers |-> Idle] /\ entered = {} /\ shifts = 0

ParticipantSpec == ParticipantInit /\ [][ParticipantStep]_participantVars

(***************************************************************************)
(* Properties.                                                             *)
(***************************************************************************)
\* Whoever is let in was a member at some time since the request came, with a chain that
\* holds an authority the registry has named since the refresh the list in use comes from:
\* the last one, or while that is under way the one before.  (Two refreshes may overlap and
\* answer in the wrong order; lists as old as that are excused.)  And a participant has a
\* token only with the application and the account it is made out to.
ParticipantsAreVouchedFor ==
    /\ \A p \in Callers :
        call[p].pc \in {"application", "user", "store", "redirected", "tokened"} =>
            call[p].member /\ call[p].anchored
    /\ \A c \in Clients : <<"token", c>> \in entered =>
            {<<"application", c>>, <<"user", c>>} \subseteq entered
=============================================================================
