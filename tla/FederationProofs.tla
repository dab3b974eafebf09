-------------------------- MODULE FederationProofs --------------------------
(***************************************************************************)
(* Proofs about what Keyrock does on the word of others: participants of a *)
(* data space, delegation evidence, and national identities.               *)
(***************************************************************************)
EXTENDS Participants, Delegation, Eidas, TLAPS

(***************************************************************************)
(* Participants: the trusted list.  Unless two refreshes have overlapped,  *)
(* the list in use, and the one that a refresh has been served, hold only  *)
(* authorities the registry has named since that refresh set out.          *)
(***************************************************************************)
Roots == {None} \union SUBSET Listable
RegistryType == [roots: SUBSET Listable, members: SUBSET Memberships]
TrustedType == [pending: BOOLEAN, list: Roots, old: Roots]
RefreshType == [pc: {"idle", "token", "list", "served"}, roots: SUBSET Listable]
VouchedType == [last: SUBSET Listable, before: SUBSET Listable, overlapped: BOOLEAN]
Running(f) == refresh[f].pc # "idle"

ListTypes ==
    /\ registry \in RegistryType /\ trusted \in TrustedType
    /\ refresh \in [Refreshes -> RefreshType] /\ vouched \in VouchedType
OneAtATime ==
    /\ trusted.pending <=> \E f \in Refreshes : Running(f)
    /\ \A f, g \in Refreshes : Running(f) /\ Running(g) => f = g
ListsVouched ==
    /\ ~trusted.pending /\ trusted.list # None => trusted.list \subseteq vouched.last
    /\ trusted.pending /\ trusted.old # None => trusted.old \subseteq vouched.before
    /\ \A f \in Refreshes : refresh[f].pc = "served" => refresh[f].roots \subseteq vouched.last
ListInv ==
    /\ ListTypes
    /\ registry.roots \subseteq vouched.last
    /\ ~vouched.overlapped => OneAtATime /\ ListsVouched

\* The process as it starts.
AtFirst == /\ trusted = AtStart.trusted /\ refresh = AtStart.refresh
           /\ vouched = [last |-> registry.roots, before |-> {}, overlapped |-> FALSE]

LEMMA StartedListInv == registry \in RegistryType /\ AtFirst => ListInv
<1> SUFFICES ASSUME registry \in RegistryType, AtFirst PROVE ListInv
  OBVIOUS
<1>1. First \in Refreshes
  BY ParticipantsAssumption DEF First
<1>2. trusted = [pending |-> TRUE, list |-> None, old |-> None]
  BY DEF AtFirst, AtStart
<1>3. refresh = [f \in Refreshes |-> IF f = First THEN [Resting EXCEPT !.pc = "token"] ELSE Resting]
  BY DEF AtFirst, AtStart
<1>4. /\ [Resting EXCEPT !.pc = "token"] = [pc |-> "token", roots |-> {}]
      /\ Resting = [pc |-> "idle", roots |-> {}]
  BY DEF Resting
<1>5. refresh \in [Refreshes -> RefreshType]
  BY <1>3, <1>4 DEF RefreshType
<1>6. /\ refresh[First].pc = "token"
      /\ \A f \in Refreshes \ {First} : refresh[f].pc = "idle"
  BY <1>1, <1>3, <1>4
<1>7. trusted \in TrustedType /\ trusted.pending /\ trusted.old = None
  BY <1>2 DEF TrustedType, Roots
<1>8. /\ vouched \in VouchedType /\ registry.roots \subseteq vouched.last
      /\ registry.roots \subseteq Listable
  BY DEF AtFirst, VouchedType, RegistryType
<1>9. ListTypes
  BY <1>5, <1>7, <1>8 DEF ListTypes
<1>10. OneAtATime
  BY <1>1, <1>6, <1>7 DEF OneAtATime, Running
<1>11. ListsVouched
  BY <1>1, <1>6, <1>7 DEF ListsVouched
<1> QED BY <1>8, <1>9, <1>10, <1>11 DEF ListInv

LEMMA StartAgainListInv ==
  ASSUME ListInv, StartAgain
  PROVE  ListInv'
<1>1. registry' \in RegistryType
  BY DEF StartAgain, ListInv, ListTypes
<1>2. AtFirst'
  BY DEF StartAgain, AtFirst, AtStart
<1>3. (registry \in RegistryType /\ AtFirst => ListInv)'
  BY StartedListInv, PTL
<1> QED BY <1>1, <1>2, <1>3

\* What a change at the registry adds is counted at once.
LEMMA ShiftListInv ==
  ASSUME ListInv, Shift
  PROVE  ListInv'
<1>1. registry \in RegistryType /\ vouched \in VouchedType
  BY DEF ListInv, ListTypes
<1>2. registry' \in RegistryType
  <2>1. CASE \E c \in Listable :
            registry' = [registry EXCEPT !.roots = IF c \in @ THEN @ \ {c} ELSE @ \union {c}]
    BY <1>1, <2>1 DEF RegistryType
  <2>2. CASE \E m \in Memberships :
            registry' = [registry EXCEPT !.members = IF m \in @ THEN @ \ {m} ELSE @ \union {m}]
    BY <1>1, <2>2 DEF RegistryType
  <2> QED BY <2>1, <2>2 DEF Shift
<1>3. registry'.roots \subseteq Listable
  BY <1>2 DEF RegistryType
<1>4. vouched' = [vouched EXCEPT !.last = @ \union registry'.roots, !.before = @ \union registry'.roots]
  BY DEF Shift
<1>5. /\ vouched' \in VouchedType /\ vouched'.overlapped = vouched.overlapped
      /\ registry'.roots \subseteq vouched'.last
      /\ vouched.last \subseteq vouched'.last /\ vouched.before \subseteq vouched'.before
  BY <1>1, <1>3, <1>4 DEF VouchedType
<1>6. UNCHANGED <<trusted, refresh>>
  BY DEF Shift
<1>7. ListTypes'
  BY <1>2, <1>5, <1>6 DEF ListInv, ListTypes
<1>8. ~vouched'.overlapped => OneAtATime' /\ ListsVouched'
  BY <1>5, <1>6 DEF ListInv, OneAtATime, Running, ListsVouched
<1> QED BY <1>5, <1>7, <1>8 DEF ListInv

LEMMA TokenListInv ==
  ASSUME ListInv, FetchAccessToken
  PROVE  ListInv'
<1>1. /\ refresh' = [f \in Refreshes |-> IF refresh[f].pc = "token"
                                       THEN [refresh[f] EXCEPT !.pc = "list"] ELSE refresh[f]]
      /\ UNCHANGED <<registry, trusted, vouched>>
  BY DEF FetchAccessToken
<1>2. refresh \in [Refreshes -> RefreshType]
  BY DEF ListInv, ListTypes
<1>3. refresh' \in [Refreshes -> RefreshType]
  BY <1>1, <1>2 DEF RefreshType
<1>4. \A f \in Refreshes : /\ refresh'[f].pc # "idle" <=> refresh[f].pc # "idle"
                           /\ refresh'[f].roots = refresh[f].roots
                           /\ refresh'[f].pc = "served" => refresh[f].pc = "served"
  BY <1>1, <1>2 DEF RefreshType
<1>5. ListTypes'
  BY <1>1, <1>3 DEF ListInv, ListTypes
<1>6. ~vouched'.overlapped => OneAtATime' /\ ListsVouched'
  BY <1>1, <1>4 DEF ListInv, OneAtATime, Running, ListsVouched
<1> QED BY <1>1, <1>5, <1>6 DEF ListInv

LEMMA RefreshListInv ==
  ASSUME ListInv, NEW f \in Refreshes, RefreshTrustedList(f)
  PROVE  ListInv'
<1>1. /\ refresh[f].pc = "idle"
      /\ trusted' = [trusted EXCEPT !.pending = TRUE, !.old = trusted.list]
      /\ refresh' = [refresh EXCEPT ![f].pc = IF Cached THEN "list" ELSE "token"]
      /\ vouched' = [last |-> registry.roots, before |-> vouched.last,
                     overlapped |-> vouched.overlapped \/ \E g \in Refreshes : refresh[g].pc # "idle"]
      /\ UNCHANGED registry
  BY DEF RefreshTrustedList
<1>2. /\ refresh \in [Refreshes -> RefreshType] /\ trusted \in TrustedType
      /\ vouched \in VouchedType /\ registry \in RegistryType
  BY DEF ListInv, ListTypes
<1>3. PICK pc \in {"list", "token"} : refresh' = [refresh EXCEPT ![f].pc = pc]
  BY <1>1
<1>4. /\ refresh' \in [Refreshes -> RefreshType] /\ refresh'[f].pc = pc
      /\ \A g \in Refreshes \ {f} : refresh'[g] = refresh[g]
  BY <1>2, <1>3 DEF RefreshType
<1>5. trusted' \in TrustedType /\ trusted'.pending /\ trusted'.old = trusted.list
  BY <1>1, <1>2 DEF TrustedType
<1>6. /\ vouched' \in VouchedType /\ vouched'.last = registry.roots /\ vouched'.before = vouched.last
      /\ ~vouched'.overlapped => ~vouched.overlapped /\ \A g \in Refreshes : refresh[g].pc = "idle"
  <2>1. PICK b \in BOOLEAN : b <=> (vouched.overlapped \/ \E g \in Refreshes : refresh[g].pc # "idle")
    OBVIOUS
  <2>2. vouched' = [last |-> registry.roots, before |-> vouched.last, overlapped |-> b]
    BY <1>1, <2>1, Zenon
  <2> QED BY <1>2, <2>1, <2>2 DEF VouchedType, RegistryType
<1>7. ListTypes'
  BY <1>1, <1>2, <1>4, <1>5, <1>6 DEF ListTypes
<1>8. ASSUME ~vouched'.overlapped PROVE OneAtATime' /\ ListsVouched'
  <2>1. /\ ~trusted.pending
        /\ trusted.list # None => trusted.list \subseteq vouched.last
    BY <1>6, <1>8 DEF ListInv, OneAtATime, Running, ListsVouched
  <2>2. OneAtATime'
    BY <1>4, <1>5, <1>6, <1>8 DEF OneAtATime, Running
  <2>3. \A g \in Refreshes : refresh'[g].pc # "served"
    BY <1>4, <1>6, <1>8
  <2>4. ListsVouched'
    BY <1>5, <1>6, <2>1, <2>3 DEF ListsVouched
  <2> QED BY <2>2, <2>4
<1> QED BY <1>1, <1>6, <1>7, <1>8 DEF ListInv

LEMMA ServeListInv ==
  ASSUME ListInv, NEW f \in Refreshes, ServeTrustedList(f)
  PROVE  ListInv'
<1>1. /\ refresh[f].pc = "list"
      /\ refresh' = [refresh EXCEPT ![f] = [pc |-> "served", roots |-> registry.roots]]
      /\ UNCHANGED <<registry, trusted, vouched>>
  BY DEF ServeTrustedList
<1>2. /\ refresh \in [Refreshes -> RefreshType] /\ registry \in RegistryType
  BY DEF ListInv, ListTypes
<1>3. /\ refresh' \in [Refreshes -> RefreshType] /\ refresh'[f].pc = "served"
      /\ refresh'[f].roots = registry.roots
      /\ \A g \in Refreshes \ {f} : refresh'[g] = refresh[g]
  BY <1>1, <1>2 DEF RefreshType, RegistryType
<1>4. ListTypes'
  BY <1>1, <1>3 DEF ListInv, ListTypes
<1>5. \A g \in Refreshes : Running(g)' <=> Running(g)
  BY <1>1, <1>3 DEF Running
<1>6. ASSUME ~vouched'.overlapped PROVE OneAtATime' /\ ListsVouched'
  <2>1. OneAtATime'
    BY <1>1, <1>5, <1>6 DEF ListInv, OneAtATime
  <2>2. ListsVouched'
    BY <1>1, <1>3, <1>6 DEF ListInv, ListsVouched
  <2> QED BY <2>1, <2>2
<1> QED BY <1>1, <1>4, <1>6 DEF ListInv

LEMMA FetchListInv ==
  ASSUME ListInv, NEW f \in Refreshes, FetchTrustedList(f)
  PROVE  ListInv'
<1>1. /\ refresh[f].pc = "served"
      /\ trusted' = [trusted EXCEPT !.list = refresh[f].roots, !.pending = FALSE]
      /\ refresh' = [refresh EXCEPT ![f] = Resting]
      /\ UNCHANGED <<registry, vouched>>
  BY DEF FetchTrustedList
<1>2. refresh \in [Refreshes -> RefreshType] /\ trusted \in TrustedType
  BY DEF ListInv, ListTypes
<1>3. /\ refresh' \in [Refreshes -> RefreshType] /\ refresh'[f].pc = "idle"
      /\ \A g \in Refreshes \ {f} : refresh'[g] = refresh[g]
  BY <1>1, <1>2 DEF RefreshType, Resting
<1>4. trusted' \in TrustedType /\ ~trusted'.pending /\ trusted'.list = refresh[f].roots
  BY <1>1, <1>2 DEF TrustedType, RefreshType, Roots
<1>5. ListTypes'
  BY <1>1, <1>3, <1>4 DEF ListInv, ListTypes
<1>6. ASSUME ~vouched'.overlapped PROVE OneAtATime' /\ ListsVouched'
  <2>1. OneAtATime /\ ListsVouched
    BY <1>1, <1>6 DEF ListInv
  <2>2. \A g \in Refreshes : refresh'[g].pc = "idle"
    BY <1>1, <1>3, <2>1 DEF OneAtATime, Running
  <2>3. refresh[f].roots \subseteq vouched.last
    BY <1>1, <2>1 DEF ListsVouched
  <2>4. OneAtATime'
    BY <1>4, <2>2 DEF OneAtATime, Running
  <2>5. ListsVouched'
    BY <1>1, <1>4, <2>2, <2>3 DEF ListsVouched
  <2> QED BY <2>4, <2>5
<1> QED BY <1>1, <1>5, <1>6 DEF ListInv

LEMMA ListInvStep ==
  ASSUME ListInv, [ParticipantStep]_participantVars
  PROVE  ListInv'
<1>1. CASE UNCHANGED <<registry, trusted, refresh, vouched>>
  BY <1>1 DEF ListInv, ListTypes, OneAtATime, Running, ListsVouched
<1>2. CASE StartAgain
  BY <1>2, StartAgainListInv
<1>3. CASE FetchAccessToken
  BY <1>3, TokenListInv
<1>4. CASE Shift
  BY <1>4, ShiftListInv
<1>5. CASE FetchAccessTokenRefused \/ FetchAccessTokenFails \/ AccessTokenExpires
  BY <1>1, <1>2, <1>5 DEF FetchAccessTokenRefused, FetchAccessTokenFails, AccessTokenExpires
<1>6. ASSUME NEW f \in Refreshes,
             RefreshTrustedList(f) \/ RefreshWithoutToken(f)
                \/ ServeTrustedList(f) \/ FetchTrustedList(f) \/ FetchTrustedListFails(f)
      PROVE  ListInv'
  <2>1. CASE RefreshTrustedList(f)
    BY <2>1, RefreshListInv
  <2>2. CASE ServeTrustedList(f)
    BY <2>2, ServeListInv
  <2>3. CASE FetchTrustedList(f)
    BY <2>3, FetchListInv
  <2>4. CASE RefreshWithoutToken(f) \/ FetchTrustedListFails(f)
    BY <1>2, <2>4 DEF RefreshWithoutToken, FetchTrustedListFails
  <2> QED BY <1>6, <2>1, <2>2, <2>3, <2>4
<1>7. ASSUME NEW p \in Callers,
             Arrive(p) \/ AssertClient(p) \/ AssertClientRefused(p)
                \/ ValidateParticipant(p) \/ ValidateParticipantRefused(p)
      PROVE  ListInv'
  BY <1>1, <1>7 DEF Arrive, AssertClient, AssertClientRefused, ValidateParticipant,
       ValidateParticipantRefused, OthersStay
<1>8. ASSUME NEW p \in Callers,
             EnsureClientApplication(p) \/ EnsureUser(p) \/ CreateAccessToken(p) \/ CallFails(p)
      PROVE  ListInv'
  BY <1>1, <1>2, <1>8 DEF EnsureClientApplication, EnsureUser, CreateAccessToken, CallFails, Enters
<1>9. CASE UNCHANGED participantVars
  BY <1>1, <1>9 DEF participantVars
<1> QED BY <1>3, <1>4, <1>5, <1>6, <1>7, <1>8, <1>9 DEF ParticipantStep

(***************************************************************************)
(* Participants: the requests.                                             *)
(***************************************************************************)
CallPcs == {"none", "assert", "token", "parties", "application", "user", "store",
            "redirected", "tokened", "refused", "lost"}
CallRec == [pc: CallPcs, kind: {"none", "authorize", "token"}, client: Clients \union {None},
            chain: Chains \union {<<>>}, anchored: BOOLEAN, member: BOOLEAN]

\* What a request has shown where it stands, and what has been entered for it.
CallOK(c, members, rows) ==
    /\ c.pc \notin {"none", "refused", "redirected", "tokened", "lost"} =>
            /\ c.client \in Clients /\ c.chain \in Chains
            /\ <<c.client, c.chain[1]>> \in members => c.member
    /\ c.pc \in {"token", "parties", "application", "user", "store", "redirected", "tokened"} =>
            c.anchored
    /\ c.pc \in {"application", "user", "store", "redirected", "tokened"} => c.member
    /\ c.pc \in {"user", "store"} => <<"application", c.client>> \in rows
    /\ c.pc = "store" => <<"user", c.client>> \in rows
TokensHaveAccounts(rows) ==
    \A c \in Clients : <<"token", c>> \in rows => {<<"application", c>>, <<"user", c>>} \subseteq rows
CallInv ==
    /\ call \in [Callers -> CallRec]
    /\ \A p \in Callers : CallOK(call[p], registry.members, entered)
    /\ TokensHaveAccounts(entered)

\* The chain is followed to a certificate on the list.
LEMMA VerifiedChains ==
  ASSUME NEW chain \in Chains, NEW list, VerifyCertificateChain(chain, list)
  PROVE  \E i \in DOMAIN chain : chain[i] \in list
<1>1. chain \in Seq(Certificates) /\ chain # <<>>
  BY ParticipantsAssumption
<1>2. Len(chain) \in Nat \ {0} /\ DOMAIN chain = 1 .. Len(chain)
  BY <1>1
<1> QED BY <1>2 DEF VerifyCertificateChain

\* A list in use, from refreshes that have not overlapped, names authorities of its time.
LEMMA ListsInUse ==
  ASSUME ListInv, ~vouched.overlapped, GetTrustedList # None
  PROVE  GetTrustedList \subseteq Authorities
BY DEF ListInv, ListsVouched, ListTypes, TrustedType, GetTrustedList, Authorities

LEMMA StartAgainCallInv ==
  ASSUME CallInv, StartAgain
  PROVE  CallInv'
<1>1. /\ call' = [p \in Callers |-> IF InFlight(p) THEN [call[p] EXCEPT !.pc = "lost"] ELSE call[p]]
      /\ UNCHANGED <<registry, entered>>
  BY DEF StartAgain
<1>2. ASSUME NEW p \in Callers
      PROVE  call'[p] \in CallRec /\ CallOK(call'[p], registry.members, entered)
  <2>1. call[p] \in CallRec /\ CallOK(call[p], registry.members, entered)
    BY DEF CallInv
  <2>2. CASE InFlight(p)
    <3>1. call'[p] = [call[p] EXCEPT !.pc = "lost"]
      BY <1>1, <2>2
    <3> QED BY <2>1, <3>1 DEF CallRec, CallPcs, CallOK
  <2>3. CASE ~InFlight(p)
    BY <1>1, <2>1, <2>3
  <2> QED BY <2>2, <2>3
<1>3. call' \in [Callers -> CallRec]
  <2>1. call' = [p \in Callers |-> call'[p]]
    BY <1>1
  <2> QED BY <1>2, <2>1
<1> QED BY <1>1, <1>2, <1>3 DEF CallInv

LEMMA TokenCallInv ==
  ASSUME CallInv, NEW from \in {"token"}, NEW pc \in {"parties", "refused"},
         call' = [p \in Callers |-> IF call[p].pc = from THEN [call[p] EXCEPT !.pc = pc] ELSE call[p]],
         UNCHANGED <<registry, entered>>
  PROVE  CallInv'
<1>1. ASSUME NEW p \in Callers
      PROVE  call'[p] \in CallRec /\ CallOK(call'[p], registry.members, entered)
  <2>1. call[p] \in CallRec /\ CallOK(call[p], registry.members, entered)
    BY DEF CallInv
  <2>2. CASE call[p].pc = from
    <3>1. call'[p] = [call[p] EXCEPT !.pc = pc]
      BY <2>2
    <3> QED BY <2>1, <2>2, <3>1 DEF CallRec, CallPcs, CallOK
  <2>3. CASE call[p].pc # from
    BY <2>1, <2>3
  <2> QED BY <2>2, <2>3
<1>2. call' \in [Callers -> CallRec]
  <2>1. call' = [p \in Callers |-> call'[p]]
    OBVIOUS
  <2> QED BY <1>1, <2>1
<1> QED BY <1>1, <1>2 DEF CallInv

\* One request goes on, and leaves rows behind.
LEMMA OneCallInv ==
  ASSUME CallInv, NEW p \in Callers, NEW c \in CallRec,
         call' = [call EXCEPT ![p] = c], UNCHANGED registry, entered \subseteq entered',
         CallOK(c, registry.members, entered'), TokensHaveAccounts(entered')
  PROVE  CallInv'
<1>1. call' \in [Callers -> CallRec] /\ call'[p] = c
  BY DEF CallInv
<1>2. \A q \in Callers \ {p} : call'[q] = call[q] /\ CallOK(call[q], registry.members, entered)
  BY DEF CallInv
<1>3. \A q \in Callers \ {p} : CallOK(call'[q], registry.members, entered')
  BY <1>2 DEF CallOK
<1> QED BY <1>1, <1>3 DEF CallInv

LEMMA ShiftCallInv ==
  ASSUME CallInv, Shift
  PROVE  CallInv'
<1>1. /\ call' = [p \in Callers |-> [call[p] EXCEPT
                    !.member = @ \/ (InFlight(p) /\ <<call[p].client, call[p].chain[1]>> \in registry'.members)]]
      /\ UNCHANGED entered
  BY DEF Shift
<1>2. ASSUME NEW p \in Callers
      PROVE  call'[p] \in CallRec /\ CallOK(call'[p], registry'.members, entered)
  <2>1. call[p] \in CallRec /\ CallOK(call[p], registry.members, entered)
    BY DEF CallInv
  <2>2. PICK b \in BOOLEAN : b <=> (call[p].member \/ (InFlight(p) /\ <<call[p].client, call[p].chain[1]>> \in registry'.members))
    OBVIOUS
  <2>3. b = (call[p].member \/ (InFlight(p) /\ <<call[p].client, call[p].chain[1]>> \in registry'.members))
    BY <2>1, <2>2 DEF CallRec
  <2>4. call'[p] = [call[p] EXCEPT !.member = b]
    BY <1>1, <2>3, Zenon
  <2>5. /\ call'[p].pc = call[p].pc /\ call'[p].client = call[p].client
        /\ call'[p].chain = call[p].chain /\ call'[p].anchored = call[p].anchored
        /\ call'[p].member = b /\ call'[p] \in CallRec
    BY <2>1, <2>4 DEF CallRec
  <2> QED BY <2>1, <2>2, <2>5 DEF CallOK, InFlight
<1>3. call' \in [Callers -> CallRec]
  <2>1. call' = [p \in Callers |-> call'[p]]
    BY <1>1
  <2> QED BY <1>2, <2>1
<1> QED BY <1>1, <1>2, <1>3 DEF CallInv

LEMMA ArriveCallInv ==
  ASSUME CallInv, NEW p \in Callers, Arrive(p)
  PROVE  CallInv'
<1>1. PICK kind \in {"authorize", "token"}, c \in Clients, chain \in Chains :
        call' = [call EXCEPT ![p] = [Idle EXCEPT
                    !.pc = "assert", !.kind = kind, !.client = c, !.chain = chain,
                    !.member = <<c, chain[1]>> \in registry.members]]
  BY DEF Arrive
<1>2. PICK b \in BOOLEAN : b = (<<c, chain[1]>> \in registry.members)
  BY (<<c, chain[1]>> \in registry.members) \in BOOLEAN, Zenon
<1>3. PICK r : r = [Idle EXCEPT !.pc = "assert", !.kind = kind, !.client = c, !.chain = chain, !.member = b]
  OBVIOUS
<1>4. call' = [call EXCEPT ![p] = r]
  BY <1>1, <1>2, <1>3, Zenon
<1>5. /\ r \in CallRec /\ r.pc = "assert" /\ r.client = c /\ r.chain = chain /\ r.member = b
  BY <1>3 DEF Idle, CallRec, CallPcs
<1>6. UNCHANGED <<registry, entered>>
  BY DEF Arrive, OthersStay
<1>7. CallOK(r, registry.members, entered)
  BY <1>2, <1>5 DEF CallOK
<1>8. TokensHaveAccounts(entered)
  BY DEF CallInv
<1> QED BY <1>4, <1>5, <1>6, <1>7, <1>8, OneCallInv

\* The chain leads to an authority the registry has named, or refreshes have overlapped.
LEMMA AssertCallInv ==
  ASSUME ListInv, CallInv, NEW p \in Callers, AssertClient(p)
  PROVE  CallInv'
<1>1. call[p] \in CallRec /\ CallOK(call[p], registry.members, entered) /\ TokensHaveAccounts(entered)
  BY DEF CallInv
<1>2. call[p].pc = "assert" /\ call[p].chain \in Chains
  BY <1>1 DEF AssertClient, CallOK
<1>3. vouched.overlapped \/ \E i \in DOMAIN call[p].chain : call[p].chain[i] \in Authorities
  <2>1. \E i \in DOMAIN call[p].chain : call[p].chain[i] \in GetTrustedList
    BY <1>2, VerifiedChains DEF AssertClient
  <2>2. GetTrustedList # None
    BY DEF AssertClient
  <2> QED BY <2>1, <2>2, ListsInUse
<1>4. PICK pc \in {"refused", "parties", "token"} :
        pc = (IF Refusing THEN "refused" ELSE IF Cached THEN "parties" ELSE "token")
  OBVIOUS
<1>5. call' = [call EXCEPT
            ![p].pc = IF Refusing THEN "refused" ELSE IF Cached THEN "parties" ELSE "token",
            ![p].anchored = vouched.overlapped \/ \E i \in DOMAIN call[p].chain : call[p].chain[i] \in Authorities]
  BY DEF AssertClient
<1>6. PICK b \in BOOLEAN : b = (vouched.overlapped \/ \E i \in DOMAIN call[p].chain : call[p].chain[i] \in Authorities)
  OBVIOUS
<1>7. call' = [call EXCEPT ![p].pc = pc, ![p].anchored = b]
  BY <1>4, <1>5, <1>6, Zenon
<1>8. PICK r : r = [call[p] EXCEPT !.pc = pc, !.anchored = b]
  OBVIOUS
<1>9. call' = [call EXCEPT ![p] = r]
  BY <1>7, <1>8 DEF CallInv
<1>10. b
  BY <1>3, <1>6
<1>11. /\ r \in CallRec /\ r.pc = pc /\ r.anchored /\ r.client = call[p].client
       /\ r.chain = call[p].chain /\ r.member = call[p].member
  BY <1>1, <1>8, <1>10 DEF CallRec, CallPcs
<1>12. UNCHANGED <<registry, entered>>
  BY DEF AssertClient, OthersStay
<1>13. CallOK(r, registry.members, entered)
  BY <1>1, <1>2, <1>11 DEF CallOK
<1> QED BY <1>1, <1>9, <1>11, <1>12, <1>13, OneCallInv

\* A step to another place in the program, with what is due there.
LEMMA EndsCallInv ==
  ASSUME CallInv, NEW p \in Callers, NEW pc \in CallPcs, Ends(p, pc),
         UNCHANGED registry, entered \subseteq entered', TokensHaveAccounts(entered'),
         CallOK([call[p] EXCEPT !.pc = pc], registry.members, entered')
  PROVE  CallInv'
<1>1. PICK r : r = [call[p] EXCEPT !.pc = pc]
  OBVIOUS
<1>2. call' = [call EXCEPT ![p] = r]
  BY <1>1 DEF Ends, CallInv
<1>3. r \in CallRec
  BY <1>1 DEF CallInv, CallRec
<1> QED BY <1>1, <1>2, <1>3, OneCallInv

LEMMA RefusedCallInv ==
  ASSUME CallInv, NEW p \in Callers, Ends(p, "refused"), UNCHANGED <<registry, entered>>
  PROVE  CallInv'
<1>1. call[p] \in CallRec /\ TokensHaveAccounts(entered)
  BY DEF CallInv
<1>2. CallOK([call[p] EXCEPT !.pc = "refused"], registry.members, entered)
  BY <1>1 DEF CallRec, CallOK
<1> QED BY <1>1, <1>2, EndsCallInv DEF CallPcs

LEMMA ValidateCallInv ==
  ASSUME CallInv, NEW p \in Callers, ValidateParticipant(p)
  PROVE  CallInv'
<1>1. /\ call[p] \in CallRec /\ CallOK(call[p], registry.members, entered)
      /\ TokensHaveAccounts(entered)
  BY DEF CallInv
<1>2. call[p].pc = "parties" /\ <<call[p].client, call[p].chain[1]>> \in registry.members
  BY DEF ValidateParticipant
<1>3. CallOK([call[p] EXCEPT !.pc = "application"], registry.members, entered)
  BY <1>1, <1>2 DEF CallRec, CallOK
<1>4. Ends(p, "application") /\ UNCHANGED <<registry, entered>>
  BY DEF ValidateParticipant, OthersStay
<1> QED BY <1>1, <1>3, <1>4, EndsCallInv DEF CallPcs

LEMMA EntersCallInv ==
  ASSUME CallInv, NEW p \in Callers,
         EnsureClientApplication(p) \/ EnsureUser(p) \/ CreateAccessToken(p)
  PROVE  CallInv'
<1>1. /\ call[p] \in CallRec /\ CallOK(call[p], registry.members, entered)
      /\ TokensHaveAccounts(entered)
  BY DEF CallInv
<1>2. CASE EnsureClientApplication(p)
  <2>1. PICK pc \in {"redirected", "user"} :
            pc = (IF call[p].kind = "authorize" THEN "redirected" ELSE "user")
    OBVIOUS
  <2>2. /\ call[p].pc = "application" /\ Ends(p, pc) /\ UNCHANGED registry
        /\ entered' = entered \union {<<"application", call[p].client>>}
    BY <1>2, <2>1 DEF EnsureClientApplication, Enters
  <2>3. TokensHaveAccounts(entered')
    BY <1>1, <2>2 DEF TokensHaveAccounts
  <2>4. CallOK([call[p] EXCEPT !.pc = pc], registry.members, entered')
    BY <1>1, <2>2 DEF CallRec, CallOK
  <2> QED BY <2>2, <2>3, <2>4, EndsCallInv DEF CallPcs
<1>3. CASE EnsureUser(p)
  <2>1. /\ call[p].pc = "user" /\ Ends(p, "store") /\ UNCHANGED registry
        /\ entered' = entered \union {<<"user", call[p].client>>}
    BY <1>3 DEF EnsureUser, Enters
  <2>2. TokensHaveAccounts(entered')
    BY <1>1, <2>1 DEF TokensHaveAccounts
  <2>3. CallOK([call[p] EXCEPT !.pc = "store"], registry.members, entered')
    BY <1>1, <2>1 DEF CallRec, CallOK
  <2> QED BY <2>1, <2>2, <2>3, EndsCallInv DEF CallPcs
<1>4. CASE CreateAccessToken(p)
  <2>1. /\ call[p].pc = "store" /\ Ends(p, "tokened") /\ UNCHANGED registry
        /\ entered' = entered \union {<<"token", call[p].client>>}
    BY <1>4 DEF CreateAccessToken, Enters
  <2>2. TokensHaveAccounts(entered')
    BY <1>1, <2>1 DEF TokensHaveAccounts, CallOK
  <2>3. CallOK([call[p] EXCEPT !.pc = "tokened"], registry.members, entered')
    BY <1>1, <2>1 DEF CallRec, CallOK
  <2> QED BY <2>1, <2>2, <2>3, EndsCallInv DEF CallPcs
<1> QED BY <1>2, <1>3, <1>4

LEMMA CallInvStep ==
  ASSUME ListInv, CallInv, [ParticipantStep]_participantVars
  PROVE  CallInv'
<1>1. CASE UNCHANGED <<registry, call, entered>>
  BY <1>1 DEF CallInv
<1>2. CASE StartAgain
  BY <1>2, StartAgainCallInv
<1>3. CASE FetchAccessToken
  BY <1>3, TokenCallInv DEF FetchAccessToken
<1>4. CASE FetchAccessTokenRefused
  BY <1>2, <1>4, TokenCallInv DEF FetchAccessTokenRefused
<1>5. CASE Shift
  BY <1>5, ShiftCallInv
<1>6. CASE FetchAccessTokenFails \/ AccessTokenExpires
  BY <1>1, <1>2, <1>6 DEF FetchAccessTokenFails, AccessTokenExpires
<1>7. ASSUME NEW f \in Refreshes,
             RefreshTrustedList(f) \/ RefreshWithoutToken(f)
                \/ ServeTrustedList(f) \/ FetchTrustedList(f) \/ FetchTrustedListFails(f)
      PROVE  CallInv'
  BY <1>1, <1>2, <1>7 DEF RefreshTrustedList, RefreshWithoutToken, ServeTrustedList,
       FetchTrustedList, FetchTrustedListFails
<1>8. ASSUME NEW p \in Callers,
             Arrive(p) \/ AssertClient(p) \/ AssertClientRefused(p)
                \/ ValidateParticipant(p) \/ ValidateParticipantRefused(p)
      PROVE  CallInv'
  <2>1. CASE Arrive(p)
    BY <2>1, ArriveCallInv
  <2>2. CASE AssertClient(p)
    BY <2>2, AssertCallInv
  <2>3. CASE ValidateParticipant(p)
    BY <2>3, ValidateCallInv
  <2>4. CASE AssertClientRefused(p) \/ ValidateParticipantRefused(p)
    BY <2>4, RefusedCallInv DEF AssertClientRefused, ValidateParticipantRefused, OthersStay
  <2> QED BY <1>8, <2>1, <2>2, <2>3, <2>4
<1>9. ASSUME NEW p \in Callers,
             EnsureClientApplication(p) \/ EnsureUser(p) \/ CreateAccessToken(p) \/ CallFails(p)
      PROVE  CallInv'
  BY <1>2, <1>9, EntersCallInv DEF CallFails
<1>10. CASE UNCHANGED participantVars
  BY <1>1, <1>10 DEF participantVars
<1> QED BY <1>3, <1>4, <1>5, <1>6, <1>7, <1>8, <1>9, <1>10 DEF ParticipantStep

LEMMA ParticipantsStart ==
  ASSUME ParticipantInit
  PROVE  ListInv /\ CallInv
<1>1. PICK roots \in SUBSET Listable, members \in SUBSET Memberships :
        /\ registry = [roots |-> roots, members |-> members]
        /\ vouched = [last |-> roots, before |-> {}, overlapped |-> FALSE]
  BY DEF ParticipantInit
<1>2. registry \in RegistryType
  BY <1>1 DEF RegistryType
<1>3. AtFirst
  BY <1>1 DEF ParticipantInit, AtFirst
<1>4. /\ call \in [Callers -> CallRec] /\ entered = {}
      /\ \A p \in Callers : call[p].pc = "none"
  BY DEF ParticipantInit, Idle, CallRec, CallPcs
<1>5. CallInv
  BY <1>4 DEF CallInv, CallOK, TokensHaveAccounts
<1> QED BY <1>2, <1>3, <1>5, StartedListInv

\* Whoever is let in as a participant was an active member at some time since its request came,
\* with a certificate whose chain holds an authority the registry has named (validate_participant,
\* verify_certificate_chain), however refreshes of the list, of the access token and ends of the
\* process interleave; and its tokens come with its application and its account.
THEOREM ParticipantsAreVouched == ParticipantSpec => []ParticipantsAreVouchedFor
<1>1. ParticipantInit => ListInv /\ CallInv
  BY ParticipantsStart
<1>2. ListInv /\ CallInv /\ [ParticipantStep]_participantVars => (ListInv /\ CallInv)'
  BY ListInvStep, CallInvStep
<1>3. CallInv => ParticipantsAreVouchedFor
  BY DEF CallInv, CallOK, TokensHaveAccounts, ParticipantsAreVouchedFor
<1> QED BY <1>1, <1>2, <1>3, PTL DEF ParticipantSpec

(***************************************************************************)
(* Types of the caches and of the rows made for participants.              *)
(***************************************************************************)
AccessType == [pending: BOOLEAN, token: {"none", "coming", "kept", "refused"}, fresh: BOOLEAN]
EnteredType == {"application", "user", "token"} \X Clients
AccessInv == access \in AccessType /\ entered \subseteq EnteredType /\ shifts \in 0 .. MaxShifts

LEMMA AccessInvStep ==
  ASSUME CallInv, AccessInv, [ParticipantStep]_participantVars
  PROVE  AccessInv'
<1>1. CASE UNCHANGED <<access, entered, shifts>>
  BY <1>1 DEF AccessInv
<1>2. CASE access' \in AccessType /\ UNCHANGED <<entered, shifts>>
  BY <1>2 DEF AccessInv
<1>3. CASE StartAgain
  <2>1. access' \in AccessType
    BY <1>3 DEF StartAgain, AtStart, AccessType
  <2> QED BY <1>2, <1>3, <2>1 DEF StartAgain
<1>4. ASSUME GetAccessToken PROVE access' \in AccessType
  BY <1>4 DEF GetAccessToken, AccessInv, AccessType
<1>5. CASE FetchAccessToken \/ FetchAccessTokenRefused \/ FetchAccessTokenFails
  <2>1. \/ StartAgain
        \/ UNCHANGED <<entered, shifts>>
           /\ access' \in {[pending |-> FALSE, token |-> "kept", fresh |-> TRUE],
                           [access EXCEPT !.token = "refused"]}
    BY <1>5 DEF FetchAccessToken, FetchAccessTokenRefused, FetchAccessTokenFails
  <2>2. /\ [pending |-> FALSE, token |-> "kept", fresh |-> TRUE] \in AccessType
        /\ [access EXCEPT !.token = "refused"] \in AccessType
    BY DEF AccessInv, AccessType
  <2> QED BY <1>2, <1>3, <2>1, <2>2
<1>6. CASE AccessTokenExpires
  <2>1. access' \in AccessType
    BY <1>6 DEF AccessTokenExpires, AccessInv, AccessType
  <2>2. shifts' \in 0 .. MaxShifts /\ entered' = entered
    BY <1>6, ParticipantsAssumption DEF AccessTokenExpires, AccessInv
  <2> QED BY <2>1, <2>2 DEF AccessInv
<1>7. CASE Shift
  BY <1>7, ParticipantsAssumption DEF Shift, AccessInv
<1>8. ASSUME NEW f \in Refreshes,
             RefreshTrustedList(f) \/ RefreshWithoutToken(f)
                \/ ServeTrustedList(f) \/ FetchTrustedList(f) \/ FetchTrustedListFails(f)
      PROVE  AccessInv'
  BY <1>1, <1>2, <1>3, <1>4, <1>8 DEF RefreshTrustedList, RefreshWithoutToken, ServeTrustedList,
       FetchTrustedList, FetchTrustedListFails
<1>9. ASSUME NEW p \in Callers,
             Arrive(p) \/ AssertClient(p) \/ AssertClientRefused(p)
                \/ ValidateParticipant(p) \/ ValidateParticipantRefused(p)
      PROVE  AccessInv'
  BY <1>1, <1>2, <1>4, <1>9 DEF Arrive, AssertClient, AssertClientRefused, ValidateParticipant,
       ValidateParticipantRefused, OthersStay
<1>10. ASSUME NEW p \in Callers,
              EnsureClientApplication(p) \/ EnsureUser(p) \/ CreateAccessToken(p)
       PROVE  AccessInv'
  <2>1. call[p].client \in Clients
    BY <1>10 DEF EnsureClientApplication, EnsureUser, CreateAccessToken, CallInv, CallOK
  <2>2. PICK what \in {"application", "user", "token"} :
          entered' = entered \union {<<what, call[p].client>>} /\ UNCHANGED <<access, shifts>>
    BY <1>10 DEF EnsureClientApplication, EnsureUser, CreateAccessToken, Enters
  <2> QED BY <2>1, <2>2 DEF AccessInv, EnteredType
<1>11. ASSUME NEW p \in Callers, CallFails(p) PROVE AccessInv'
  BY <1>3, <1>11 DEF CallFails
<1>12. CASE UNCHANGED participantVars
  BY <1>1, <1>12 DEF participantVars
<1> QED BY <1>5, <1>6, <1>7, <1>8, <1>9, <1>10, <1>11, <1>12 DEF ParticipantStep

\* The lists in use are none or lists the registry can have, and every row made for a
\* participant is made for one there is (get_trusted_list, ensure_client_application).
THEOREM ParticipantsAreTyped == ParticipantSpec => []ParticipantsTypeOK
<1>1. ParticipantInit => ListInv /\ CallInv /\ AccessInv
  <2>1. ParticipantInit => AccessInv
    BY ParticipantsAssumption DEF ParticipantInit, AtStart, AccessInv, AccessType
  <2> QED BY <2>1, ParticipantsStart
<1>2. (ListInv /\ CallInv /\ AccessInv) /\ [ParticipantStep]_participantVars =>
            (ListInv /\ CallInv /\ AccessInv)'
  BY ListInvStep, CallInvStep, AccessInvStep
<1>3. ListInv /\ CallInv /\ AccessInv => ParticipantsTypeOK
  <2> SUFFICES ASSUME ListInv, CallInv, AccessInv PROVE ParticipantsTypeOK
    OBVIOUS
  <2>1. trusted.list \in Roots /\ trusted.old \in Roots /\ trusted.pending \in BOOLEAN
    BY DEF ListInv, ListTypes, TrustedType
  <2>2. \A p \in Callers : call[p].client \in Clients \union {None}
    BY DEF CallInv, CallRec
  <2> QED BY <2>1, <2>2 DEF ListInv, ListTypes, RegistryType, RefreshType, Roots, AccessInv,
         AccessType, EnteredType, ParticipantsTypeOK
<1> QED BY <1>1, <1>2, <1>3, PTL DEF ParticipantSpec

(***************************************************************************)
(* Delegation evidence: the filter.  What the registry compares list by    *)
(* list says the same as the single things a mask asks for, one by one.    *)
(***************************************************************************)
\* Lists as the schemas have them.
Askable(want) ==
    /\ want.ids # {} /\ want.attributes # {} /\ want.actions # {}
    /\ want.attributes # None => None \notin want.attributes
NamesItsOwn(rule) == rule.attributes # None => None \notin rule.attributes

LEMMA PointsThere ==
  ASSUME NEW want, Askable(want),
         NEW i \in want.ids, NEW c \in want.actions,
         NEW a, a \in IF want.attributes = None THEN {None} ELSE want.attributes
  PROVE  /\ [id |-> i, attribute |-> a, action |-> c] \in Points(want)
         /\ [id |-> i, attribute |-> a, action |-> c].id = i
         /\ [id |-> i, attribute |-> a, action |-> c].attribute = a
         /\ [id |-> i, attribute |-> a, action |-> c].action = c
BY DEF Points

LEMMA PointFields ==
  ASSUME NEW want, NEW x \in Points(want)
  PROVE  /\ x.id \in want.ids /\ x.action \in want.actions
         /\ want.attributes = None => x.attribute = None
         /\ want.attributes # None => x.attribute \in want.attributes
BY DEF Points

LEMMA MatchingIsGranting ==
  ASSUME NEW mask, NEW want, NEW policy, Askable(want)
  PROVE  IsMatchingPolicy(mask, want, policy) <=> Grants(mask, policy, want)
<1>1. PICK i \in want.ids, c \in want.actions,
           a \in IF want.attributes = None THEN {None} ELSE want.attributes : TRUE
  BY DEF Askable
<1>2. ASSUME IsMatchingPolicy(mask, want, policy) PROVE Grants(mask, policy, want)
  <2>1. \A x \in Points(want) :
            /\ Among(x.id, policy.ids) /\ Among(x.action, policy.actions)
            /\ x.attribute = None \/ (policy.attributes # None /\ Among(x.attribute, policy.attributes))
    BY <1>2, PointFields DEF IsMatchingPolicy, CoversAll, Among
  <2> QED BY <1>2, <2>1 DEF IsMatchingPolicy, Grants
<1>3. ASSUME Grants(mask, policy, want) PROVE IsMatchingPolicy(mask, want, policy)
  <2>1. ASSUME NEW i2 \in want.ids PROVE Among(i2, policy.ids)
    <3>1. [id |-> i2, attribute |-> a, action |-> c] \in Points(want)
      BY <1>1, PointsThere
    <3> QED BY <1>3, <3>1 DEF Grants
  <2>2. ASSUME NEW c2 \in want.actions PROVE Among(c2, policy.actions)
    <3>1. [id |-> i, attribute |-> a, action |-> c2] \in Points(want)
      BY <1>1, PointsThere
    <3> QED BY <1>3, <3>1 DEF Grants
  <2>3. ASSUME want.attributes # None, NEW a2 \in want.attributes
        PROVE  policy.attributes # None /\ Among(a2, policy.attributes)
    <3>1. [id |-> i, attribute |-> a2, action |-> c] \in Points(want)
      BY <1>1, <2>3, PointsThere
    <3>2. a2 # None
      BY <2>3 DEF Askable
    <3> QED BY <1>3, <3>1, <3>2 DEF Grants
  <2>4. CoversAll(policy.ids, want.ids)
    BY <2>1 DEF Among, CoversAll
  <2>5. CoversAll(policy.actions, want.actions)
    BY <2>2 DEF Among, CoversAll
  <2>6. want.attributes = None \/ (policy.attributes # None /\ CoversAll(policy.attributes, want.attributes))
    <3>1. want.attributes # {}
      BY DEF Askable
    <3>2. PICK b : b = want.attributes
      OBVIOUS
    <3>3. b # None => policy.attributes # None
      BY <2>3, <3>1, <3>2
    <3>4. b # None => CoversAll(policy.attributes, b)
      BY <2>3, <3>2 DEF Among, CoversAll
    <3> QED BY <3>2, <3>3, <3>4
  <2>7. /\ policy.type = want.type
        /\ policy.providers = None \/ mask.provider \in policy.providers
    BY <1>3 DEF Grants
  <2> QED BY <2>4, <2>5, <2>6, <2>7 DEF IsMatchingPolicy
<1> QED BY <1>2, <1>3

LEMMA DenyingIsBarring ==
  ASSUME NEW want, NEW rule, Askable(want), NamesItsOwn(rule)
  PROVE  IsDenyingPermission(rule, want) <=> Bars(rule, want)
<1>1. ASSUME IsDenyingPermission(rule, want) PROVE Bars(rule, want)
  <2>1. /\ rule.type = want.type /\ rule.attributes # None
        /\ "*" \in rule.ids \/ rule.ids \intersect want.ids # {}
        /\ "*" \in rule.attributes
            \/ (want.attributes # None /\ rule.attributes \intersect want.attributes # {})
        /\ rule.actions = {} \/ "*" \in rule.actions \/ rule.actions \intersect want.actions # {}
    BY <1>1 DEF IsDenyingPermission, OnSubject, Throws, Touches
  <2>2. PICK i \in want.ids : {"*", i} \intersect rule.ids # {}
    BY <2>1 DEF Askable
  <2>3. PICK c \in want.actions : rule.actions = {} \/ {"*", c} \intersect rule.actions # {}
    BY <2>1 DEF Askable
  <2>4. PICK a \in IF want.attributes = None THEN {None} ELSE want.attributes :
            {"*", a} \intersect rule.attributes # {}
    BY <2>1 DEF Askable
  <2>5. PICK x \in Points(want) : x.id = i /\ x.attribute = a /\ x.action = c
    <3>1. PICK x : x = [id |-> i, attribute |-> a, action |-> c]
      OBVIOUS
    <3>2. x \in Points(want) /\ x.id = i /\ x.attribute = a /\ x.action = c
      BY <2>2, <2>3, <2>4, <3>1, PointsThere
    <3> QED BY <3>2
  <2> QED BY <2>1, <2>2, <2>3, <2>4, <2>5 DEF Bars
<1>2. ASSUME Bars(rule, want) PROVE IsDenyingPermission(rule, want)
  <2>1. PICK x \in Points(want) :
        /\ {"*", x.id} \intersect rule.ids # {}
        /\ rule.attributes # None /\ {"*", x.attribute} \intersect rule.attributes # {}
        /\ rule.actions = {} \/ {"*", x.action} \intersect rule.actions # {}
    BY <1>2 DEF Bars
  <2>2. /\ x.id \in want.ids /\ x.action \in want.actions
        /\ want.attributes = None => x.attribute = None
        /\ want.attributes # None => x.attribute \in want.attributes
    BY PointFields
  <2>3. OnSubject(rule, want)
    BY <1>2, <2>1, <2>2 DEF Bars, OnSubject, Touches
  <2>4. want.attributes = None => "*" \in rule.attributes
    BY <2>1, <2>2 DEF NamesItsOwn
  <2>5. ~Throws(rule, want)
    BY <2>1, <2>4 DEF Throws
  <2>6. "*" \in rule.attributes \/ Touches(rule.attributes, want.attributes)
    BY <2>1, <2>2, <2>4 DEF Touches
  <2>7. rule.actions = {} \/ Touches(rule.actions, want.actions)
    BY <2>1, <2>2 DEF Touches
  <2> QED BY <2>3, <2>5, <2>6, <2>7 DEF IsDenyingPermission
<1> QED BY <1>1, <1>2

\* What an answer says of one set of policies and one thing asked for.
Permits(mask, set, want) ==
    LET granting == {policy \in set : Grants(mask, policy, want)} IN
    /\ granting # {}
    /\ \A policy \in granting : \A rule \in policy.denials : ~Bars(rule, want)

LEMMA EffectsHaveGrounds ==
  ASSUME NEW mask, NEW want, NEW set, Askable(want),
         \A policy \in set : \A rule \in policy.denials : NamesItsOwn(rule)
  PROVE  Effect(mask, want, set) = "Permit" <=> Permits(mask, set, want)
<1>1. PICK granting : granting = {policy \in set : Grants(mask, policy, want)}
  OBVIOUS
<1>2. MatchingPolicies(mask, want, set) = granting
  BY <1>1, MatchingIsGranting DEF MatchingPolicies
<1>3. Denied(mask, want, set) <=> \E policy \in granting : \E rule \in policy.denials : Bars(rule, want)
  <2>1. \A rule \in DenialsOf(mask, want, set) : \E policy \in granting : rule \in policy.denials
    BY <1>2 DEF DenialsOf
  <2>2. \A policy \in granting : \A rule \in policy.denials : rule \in DenialsOf(mask, want, set)
    BY <1>2 DEF DenialsOf
  <2>3. \A policy \in granting : \A rule \in policy.denials : IsDenyingPermission(rule, want) <=> Bars(rule, want)
    BY <1>1, DenyingIsBarring
  <2> QED BY <2>1, <2>2, <2>3 DEF Denied
<1>4. Effect(mask, want, set) = "Permit" <=> granting # {} /\ ~Denied(mask, want, set)
  BY <1>2 DEF Effect
<1> QED BY <1>1, <1>3, <1>4 DEF Permits

(***************************************************************************)
(* Delegation evidence: the requests.                                      *)
(***************************************************************************)
Sets == UNION {doc.sets : doc \in Documents}
Wants == UNION {m.wants : m \in Masks}
PostPcs == Replied \union {"post", "query", "find", "lost"}
PostRec == [pc: PostPcs, asker: Askers \union {None}, about: Documents \union Masks \union {None},
            answer: SUBSET (Sets \X Wants \X {"Deny", "Permit"})]

\* The document an answer was made from.
Founded(doc, mask, answer) ==
    /\ doc.issuer = Issuer /\ doc.subject = mask.subject
    /\ {<<x[1], x[2]>> : x \in answer} = doc.sets \X mask.wants
    /\ \A x \in answer : x[3] = "Permit" <=> Permits(mask, x[1], x[2])
PostOK(r, rows, seen) ==
    /\ r.pc = "post" => r.about \in Documents
    /\ r.pc \in {"query", "find", "evidence"} => r.about \in Masks
    /\ r.pc \in {"query", "find"} => rows[r.about.subject] \in seen
    /\ r.pc \in {"find", "evidence"} => MayAsk(r.about, r.asker)
    /\ r.pc = "evidence" => \E doc \in seen \ {None} : Founded(doc, r.about, r.answer)
EvidenceInv ==
    /\ evidence \in [Delegates -> Documents \union {None}]
    /\ \A s \in Delegates : evidence[s] # None => evidence[s].subject = s /\ evidence[s].issuer = Issuer
    /\ writing \subseteq Documents /\ \A doc \in writing : doc.issuer = Issuer
DelegationInv ==
    /\ EvidenceInv
    /\ post \in [Posts -> PostRec]
    /\ \A p \in Posts : PostOK(post[p], evidence, known[p])


\* Who waits for an answer keeps what has been stored, and what is stored now.
LEMMA SeenGrows ==
  ASSUME NEW p \in Posts, DelegationHistory
  PROVE  /\ post'[p].pc = "query" /\ Stands(p, "none") => known'[p] = {evidence'[post'[p].about.subject]}
         /\ post'[p].pc \in {"query", "find"} /\ ~Stands(p, "none") =>
                known'[p] = known[p] \union {evidence'[post[p].about.subject]}
         /\ post'[p].pc \notin {"query", "find"} => known'[p] = known[p]
BY DEF DelegationHistory

\* Rows keep their subject and their issuer, whichever posts are written and in which order.
LEMMA EvidenceStep ==
  ASSUME DelegationInv, DelegationStep
  PROVE  EvidenceInv'
<1>1. CASE UNCHANGED <<evidence, writing>>
  BY <1>1 DEF DelegationInv, EvidenceInv
<1>2. ASSUME NEW p \in Posts, UpsertPolicy(p) PROVE EvidenceInv'
  <2>1. post[p].about \in Documents /\ post[p].about.issuer = Issuer
    BY <1>2 DEF UpsertPolicy, Stands, DelegationInv, PostOK
  <2> QED BY <1>2, <2>1 DEF UpsertPolicy, DelegationInv, EvidenceInv
<1>3. ASSUME NEW doc \in writing, WritePolicy(doc) PROVE EvidenceInv'
  BY <1>3 DEF WritePolicy, DelegationInv, EvidenceInv
<1>4. CASE WritePolicyFails
  BY <1>4 DEF WritePolicyFails, DelegationInv, EvidenceInv
<1> QED BY <1>1, <1>2, <1>3, <1>4 DEF DelegationStep, AuthenticateAsker, AuthenticateAskerFails,
      UpsertPolicyRefused, QueryEvidences, GetDelegationEvidence, Unwritten

\* A request that stays where it is has seen all that it had, and the row of now.
LEMMA StayingPostOK ==
  ASSUME DelegationInv, DelegationHistory, EvidenceInv', NEW p \in Posts,
         post'[p] = post[p]
  PROVE  PostOK(post'[p], evidence', known'[p])
<1>1. PostOK(post[p], evidence, known[p])
  BY DEF DelegationInv
<1>2. /\ post[p].pc \in {"query", "find"} => known'[p] = known[p] \union {evidence'[post[p].about.subject]}
      /\ post[p].pc \notin {"query", "find"} => known'[p] = known[p]
  BY SeenGrows DEF Stands
<1> QED BY <1>1, <1>2 DEF PostOK

LEMMA OnePostInv ==
  ASSUME DelegationInv, DelegationHistory, EvidenceInv', NEW p \in Posts, NEW r \in PostRec,
         post' = [post EXCEPT ![p] = r], PostOK(r, evidence', known'[p])
  PROVE  DelegationInv'
<1>1. post' \in [Posts -> PostRec] /\ post'[p] = r
  BY DEF DelegationInv
<1>2. \A q \in Posts \ {p} : PostOK(post'[q], evidence', known'[q])
  <2> TAKE q \in Posts \ {p}
  <2>1. post'[q] = post[q]
    BY DEF DelegationInv
  <2> QED BY <2>1, StayingPostOK
<1> QED BY <1>1, <1>2 DEF DelegationInv

LEMMA RepliesInv ==
  ASSUME DelegationInv, DelegationHistory, EvidenceInv', NEW p \in Posts, NEW pc,
         pc \in {"unauthorized", "forbidden", "unprocessable", "accepted", "refused", "notFound", "error"},
         Replies(p, pc)
  PROVE  DelegationInv'
<1>1. PICK r : r = [post[p] EXCEPT !.pc = pc]
  OBVIOUS
<1>2. post' = [post EXCEPT ![p] = r]
  BY <1>1 DEF Replies, DelegationInv
<1>3. r \in PostRec /\ r.pc = pc
  BY <1>1 DEF DelegationInv, PostRec, PostPcs, Replied
<1> QED BY <1>2, <1>3, OnePostInv DEF PostOK

LEMMA AuthenticateInv ==
  ASSUME DelegationInv, DelegationHistory, EvidenceInv', NEW p \in Posts, AuthenticateAsker(p)
  PROVE  DelegationInv'
<1>1. PICK asker \in Askers, about \in Documents \union Masks :
        post' = [post EXCEPT ![p] = [Unposted EXCEPT !.asker = asker, !.about = about,
                    !.pc = IF about \in Documents THEN "post" ELSE "query"]]
  BY DEF AuthenticateAsker
<1>2. PICK pc \in {"post", "query"} : pc = IF about \in Documents THEN "post" ELSE "query"
  OBVIOUS
<1>3. PICK r : r = [Unposted EXCEPT !.asker = asker, !.about = about, !.pc = pc]
  OBVIOUS
<1>4. post' = [post EXCEPT ![p] = r]
  BY <1>1, <1>2, <1>3
<1>5. r \in PostRec /\ r.pc = pc /\ r.asker = asker /\ r.about = about
  BY <1>3 DEF Unposted, PostRec, PostPcs, Replied
<1>6. post'[p] = r /\ Stands(p, "none")
  BY <1>4 DEF AuthenticateAsker, DelegationInv
<1>7. pc = "query" => known'[p] = {evidence'[about.subject]} /\ about \in Masks
  BY <1>2, <1>5, <1>6, SeenGrows
<1>8. PostOK(r, evidence', known'[p])
  BY <1>2, <1>5, <1>7 DEF PostOK
<1> QED BY <1>4, <1>5, <1>8, OnePostInv

LEMMA QueryInv ==
  ASSUME DelegationInv, DelegationHistory, EvidenceInv', NEW p \in Posts, QueryEvidences(p)
  PROVE  DelegationInv'
<1>1. CASE MayAsk(post[p].about, post[p].asker) /\ Replies(p, "find")
  <2>1. PICK r : r = [post[p] EXCEPT !.pc = "find"]
    OBVIOUS
  <2>2. post' = [post EXCEPT ![p] = r]
    BY <1>1, <2>1 DEF Replies, DelegationInv
  <2>3. r \in PostRec /\ r.pc = "find" /\ r.asker = post[p].asker /\ r.about = post[p].about
    BY <2>1 DEF DelegationInv, PostRec, PostPcs
  <2>4. post'[p] = r /\ post[p].pc = "query" /\ PostOK(post[p], evidence, known[p])
    BY <2>2 DEF QueryEvidences, Stands, DelegationInv
  <2>5. known'[p] = known[p] \union {evidence'[post[p].about.subject]}
    BY <2>3, <2>4, SeenGrows DEF Stands
  <2>6. PostOK(r, evidence', known'[p])
    BY <1>1, <2>3, <2>4, <2>5 DEF PostOK
  <2> QED BY <2>2, <2>3, <2>6, OnePostInv
<1>2. CASE Replies(p, "refused")
  BY <1>2, RepliesInv
<1> QED BY <1>1, <1>2 DEF QueryEvidences

LEMMA AnswerInv ==
  ASSUME DelegationInv, DelegationHistory, EvidenceInv', NEW p \in Posts, GetDelegationEvidence(p)
  PROVE  DelegationInv'
<1>1. PICK mask : mask = post[p].about
  OBVIOUS
<1>2. PICK doc : doc = evidence[mask.subject]
  OBVIOUS
<1>3. /\ post[p].pc = "find" /\ post[p] \in PostRec /\ mask \in Masks /\ doc \in known[p]
      /\ MayAsk(mask, post[p].asker)
      /\ mask.subject \in Delegates /\ doc \in Documents \union {None}
      /\ doc # None => doc \in Documents /\ doc.subject = mask.subject /\ doc.issuer = Issuer
  BY <1>1, <1>2, DelegationAssumption
     DEF GetDelegationEvidence, Stands, DelegationInv, PostOK, EvidenceInv
<1>4. CASE Replies(p, "notFound") \/ Replies(p, "error")
  BY <1>4, RepliesInv
<1>5. CASE /\ doc # None
           /\ post' = [post EXCEPT ![p].pc = "evidence",
                ![p].answer = {<<x[1], x[2], Effect(mask, x[2], x[1])>> : x \in AnswersOf(doc, mask)}]
  <2>1. PICK answer : answer = {<<x[1], x[2], Effect(mask, x[2], x[1])>> : x \in AnswersOf(doc, mask)}
    OBVIOUS
  <2>2. PICK r : r = [post[p] EXCEPT !.pc = "evidence", !.answer = answer]
    OBVIOUS
  <2>3. post' = [post EXCEPT ![p] = r]
    BY <1>5, <2>1, <2>2 DEF DelegationInv
  <2>4. /\ \A set \in doc.sets, want \in mask.wants : <<set, want, Effect(mask, want, set)>> \in answer
        /\ \A x \in answer : \E set \in doc.sets, want \in mask.wants :
                x = <<set, want, Effect(mask, want, set)>>
    <3>1. \A set \in doc.sets, want \in mask.wants : <<set, want, Effect(mask, want, set)>> \in answer
      <4> TAKE set \in doc.sets, want \in mask.wants
      <4>1. <<set, want>> \in AnswersOf(doc, mask)
        BY DEF AnswersOf
      <4> QED BY <2>1, <4>1
    <3>2. ASSUME NEW x \in answer
          PROVE  \E set \in doc.sets, want \in mask.wants : x = <<set, want, Effect(mask, want, set)>>
      <4>1. PICK y \in AnswersOf(doc, mask) : x = <<y[1], y[2], Effect(mask, y[2], y[1])>>
        BY <2>1
      <4>2. PICK set \in doc.sets, want \in mask.wants : y = <<set, want>>
        BY DEF AnswersOf
      <4> QED BY <4>1, <4>2
    <3> QED BY <3>1, <3>2
  <2>5. answer \in SUBSET (Sets \X Wants \X {"Deny", "Permit"})
    BY <1>3, <1>5, <2>4 DEF Sets, Wants, Effect
  <2>6. /\ r \in PostRec /\ r.pc = "evidence" /\ r.answer = answer /\ r.asker = post[p].asker
        /\ r.about = mask
    BY <1>1, <1>3, <2>2, <2>5 DEF PostRec, PostPcs, Replied
  <2>7. {<<x[1], x[2]>> : x \in answer} = doc.sets \X mask.wants
    <3>1. ASSUME NEW x \in answer PROVE <<x[1], x[2]>> \in doc.sets \X mask.wants
      BY <2>4
    <3>2. ASSUME NEW y \in doc.sets \X mask.wants PROVE \E x \in answer : y = <<x[1], x[2]>>
      <4>1. PICK set \in doc.sets, want \in mask.wants : y = <<set, want>>
        OBVIOUS
      <4>2. PICK x : x = <<set, want, Effect(mask, want, set)>>
        OBVIOUS
      <4>3. x \in answer /\ x[1] = set /\ x[2] = want
        BY <2>4, <4>2
      <4> QED BY <4>1, <4>3
    <3> QED BY <3>1, <3>2
  <2>8. \A set \in doc.sets, want \in mask.wants :
            Effect(mask, want, set) = "Permit" <=> Permits(mask, set, want)
    BY <1>3, <1>5, EffectsHaveGrounds, DelegationAssumption DEF Askable, NamesItsOwn
  <2>9. \A x \in answer : x[3] = "Permit" <=> Permits(mask, x[1], x[2])
    BY <2>4, <2>8
  <2>10. Founded(doc, mask, answer)
    BY <1>3, <1>5, <2>7, <2>9 DEF Founded
  <2>11. post'[p] = r /\ known'[p] = known[p]
    BY <2>3, <2>6, SeenGrows DEF DelegationInv
  <2>12. PostOK(r, evidence', known'[p])
    BY <1>3, <1>5, <2>6, <2>10, <2>11 DEF PostOK
  <2> QED BY <2>3, <2>6, <2>12, OnePostInv
<1> QED BY <1>1, <1>2, <1>4, <1>5 DEF GetDelegationEvidence

LEMMA LostInv ==
  ASSUME DelegationInv, DelegationHistory, EvidenceInv', WritePolicyFails
  PROVE  DelegationInv'
<1>1. post' = [p \in Posts |-> IF post[p].pc \in Replied THEN post[p]
                               ELSE [post[p] EXCEPT !.pc = "lost"]]
  BY DEF WritePolicyFails
<1>2. ASSUME NEW p \in Posts
      PROVE  post'[p] \in PostRec /\ PostOK(post'[p], evidence', known'[p])
  <2>1. CASE post[p].pc \in Replied
    BY <1>1, <2>1, StayingPostOK DEF DelegationInv
  <2>2. CASE post[p].pc \notin Replied
    <3>1. post'[p] = [post[p] EXCEPT !.pc = "lost"] /\ post[p] \in PostRec
      BY <1>1, <2>2 DEF DelegationInv
    <3>2. post'[p] \in PostRec /\ post'[p].pc = "lost"
      BY <3>1 DEF PostRec, PostPcs
    <3> QED BY <3>2 DEF PostOK
  <2> QED BY <2>1, <2>2
<1>3. post' \in [Posts -> PostRec]
  <2>1. post' = [p \in Posts |-> post'[p]]
    BY <1>1
  <2> QED BY <1>2, <2>1
<1> QED BY <1>2, <1>3 DEF DelegationInv

LEMMA DelegationInvStep ==
  ASSUME DelegationInv, [DelegationStep /\ DelegationHistory]_delegationVars
  PROVE  DelegationInv'
<1>1. CASE UNCHANGED delegationVars
  BY <1>1 DEF delegationVars, DelegationInv, EvidenceInv
<1>2. CASE DelegationStep /\ DelegationHistory
  <2>1. EvidenceInv'
    BY <1>2, EvidenceStep
  <2>2. ASSUME NEW p \in Posts,
               AuthenticateAskerFails(p) \/ UpsertPolicy(p) \/ UpsertPolicyRefused(p)
        PROVE  DelegationInv'
    BY <1>2, <2>1, <2>2, RepliesInv DEF AuthenticateAskerFails, UpsertPolicy, UpsertPolicyRefused
  <2>3. ASSUME NEW doc \in writing, WritePolicy(doc)
        PROVE  DelegationInv'
    <3>1. UNCHANGED post
      BY <2>3 DEF WritePolicy
    <3>2. \A p \in Posts : PostOK(post'[p], evidence', known'[p])
      BY <1>2, <2>1, <3>1, StayingPostOK
    <3> QED BY <2>1, <3>1, <3>2 DEF DelegationInv
  <2> QED BY <1>2, <2>1, <2>2, <2>3, AuthenticateInv, QueryInv, AnswerInv, LostInv DEF DelegationStep
<1> QED BY <1>1, <1>2

\* What a service is told of its mask is what one document says that was stored while it
\* asked: permitted is what a policy grants in every single thing and none of its rules bars
\* (is_matching_policy, is_denying_permission); and it is told to those the mask names, or
\* who bring or owe no previous step (_query_evidences).
THEOREM DelegationsAreFounded == DelegationSpec => []DelegationsHaveGrounds
<1>1. DelegationInit => DelegationInv
  BY DEF DelegationInit, DelegationInv, EvidenceInv, PostOK, Unposted, PostRec, PostPcs, Replied
<1>2. DelegationInv /\ [DelegationStep /\ DelegationHistory]_delegationVars => DelegationInv'
  BY DelegationInvStep
<1>3. DelegationInv => DelegationsHaveGrounds
  <2> SUFFICES ASSUME DelegationInv, NEW p \in Posts, Stands(p, "evidence")
               PROVE  LET mask == post[p].about   asker == post[p].asker IN
        /\ \E doc \in known[p] \ {None} :
            /\ doc.issuer = Issuer /\ doc.subject = mask.subject
            /\ {<<x[1], x[2]>> : x \in post[p].answer} = doc.sets \X mask.wants
            /\ \A x \in post[p].answer :
                LET granting == {policy \in x[1] : Grants(mask, policy, x[2])} IN
                x[3] = "Permit" <=>
                    /\ granting # {}
                    /\ \A policy \in granting : \A rule \in policy.denials : ~Bars(rule, x[2])
        /\ \/ asker.name \in {mask.issuer, mask.subject} \/ mask.steps = "absent"
           \/ mask.step.sound /\ mask.step.aud = asker.name /\ asker.name = mask.provider
    BY DEF DelegationsHaveGrounds
  <2>1. /\ \E doc \in known[p] \ {None} : Founded(doc, post[p].about, post[p].answer)
        /\ MayAsk(post[p].about, post[p].asker)
    BY DEF DelegationInv, PostOK, Stands
  <2>2. \/ post[p].asker.name \in {post[p].about.issuer, post[p].about.subject}
        \/ post[p].about.steps = "absent"
        \/ /\ post[p].about.step.sound /\ post[p].about.step.aud = post[p].asker.name
           /\ post[p].asker.name = post[p].about.provider
    BY <2>1 DEF MayAsk, IsValidPrevSteps
  <2> QED BY <2>1, <2>2 DEF Founded, Permits
<1> QED BY <1>1, <1>2, <1>3, PTL DEF DelegationSpec

\* What a request may have met are rows: documents, or none.
KnownTyped == \A p \in Posts : known[p] \subseteq Documents \union {None}

\* Who still waits for an answer has just come, or asks what it asked.
LEMMA WhoWaits ==
  ASSUME DelegationInv, DelegationStep, NEW p \in Posts, post'[p].pc \in {"query", "find"}
  PROVE  \/ Stands(p, "none") /\ post'[p].pc = "query"
         \/ ~Stands(p, "none") /\ post'[p].about = post[p].about
<1>1. post[p] \in PostRec
  BY DEF DelegationInv
<1>2. CASE post'[p] = post[p]
  BY <1>2 DEF Stands
<1>3. ASSUME NEW q \in Posts, AuthenticateAsker(q)
      PROVE  post'[p] = post[p] \/ (Stands(p, "none") /\ post'[p].pc # "find")
  <2>1. PICK asker \in Askers, about \in Documents \union Masks :
          post' = [post EXCEPT ![q] = [Unposted EXCEPT !.asker = asker, !.about = about,
                    !.pc = IF about \in Documents THEN "post" ELSE "query"]]
    BY <1>3 DEF AuthenticateAsker
  <2>2. PICK pc \in {"post", "query"} : pc = IF about \in Documents THEN "post" ELSE "query"
    OBVIOUS
  <2>3. PICK r : r = [Unposted EXCEPT !.asker = asker, !.about = about, !.pc = pc]
    OBVIOUS
  <2>4. post' = [post EXCEPT ![q] = r] /\ r.pc # "find"
    BY <2>1, <2>2, <2>3 DEF Unposted
  <2> QED BY <1>3, <2>4 DEF AuthenticateAsker, DelegationInv
<1>4. ASSUME NEW q \in Posts, NEW pc, Replies(q, pc)
      PROVE  post'[p] = post[p] \/ (post'[p].pc = pc /\ post'[p].about = post[p].about)
  BY <1>1, <1>4 DEF Replies, DelegationInv, PostRec
<1>5. ASSUME NEW q \in Posts, QueryEvidences(q)
      PROVE  post'[p] = post[p] \/ (~Stands(p, "none") /\ post'[p].about = post[p].about)
  BY <1>1, <1>5 DEF QueryEvidences, Stands, Replies, DelegationInv, PostRec
<1>6. ASSUME NEW q \in Posts, GetDelegationEvidence(q)
      PROVE  post'[p] = post[p]
  <2>1. CASE Replies(q, "notFound") \/ Replies(q, "error")
    BY <1>4, <2>1
  <2>2. CASE \E answer : post' = [post EXCEPT ![q].pc = "evidence", ![q].answer = answer]
    <3>1. PICK answer : post' = [post EXCEPT ![q].pc = "evidence", ![q].answer = answer]
      BY <2>2
    <3> QED BY <1>1, <3>1 DEF DelegationInv, PostRec
  <2> QED BY <1>6, <2>1, <2>2 DEF GetDelegationEvidence
<1>7. CASE WritePolicyFails
  <2>1. post'[p] = post[p] \/ post'[p] = [post[p] EXCEPT !.pc = "lost"]
    BY <1>7 DEF WritePolicyFails
  <2>2. post'[p] = post[p]
    BY <1>1, <2>1 DEF PostRec
  <2> QED BY <1>2, <2>2
<1>8. ASSUME NEW doc \in writing, WritePolicy(doc) PROVE post'[p] = post[p]
  BY <1>8 DEF WritePolicy
<1>9. ASSUME NEW q \in Posts,
             AuthenticateAskerFails(q) \/ UpsertPolicy(q) \/ UpsertPolicyRefused(q)
      PROVE  post'[p] = post[p]
  BY <1>4, <1>9 DEF AuthenticateAskerFails, UpsertPolicy, UpsertPolicyRefused
<1>10. CASE \E q \in Posts : AuthenticateAsker(q)
  BY <1>2, <1>3, <1>10
<1>11. CASE \E q \in Posts : QueryEvidences(q)
  BY <1>2, <1>5, <1>11
<1> QED BY <1>2, <1>6, <1>7, <1>8, <1>9, <1>10, <1>11 DEF DelegationStep

LEMMA KnownTypedStep ==
  ASSUME DelegationInv, DelegationInv', KnownTyped,
         [DelegationStep /\ DelegationHistory]_delegationVars
  PROVE  KnownTyped'
<1>1. CASE UNCHANGED delegationVars
  BY <1>1 DEF delegationVars, KnownTyped
<1>2. CASE DelegationStep /\ DelegationHistory
  <2> SUFFICES ASSUME NEW p \in Posts
               PROVE  known'[p] \subseteq Documents \union {None}
    BY DEF KnownTyped
  <2>1. CASE post'[p].pc \notin {"query", "find"}
    BY <1>2, <2>1, SeenGrows DEF KnownTyped
  <2>2. CASE post'[p].pc \in {"query", "find"}
    <3>1. post'[p].about \in Masks
      BY <2>2 DEF DelegationInv, PostOK
    <3>2. evidence'[post'[p].about.subject] \in Documents \union {None}
      BY <3>1, DelegationAssumption DEF DelegationInv, EvidenceInv
    <3>3. \/ Stands(p, "none") /\ post'[p].pc = "query"
          \/ ~Stands(p, "none") /\ post'[p].about = post[p].about
      BY <1>2, <2>2, WhoWaits
    <3>4. \/ known'[p] = {evidence'[post'[p].about.subject]}
          \/ known'[p] = known[p] \union {evidence'[post'[p].about.subject]}
      BY <1>2, <2>2, <3>3, SeenGrows
    <3> QED BY <3>2, <3>4 DEF KnownTyped
  <2> QED BY <2>1, <2>2
<1> QED BY <1>1, <1>2

\* The rows are documents of the parties they are filed under, and what a request has met on its
\* way are such rows (upsert_policy, get_delegation_evidence).
THEOREM DelegationsAreTyped == DelegationSpec => []DelegationTypeOK
<1>1. DelegationInit => DelegationInv /\ KnownTyped
  BY DEF DelegationInit, DelegationInv, EvidenceInv, PostOK, Unposted, PostRec, PostPcs, Replied,
     KnownTyped
<1>2. (DelegationInv /\ KnownTyped) /\ [DelegationStep /\ DelegationHistory]_delegationVars =>
            (DelegationInv /\ KnownTyped)'
  BY DelegationInvStep, KnownTypedStep
<1>3. DelegationInv /\ KnownTyped => DelegationTypeOK
  BY DEF DelegationInv, EvidenceInv, PostRec, KnownTyped, DelegationTypeOK
<1> QED BY <1>1, <1>2, <1>3, PTL DEF DelegationSpec

(***************************************************************************)
(* National identities: the requests, and where they return to.            *)
(***************************************************************************)
VisitPcs == {"none", "save", "certify", "photo", "find", "destroy", "replace", "create",
             "returned", "failed"}
VisitRec == [pc: VisitPcs, app: Apps \union {None}, window: Windows \union {None},
             to: RequestIds \union {None}, person: Persons \union {None},
             email: Mailboxes \union {None}, photo: Photos \union {"default", "sent"},
             attributes: SUBSET Configured, user: Users \union {None},
             copy: Resident \union {None}, back: Origin \union {None}]

\* What a login holds of the request it answers and of the account it has found.
LoginOK(v, iss, res) ==
    /\ v.pc \in {"photo", "find", "destroy", "replace", "create", "returned"} =>
            v.to \in DOMAIN iss /\ v.app = iss[v.to].app
    /\ v.pc \in {"photo", "find", "create"} => v.person \in Persons
    /\ v.pc = "photo" => v.photo \in {"default", "sent"}
    /\ v.pc \in {"find", "destroy", "replace", "create"} => v.photo \in Photos \union {"default"}
    /\ v.pc \in {"destroy", "replace"} => v.copy \in Resident /\ v.copy.person = v.person
    /\ v.pc \in {"destroy", "replace", "returned"} =>
            v.user \in DOMAIN res /\ res[v.user].person = v.person
    /\ v.pc = "returned" => v.back = [app |-> iss[v.to].app, window |-> iss[v.to].window]
VisitInv ==
    /\ visit \in [Visits -> VisitRec]
    /\ \A p \in Visits : LoginOK(visit[p], issued, resident)
IssuedInv ==
    /\ DOMAIN issued \subseteq RequestIds
    /\ \A id \in DOMAIN issued : issued[id].app \in EidasApps /\ issued[id].window \in Windows
    /\ DOMAIN states \subseteq DOMAIN issued
    /\ \A id \in DOMAIN states : states[id] = [app |-> issued[id].app, window |-> issued[id].window]
ResidentInv ==
    /\ resident \in [DOMAIN resident -> Resident] /\ DOMAIN resident \subseteq Users
    /\ photos \subseteq Photos
CertifiedInv ==
    \A a \in DOMAIN credentials \ cut :
        a \in certified \/ \E p \in Visits : Does(p, "certify") /\ visit[p].app = a
EidasInv == VisitInv /\ IssuedInv /\ ResidentInv /\ CertifiedInv

\* Request ids keep what they were issued for, and accounts keep their persons.
IssuedStay(iss, iss2) == \A id \in DOMAIN iss : id \in DOMAIN iss2 /\ iss2[id] = iss[id]
PersonsStay(res, res2) ==
    \A u \in DOMAIN res : u \in DOMAIN res2 /\ res2[u].person = res[u].person

LEMMA LoginsStay ==
  ASSUME NEW v, NEW iss, NEW iss2, NEW res, NEW res2,
         LoginOK(v, iss, res), IssuedStay(iss, iss2), PersonsStay(res, res2)
  PROVE  LoginOK(v, iss2, res2)
<1>1. v.to \in DOMAIN iss => v.to \in DOMAIN iss2 /\ iss2[v.to] = iss[v.to]
  BY DEF IssuedStay
<1>2. v.user \in DOMAIN res => v.user \in DOMAIN res2 /\ res2[v.user].person = res[v.user].person
  BY DEF PersonsStay
<1> QED BY <1>1, <1>2 DEF LoginOK

LEMMA OneVisitInv ==
  ASSUME VisitInv, NEW p \in Visits, NEW v \in VisitRec, Becomes(p, v),
         IssuedStay(issued, issued'), PersonsStay(resident, resident'),
         LoginOK(v, issued', resident')
  PROVE  VisitInv'
<1>1. visit' = [visit EXCEPT ![p] = v]
  BY DEF Becomes
<1>2. visit' \in [Visits -> VisitRec] /\ visit'[p] = v
  BY <1>1 DEF VisitInv
<1>3. \A q \in Visits \ {p} : visit'[q] = visit[q] /\ LoginOK(visit[q], issued, resident)
  BY <1>1 DEF VisitInv
<1>4. \A q \in Visits \ {p} : LoginOK(visit'[q], issued', resident')
  <2> TAKE q \in Visits \ {p}
  <2>1. visit'[q] = visit[q] /\ LoginOK(visit[q], issued, resident)
    BY <1>3
  <2>2. LoginOK(visit[q], issued', resident')
    BY <2>1, LoginsStay
  <2> QED BY <2>1, <2>2
<1> QED BY <1>2, <1>4 DEF VisitInv

LEMMA NothingMoves ==
  /\ \A iss : IssuedStay(iss, iss)
  /\ \A res : PersonsStay(res, res)
BY DEF IssuedStay, PersonsStay

LEMMA BlankVisits ==
  /\ NoVisit \in VisitRec /\ Failed \in VisitRec /\ NoVisit.pc = "none" /\ Failed.pc = "failed"
  /\ NoVisit.photo = "default" /\ Failed.photo = "default" 
  /\ \A iss, res : LoginOK(NoVisit, iss, res) /\ LoginOK(Failed, iss, res)
<1>1. /\ NoVisit \in VisitRec /\ Failed \in VisitRec /\ NoVisit.pc = "none" /\ Failed.pc = "failed"
      /\ NoVisit.photo = "default" /\ Failed.photo = "default"
  BY DEF NoVisit, Failed, VisitRec, VisitPcs
<1> QED BY <1>1 DEF LoginOK

LEMMA LeavingVisitInv ==
  ASSUME VisitInv, NEW p \in Visits, Leaves(p), UNCHANGED <<issued, resident>>
  PROVE  VisitInv'
<1>1. Becomes(p, Failed)
  BY DEF Leaves
<1> QED BY <1>1, BlankVisits, NothingMoves, OneVisitInv

LEMMA OthersCertified ==
  ASSUME CertifiedInv, VisitInv, NEW p \in Visits, NEW v, Becomes(p, v), ~Does(p, "certify"),
         UNCHANGED <<credentials, certified, cut>>
  PROVE  CertifiedInv'
<1>1. \A q \in Visits \ {p} : visit'[q] = visit[q]
  BY DEF Becomes, VisitInv
<1>2. \A q \in Visits : Does(q, "certify") => Does(q, "certify")' /\ visit'[q].app = visit[q].app
  BY <1>1 DEF Does
<1> QED BY <1>2 DEF CertifiedInv

(***************************************************************************)
(* Credentials.                                                            *)
(***************************************************************************)
LEMMA CredentialEidasInv ==
  ASSUME EidasInv, CredentialStep
  PROVE  EidasInv'
<1>1. ASSUME NEW p \in Visits, StepCreate(p)
      PROVE  EidasInv'
  <2>1. PICK a \in EidasApps : Becomes(p, [NoVisit EXCEPT !.pc = "save", !.app = a])
    BY <1>1 DEF StepCreate
  <2>2. PICK v : v = [NoVisit EXCEPT !.pc = "save", !.app = a]
    OBVIOUS
  <2>3. v \in VisitRec /\ v.pc = "save"
    BY <2>2, EidasAssumption DEF NoVisit, VisitRec, VisitPcs
  <2>4. LoginOK(v, issued, resident)
    BY <2>3 DEF LoginOK
  <2>5. /\ UNCHANGED <<credentials, certified, cut, states, resident, photos, issued>>
        /\ Becomes(p, v) /\ ~Does(p, "certify")
    BY <1>1, <2>1, <2>2 DEF StepCreate, Opens, Does, Same, histories
  <2>6. VisitInv'
    BY <2>3, <2>4, <2>5, NothingMoves, OneVisitInv DEF EidasInv
  <2>7. CertifiedInv'
    BY <2>5, OthersCertified DEF EidasInv
  <2> QED BY <2>5, <2>6, <2>7 DEF EidasInv, IssuedInv, ResidentInv
<1>2. ASSUME NEW p \in Visits, SaveCredentials(p)
      PROVE  EidasInv'
  <2>1. visit[p] \in VisitRec
    BY DEF EidasInv, VisitInv
  <2>2. PICK v : v = [visit[p] EXCEPT !.pc = "certify"]
    OBVIOUS
  <2>3. v \in VisitRec /\ v.pc = "certify" /\ v.app = visit[p].app
    BY <2>1, <2>2 DEF VisitRec, VisitPcs
  <2>4. LoginOK(v, issued, resident)
    BY <2>3 DEF LoginOK
  <2>5. /\ UNCHANGED <<certified, cut, states, resident, photos, issued>> /\ Becomes(p, v)
        /\ Does(p, "save") /\ DOMAIN credentials' = DOMAIN credentials \union {visit[p].app}
    BY <1>2, <2>2 DEF SaveCredentials, Same, histories, Store
  <2>6. VisitInv'
    BY <2>3, <2>4, <2>5, NothingMoves, OneVisitInv DEF EidasInv
  <2>7. /\ visit'[p] = v
        /\ \A q \in Visits \ {p} : visit'[q] = visit[q]
    BY <2>5 DEF Becomes, EidasInv, VisitInv
  <2>8. CertifiedInv'
    <3>1. \A q \in Visits : Does(q, "certify") => Does(q, "certify")' /\ visit'[q].app = visit[q].app
      BY <2>5, <2>7 DEF Does
    <3>2. Does(p, "certify")' /\ visit'[p].app = visit[p].app
      BY <2>3, <2>7 DEF Does
    <3> QED BY <2>5, <3>1, <3>2 DEF CertifiedInv, EidasInv
  <2> QED BY <2>5, <2>6, <2>8 DEF EidasInv, IssuedInv, ResidentInv
<1>3. ASSUME NEW p \in Visits, SaveCredentialsFails(p)
      PROVE  EidasInv'
  <2>1. /\ UNCHANGED <<credentials, certified, cut, states, resident, photos, issued>>
        /\ Leaves(p) /\ ~Does(p, "certify")
    BY <1>3 DEF SaveCredentialsFails, Same, histories, Does
  <2> QED BY <2>1, LeavingVisitInv, OthersCertified DEF EidasInv, IssuedInv, ResidentInv, Leaves
<1>4. ASSUME NEW p \in Visits, GenerateAppCertificates(p) \/ GenerateAppCertificatesFails(p)
      PROVE  EidasInv'
  <2>1. /\ UNCHANGED <<credentials, states, resident, photos, issued>> /\ Leaves(p)
        /\ certified \subseteq certified' /\ cut \subseteq cut'
        /\ visit[p].app \in certified' \union cut'
    BY <1>4 DEF GenerateAppCertificates, GenerateAppCertificatesFails, Same, histories
  <2>2. VisitInv'
    BY <2>1, LeavingVisitInv DEF EidasInv
  <2>3. \A q \in Visits \ {p} : visit'[q] = visit[q]
    BY <2>1 DEF Leaves, Becomes, EidasInv, VisitInv
  <2>4. CertifiedInv'
    BY <2>1, <2>3 DEF CertifiedInv, EidasInv, Does
  <2> QED BY <2>1, <2>2, <2>4 DEF EidasInv, IssuedInv, ResidentInv
<1>5. CASE UpdateEidasInfo \/ UpdateEidasAttributes
  <2>1. /\ UNCHANGED <<certified, cut, states, resident, photos, visit, issued>>
        /\ DOMAIN credentials' = DOMAIN credentials
    BY <1>5 DEF UpdateEidasInfo, UpdateEidasAttributes, Same, histories
  <2> QED BY <2>1 DEF EidasInv, VisitInv, IssuedInv, ResidentInv, CertifiedInv, Does
<1> QED BY <1>1, <1>2, <1>3, <1>4, <1>5 DEF CredentialStep

(***************************************************************************)
(* Logins.                                                                 *)
(***************************************************************************)
LEMMA FreshIsOne == ASSUME NEW S, S # {} PROVE Fresh(S) \in S
BY DEF Fresh

LEMMA RequestEidasInv ==
  ASSUME EidasInv, NEW w \in Windows, CreateAuthRequest(w)
  PROVE  EidasInv'
<1>1. PICK a \in EidasApps, id \in {Fresh(RequestIds \ DOMAIN issued)} :
        /\ states' = Store(states, id, [app |-> a, window |-> w])
        /\ issued' = Store(issued, id, CreateAuthnRequest(a, w))
  BY DEF CreateAuthRequest
<1>2. id \in RequestIds \ DOMAIN issued
  BY FreshIsOne DEF CreateAuthRequest
<1>3. /\ DOMAIN issued' = DOMAIN issued \union {id}
      /\ DOMAIN states' = DOMAIN states \union {id}
      /\ issued'[id].app = a /\ issued'[id].window = w /\ states'[id] = [app |-> a, window |-> w]
      /\ \A i \in DOMAIN issued : issued'[i] = issued[i]
      /\ \A i \in DOMAIN states : i # id => states'[i] = states[i]
  BY <1>1, <1>2 DEF Store, CreateAuthnRequest
<1>4. IssuedInv'
  BY <1>2, <1>3 DEF EidasInv, IssuedInv
<1>5. UNCHANGED <<credentials, certified, resident, photos, visit, cut>>
  BY DEF CreateAuthRequest, Same
<1>6. IssuedStay(issued, issued') /\ PersonsStay(resident, resident)
  BY <1>3, NothingMoves DEF IssuedStay
<1>7. \A p \in Visits : LoginOK(visit[p], issued', resident)
  <2> TAKE p \in Visits
  <2>1. LoginOK(visit[p], issued, resident)
    BY DEF EidasInv, VisitInv
  <2> QED BY <1>6, <2>1, LoginsStay
<1> QED BY <1>4, <1>5, <1>7 DEF EidasInv, VisitInv, ResidentInv, CertifiedInv, Does

\* A step of a login that leaves the tables alone.
LEMMA LoginGoesOn ==
  ASSUME EidasInv, NEW p \in Visits, NEW v \in VisitRec, Becomes(p, v), ~Does(p, "certify"),
         LoginOK(v, issued, resident), photos' \subseteq Photos,
         UNCHANGED <<credentials, certified, cut, states, issued, resident>>
  PROVE  EidasInv'
<1>1. VisitInv'
  BY NothingMoves, OneVisitInv DEF EidasInv
<1>2. CertifiedInv'
  BY OthersCertified DEF EidasInv
<1> QED BY <1>1, <1>2 DEF EidasInv, IssuedInv, ResidentInv

LEMMA ResponseEidasInv ==
  ASSUME EidasInv, NEW p \in Visits, SamlApplicationLogin(p)
  PROVE  EidasInv'
<1>1. PICK id \in DOMAIN issued, x \in Identities : Becomes(p, AuthnResponse(id, x))
  BY DEF SamlApplicationLogin
<1>2. PICK v : v = AuthnResponse(id, x)
  OBVIOUS
<1>3. /\ id \in RequestIds /\ issued[id].app \in Apps /\ issued[id].window \in Windows
      /\ x \in [person: Persons, email: Mailboxes \union {None},
                photo: {"default", "sent"}, attributes: SUBSET Configured]
  BY EidasAssumption DEF EidasInv, IssuedInv
<1>4. AssertionAttributes(id, x) \in SUBSET Configured
  BY <1>3, EidasAssumption DEF AssertionAttributes
<1>5. /\ v \in VisitRec /\ v.pc = "photo" /\ v.to = id /\ v.app = issued[id].app
      /\ v.photo = x.photo /\ v.person = x.person
  BY <1>2, <1>3, <1>4 DEF AuthnResponse, NoVisit, VisitRec, VisitPcs
<1>6. LoginOK(v, issued, resident)
  BY <1>3, <1>5 DEF LoginOK
<1>7. /\ UNCHANGED <<credentials, certified, states, resident, photos, issued, cut>>
      /\ ~Does(p, "certify")
  BY DEF SamlApplicationLogin, Same, Opens, Does
<1>8. photos' \subseteq Photos
  BY <1>7 DEF EidasInv, ResidentInv
<1> QED BY <1>1, <1>2, <1>5, <1>6, <1>7, <1>8, LoginGoesOn

LEMMA FailureEidasInv ==
  ASSUME EidasInv, NEW p \in Visits, Becomes(p, Failed), ~Does(p, "certify"),
         photos' \subseteq Photos,
         UNCHANGED <<credentials, certified, cut, states, issued, resident>>
  PROVE  EidasInv'
BY BlankVisits, LoginGoesOn

LEMMA ToImageEidasInv ==
  ASSUME EidasInv, NEW p \in Visits, ToImage(p)
  PROVE  EidasInv'
<1>1. visit[p] \in VisitRec /\ LoginOK(visit[p], issued, resident) /\ photos \subseteq Photos
  BY DEF EidasInv, VisitInv, ResidentInv
<1>2. /\ visit[p].pc = "photo" /\ ~Does(p, "certify")
      /\ UNCHANGED <<credentials, certified, cut, states, issued, resident>>
  BY DEF ToImage, Does, Same, histories
<1>3. ASSUME NEW i \in Photos \union {"default"}, photos' \subseteq Photos,
             Becomes(p, [visit[p] EXCEPT !.pc = "find", !.photo = i])
      PROVE  EidasInv'
  <2>1. PICK v : v = [visit[p] EXCEPT !.pc = "find", !.photo = i]
    OBVIOUS
  <2>2. /\ v \in VisitRec /\ v.pc = "find" /\ v.photo = i
        /\ v.to = visit[p].to /\ v.app = visit[p].app /\ v.person = visit[p].person
    BY <1>1, <2>1 DEF VisitRec, VisitPcs
  <2>3. LoginOK(v, issued, resident)
    BY <1>1, <1>2, <2>2 DEF LoginOK
  <2> QED BY <1>2, <1>3, <2>1, <2>2, <2>3, LoginGoesOn
<1>4. CASE visit[p].photo = "default" /\ Becomes(p, [visit[p] EXCEPT !.pc = "find"]) /\ Same(photos)
  <2>1. [visit[p] EXCEPT !.pc = "find"] = [visit[p] EXCEPT !.pc = "find", !.photo = "default"]
    BY <1>1, <1>4 DEF VisitRec
  <2> QED BY <1>1, <1>3, <1>4, <2>1 DEF Same
<1>5. CASE /\ Photos \ (photos \union InUse) # {}
           /\ \E i \in {Fresh(Photos \ (photos \union InUse))} :
                /\ photos' = photos \union {i}
                /\ Becomes(p, [visit[p] EXCEPT !.pc = "find", !.photo = i])
  BY <1>1, <1>3, <1>5, FreshIsOne
<1>6. CASE Leaves(p) /\ Same(photos)
  BY <1>1, <1>2, <1>6, FailureEidasInv DEF Leaves, Same
<1> QED BY <1>4, <1>5, <1>6 DEF ToImage

LEMMA FindUserEidasInv ==
  ASSUME EidasInv, NEW p \in Visits, FindUser(p)
  PROVE  EidasInv'
<1>1. /\ visit[p] \in VisitRec /\ LoginOK(visit[p], issued, resident) /\ photos \subseteq Photos
      /\ resident \in [DOMAIN resident -> Resident] /\ DOMAIN resident \subseteq Users
  BY DEF EidasInv, VisitInv, ResidentInv
<1>2. /\ visit[p].pc = "find" /\ ~Does(p, "certify")
      /\ UNCHANGED <<credentials, certified, cut, states, issued, resident, photos>>
  BY DEF FindUser, Does, Same, histories
<1>3. CASE Becomes(p, [visit[p] EXCEPT !.pc = "create"])
  <2>1. PICK v : v = [visit[p] EXCEPT !.pc = "create"]
    OBVIOUS
  <2>2. /\ v \in VisitRec /\ v.pc = "create" /\ v.photo = visit[p].photo
        /\ v.to = visit[p].to /\ v.app = visit[p].app /\ v.person = visit[p].person
    BY <1>1, <2>1 DEF VisitRec, VisitPcs
  <2>3. LoginOK(v, issued, resident)
    BY <1>1, <1>2, <2>2 DEF LoginOK
  <2> QED BY <1>1, <1>2, <1>3, <2>1, <2>2, <2>3, LoginGoesOn
<1>4. ASSUME NEW u \in FindPerson(p),
             Becomes(p, [visit[p] EXCEPT !.pc = "destroy", !.user = u, !.copy = resident[u]])
      PROVE  EidasInv'
  <2>1. PICK v : v = [visit[p] EXCEPT !.pc = "destroy", !.user = u, !.copy = resident[u]]
    OBVIOUS
  <2>2. u \in DOMAIN resident /\ u \in Users /\ resident[u] \in Resident
    BY <1>1 DEF FindPerson
  <2>3. /\ v \in VisitRec /\ v.pc = "destroy" /\ v.photo = visit[p].photo
        /\ v.to = visit[p].to /\ v.app = visit[p].app /\ v.person = visit[p].person
        /\ v.user = u /\ v.copy = resident[u]
    BY <1>1, <2>1, <2>2 DEF VisitRec, VisitPcs
  <2>4. LoginOK(v, issued, resident)
    BY <1>1, <1>2, <2>2, <2>3 DEF LoginOK, FindPerson
  <2> QED BY <1>1, <1>2, <1>4, <2>1, <2>3, <2>4, LoginGoesOn
<1> QED BY <1>3, <1>4 DEF FindUser

LEMMA DestroyEidasInv ==
  ASSUME EidasInv, NEW p \in Visits, DestroyPhoto(p)
  PROVE  EidasInv'
<1>1. visit[p] \in VisitRec /\ LoginOK(visit[p], issued, resident) /\ photos \subseteq Photos
  BY DEF EidasInv, VisitInv, ResidentInv
<1>2. /\ visit[p].pc = "destroy" /\ ~Does(p, "certify") /\ photos' \subseteq Photos
      /\ UNCHANGED <<credentials, certified, cut, states, issued, resident>>
  BY <1>1 DEF DestroyPhoto, Does, Same, histories
<1>3. CASE Becomes(p, [visit[p] EXCEPT !.pc = "replace"])
  <2>1. PICK v : v = [visit[p] EXCEPT !.pc = "replace"]
    OBVIOUS
  <2>2. /\ v \in VisitRec /\ v.pc = "replace" /\ v.photo = visit[p].photo
        /\ v.to = visit[p].to /\ v.app = visit[p].app /\ v.person = visit[p].person
        /\ v.user = visit[p].user /\ v.copy = visit[p].copy
    BY <1>1, <2>1 DEF VisitRec, VisitPcs
  <2>3. LoginOK(v, issued, resident)
    BY <1>1, <1>2, <2>2 DEF LoginOK
  <2> QED BY <1>2, <1>3, <2>1, <2>2, <2>3, LoginGoesOn
<1>4. CASE Becomes(p, Failed)
  BY <1>2, <1>4, FailureEidasInv
<1> QED BY <1>3, <1>4 DEF DestroyPhoto

\* The account is written, and the session returns to where the request came from.
LEMMA SettlesEidasInv ==
  ASSUME EidasInv, NEW p \in Visits, NEW u \in Users, Settles(p, u),
         visit[p].pc \in {"replace", "create"},
         resident' \in [DOMAIN resident' -> Resident], DOMAIN resident' \subseteq Users,
         PersonsStay(resident, resident'),
         u \in DOMAIN resident', resident'[u].person = visit[p].person
  PROVE  EidasInv'
<1>1. /\ visit[p] \in VisitRec /\ LoginOK(visit[p], issued, resident)
      /\ IssuedInv /\ ~Does(p, "certify")
  BY DEF EidasInv, VisitInv, Does
<1>2. UNCHANGED <<credentials, certified, cut, states, issued, photos>>
  BY DEF Settles, Same
<1>3. VisitInv'
  <2>1. CASE visit[p].to \notin DOMAIN states
    <3>1. Becomes(p, Failed)
      BY <2>1 DEF Settles
    <3> QED BY <1>2, <3>1, BlankVisits, NothingMoves, OneVisitInv DEF EidasInv
  <2>2. CASE visit[p].to \in DOMAIN states
    <3>1. PICK v : v = [visit[p] EXCEPT !.pc = "returned", !.user = u, !.copy = None,
                                        !.back = states[visit[p].to]]
      OBVIOUS
    <3>2. Becomes(p, v)
      BY <2>2, <3>1 DEF Settles
    <3>3. PICK id : id = visit[p].to
      OBVIOUS
    <3>4. /\ id \in DOMAIN issued /\ issued[id].app \in EidasApps /\ issued[id].window \in Windows
          /\ states[id] = [app |-> issued[id].app, window |-> issued[id].window]
      BY <1>1, <2>2, <3>3 DEF IssuedInv
    <3>5. states[id] \in Origin
      BY <3>4 DEF Origin
    <3>6. /\ v \in VisitRec /\ v.pc = "returned" /\ v.user = u /\ v.back = states[id]
          /\ v.to = id /\ v.app = visit[p].app /\ v.person = visit[p].person
      BY <1>1, <3>1, <3>3, <3>5 DEF VisitRec, VisitPcs
    <3>7. LoginOK(v, issued', resident')
      BY <1>1, <1>2, <3>3, <3>4, <3>6 DEF LoginOK
    <3> QED BY <1>2, <3>2, <3>6, <3>7, NothingMoves, OneVisitInv DEF EidasInv
  <2> QED BY <2>1, <2>2
<1>4. CertifiedInv'
  <2>1. \A q \in Visits \ {p} : visit'[q] = visit[q]
    BY DEF Settles, Becomes, EidasInv, VisitInv
  <2>2. \A q \in Visits : Does(q, "certify") => Does(q, "certify")' /\ visit'[q].app = visit[q].app
    BY <1>1, <2>1 DEF Does
  <2> QED BY <1>2, <2>2 DEF CertifiedInv, EidasInv
<1>5. ResidentInv'
  BY <1>2 DEF EidasInv, ResidentInv
<1> QED BY <1>1, <1>2, <1>3, <1>4, <1>5 DEF EidasInv, IssuedInv

\* What is written into an account that is there.
LEMMA SavedAccount ==
  ASSUME EidasInv, NEW p \in Visits, SaveUser(p)
  PROVE  /\ visit[p].pc = "replace" /\ visit[p].user \in DOMAIN resident
         /\ Settles(p, visit[p].user)
         /\ DOMAIN resident' = DOMAIN resident
         /\ resident' \in [DOMAIN resident -> Resident]
         /\ \A v \in DOMAIN resident \ {visit[p].user} : resident'[v] = resident[v]
         /\ resident'[visit[p].user].person = resident[visit[p].user].person
         /\ resident'[visit[p].user].photo = IF visit[p].photo = "default" THEN visit[p].copy.photo ELSE visit[p].photo
         /\ resident'[visit[p].user].profile = visit[p].copy.profile \union visit[p].attributes
         /\ resident'[visit[p].user].email = NewEmail(p)
<1>1. PICK u : u = visit[p].user
  OBVIOUS
<1>2. /\ visit[p] \in VisitRec /\ LoginOK(visit[p], issued, resident)
      /\ resident \in [DOMAIN resident -> Resident]
  BY DEF EidasInv, VisitInv, ResidentInv
<1>3. visit[p].pc = "replace" /\ Settles(p, u)
  BY <1>1 DEF SaveUser, Does
<1>4. u \in DOMAIN resident /\ visit[p].copy \in Resident /\ resident[u] \in Resident
      /\ visit[p].photo \in Photos \union {"default"}
  BY <1>1, <1>2, <1>3 DEF LoginOK
<1>5. PICK email : email = NewEmail(p)
  OBVIOUS
<1>6. PICK photo : photo = IF visit[p].photo = "default" THEN visit[p].copy.photo ELSE visit[p].photo
  OBVIOUS
<1>7. PICK profile : profile = visit[p].copy.profile \union visit[p].attributes
  OBVIOUS
<1>8. email \in Mailboxes \union {None}
  BY <1>2, <1>4, <1>5 DEF NewEmail, VisitRec, Resident
<1>9. photo \in Photos \union {"default"}
  BY <1>4, <1>6 DEF Resident
<1>10. profile \in SUBSET Configured
  BY <1>2, <1>4, <1>7 DEF VisitRec, Resident
<1>11. PICK r : r = [resident[u] EXCEPT !.email = email, !.photo = photo, !.profile = profile]
  OBVIOUS
<1>12. resident' = [resident EXCEPT ![u] = r]
  <2>1. resident' = [resident EXCEPT ![u] =
                [@ EXCEPT !.email = NewEmail(p),
                          !.photo = IF visit[p].photo = "default" THEN visit[p].copy.photo ELSE visit[p].photo,
                          !.profile = visit[p].copy.profile \union visit[p].attributes]]
    BY <1>1 DEF SaveUser
  <2>2. resident' = [resident EXCEPT ![u] = [@ EXCEPT !.email = email, !.photo = photo, !.profile = profile]]
    BY <2>1, <1>5, <1>6, <1>7
  <2> QED BY <1>11, <2>2
<1>13. /\ r \in Resident /\ r.person = resident[u].person /\ r.photo = photo /\ r.profile = profile
       /\ r.email = email
  BY <1>4, <1>8, <1>9, <1>10, <1>11 DEF Resident
<1>14. /\ DOMAIN resident' = DOMAIN resident /\ resident' \in [DOMAIN resident -> Resident]
       /\ resident'[u] = r /\ \A v \in DOMAIN resident \ {u} : resident'[v] = resident[v]
  BY <1>2, <1>4, <1>12, <1>13
<1> QED BY <1>1, <1>3, <1>4, <1>5, <1>6, <1>7, <1>13, <1>14

LEMMA SaveEidasInv ==
  ASSUME EidasInv, NEW p \in Visits, SaveUser(p)
  PROVE  EidasInv'
<1>1. PICK u : u = visit[p].user
  OBVIOUS
<1>2. /\ visit[p].pc = "replace" /\ u \in DOMAIN resident /\ Settles(p, u)
      /\ DOMAIN resident' = DOMAIN resident
      /\ resident' \in [DOMAIN resident -> Resident]
      /\ \A v \in DOMAIN resident \ {u} : resident'[v] = resident[v]
      /\ resident'[u].person = resident[u].person
  BY <1>1, SavedAccount
<1>3. PersonsStay(resident, resident')
  BY <1>2 DEF PersonsStay
<1>4. u \in Users /\ DOMAIN resident' \subseteq Users
  BY <1>2 DEF EidasInv, ResidentInv
<1>5. resident[u].person = visit[p].person
  BY <1>1, <1>2 DEF EidasInv, VisitInv, LoginOK
<1>6. resident' \in [DOMAIN resident' -> Resident] /\ resident'[u].person = visit[p].person
  BY <1>2, <1>5
<1> QED BY <1>2, <1>3, <1>4, <1>6, SettlesEidasInv

LEMMA CreatedAccount ==
  ASSUME EidasInv, NEW p \in Visits, CreateUser(p)
  PROVE  /\ visit[p].pc = "create"
         /\ \E u \in Users \ DOMAIN resident :
              /\ Settles(p, u)
              /\ DOMAIN resident' = DOMAIN resident \union {u}
              /\ resident' \in [DOMAIN resident' -> Resident]
              /\ \A v \in DOMAIN resident : resident'[v] = resident[v]
              /\ resident'[u].person = visit[p].person
              /\ resident'[u].photo = visit[p].photo
              /\ resident'[u].profile = visit[p].attributes
              /\ resident'[u].email = visit[p].email
<1>1. /\ visit[p] \in VisitRec /\ LoginOK(visit[p], issued, resident)
      /\ resident \in [DOMAIN resident -> Resident]
  BY DEF EidasInv, VisitInv, ResidentInv
<1>2. visit[p].pc = "create" /\ visit[p].photo \in Photos \union {"default"}
  BY <1>1 DEF CreateUser, Does, LoginOK
<1>3. PICK u \in {Fresh(Users \ DOMAIN resident)} :
        /\ resident' = Store(resident, u, [person |-> visit[p].person, email |-> visit[p].email,
                                           photo |-> visit[p].photo, profile |-> visit[p].attributes])
        /\ Settles(p, u)
  BY DEF CreateUser
<1>4. u \in Users \ DOMAIN resident
  BY FreshIsOne DEF CreateUser
<1>5. PICK r : r = [person |-> visit[p].person, email |-> visit[p].email,
                    photo |-> visit[p].photo, profile |-> visit[p].attributes]
  OBVIOUS
<1>6. visit[p].person \in Persons
  BY <1>1, <1>2 DEF LoginOK
<1>7. /\ r \in Resident /\ r.person = visit[p].person /\ r.photo = visit[p].photo
      /\ r.profile = visit[p].attributes /\ r.email = visit[p].email
  BY <1>1, <1>2, <1>5, <1>6 DEF VisitRec, Resident
<1>8. resident' = [y \in DOMAIN resident \union {u} |-> IF y = u THEN r ELSE resident[y]]
  BY <1>3, <1>5 DEF Store
<1>9. /\ DOMAIN resident' = DOMAIN resident \union {u}
      /\ \A v \in DOMAIN resident : resident'[v] = resident[v]
      /\ resident'[u] = r
  BY <1>4, <1>8
<1>10. resident' \in [DOMAIN resident' -> Resident]
  BY <1>1, <1>7, <1>8, <1>9
<1> QED BY <1>2, <1>3, <1>4, <1>7, <1>9, <1>10

LEMMA CreateEidasInv ==
  ASSUME EidasInv, NEW p \in Visits, CreateUser(p)
  PROVE  EidasInv'
<1>1. PICK u \in Users \ DOMAIN resident :
              /\ Settles(p, u)
              /\ DOMAIN resident' = DOMAIN resident \union {u}
              /\ resident' \in [DOMAIN resident' -> Resident]
              /\ \A v \in DOMAIN resident : resident'[v] = resident[v]
              /\ resident'[u].person = visit[p].person
  BY CreatedAccount
<1>2. PersonsStay(resident, resident')
  BY <1>1 DEF PersonsStay
<1>3. DOMAIN resident' \subseteq Users
  BY <1>1 DEF EidasInv, ResidentInv
<1>4. visit[p].pc = "create"
  BY CreatedAccount
<1> QED BY <1>1, <1>2, <1>3, <1>4, SettlesEidasInv

LEMMA StopEidasInv ==
  ASSUME EidasInv, StopProcess
  PROVE  EidasInv'
<1>1. /\ states' = <<>> /\ visit' = [p \in Visits |-> IF Over(p) THEN visit[p] ELSE Failed]
      /\ cut' = cut \union {visit[p].app : p \in {r \in Visits : Does(r, "certify")}}
      /\ UNCHANGED <<credentials, certified, resident, photos, issued>>
  BY DEF StopProcess, Same
<1>2. DOMAIN states' = {}
  BY <1>1
<1>3. IssuedInv'
  BY <1>1, <1>2 DEF EidasInv, IssuedInv
<1>4. ASSUME NEW p \in Visits
      PROVE  visit'[p] \in VisitRec /\ LoginOK(visit'[p], issued, resident)
  BY <1>1, BlankVisits DEF EidasInv, VisitInv
<1>5. VisitInv'
  <2>1. visit' = [p \in Visits |-> visit'[p]]
    BY <1>1
  <2> QED BY <1>1, <1>4, <2>1 DEF VisitInv
<1>6. CertifiedInv'
  BY <1>1 DEF EidasInv, CertifiedInv
<1> QED BY <1>1, <1>3, <1>5, <1>6 DEF EidasInv, ResidentInv

LEMMA LoginEidasInv ==
  ASSUME EidasInv, LoginStep
  PROVE  EidasInv'
<1>1. ASSUME NEW p \in Visits, AssertFails(p) PROVE EidasInv'
  <2>1. /\ Becomes(p, Failed) /\ ~Does(p, "certify")
        /\ UNCHANGED <<credentials, certified, cut, states, resident, photos, issued>>
    BY <1>1 DEF AssertFails, Leaves, Opens, Does, Same, histories
  <2> QED BY <2>1, FailureEidasInv DEF EidasInv, ResidentInv
<1>2. ASSUME NEW p \in Visits, SaveUserFails(p) PROVE EidasInv'
  <2>1. /\ Becomes(p, Failed) /\ ~Does(p, "certify")
        /\ UNCHANGED <<credentials, certified, cut, states, resident, photos, issued>>
    BY <1>2 DEF SaveUserFails, Leaves, Does, Same
  <2> QED BY <2>1, FailureEidasInv DEF EidasInv, ResidentInv
<1> QED BY <1>1, <1>2, RequestEidasInv, ResponseEidasInv, ToImageEidasInv, FindUserEidasInv,
      DestroyEidasInv, SaveEidasInv, CreateEidasInv, StopEidasInv DEF LoginStep

LEMMA EidasStarts ==
  ASSUME EidasInit
  PROVE  EidasInv
<1>1. /\ states = <<>> /\ resident = <<>> /\ photos = {} /\ issued = <<>> /\ cut = {}
      /\ visit = [p \in Visits |-> NoVisit] /\ certified = DOMAIN credentials
  BY DEF EidasInit
<1>2. DOMAIN resident = {} /\ DOMAIN issued = {} /\ DOMAIN states = {}
  BY <1>1
<1>3. VisitInv
  BY <1>1, BlankVisits DEF VisitInv
<1>4. IssuedInv /\ CertifiedInv
  BY <1>1, <1>2 DEF IssuedInv, CertifiedInv
<1>5. ResidentInv
  <2>1. resident = [u \in DOMAIN resident |-> resident[u]]
    BY <1>1, <1>2
  <2> QED BY <1>1, <1>2, <2>1 DEF ResidentInv
<1> QED BY <1>3, <1>4, <1>5 DEF EidasInv

LEMMA EidasInvStep ==
  ASSUME EidasInv, [CredentialStep \/ LoginStep]_eidasVars
  PROVE  EidasInv'
<1>1. CASE UNCHANGED eidasVars
  BY <1>1 DEF eidasVars, EidasInv, VisitInv, IssuedInv, ResidentInv, CertifiedInv, Does
<1> QED BY <1>1, CredentialEidasInv, LoginEidasInv

\* A login that succeeds ends in the session of the person in the response, in the browser and
\* at the application whose request it answers (create_auth_request, saml2_application_login),
\* however many requests and responses are under way; and an application whose credentials are
\* made has its certificates, unless they could not be made.
THEOREM LoginsReturn == EidasSpec => []LoginsReturnToTheirRequest
<1>1. EidasInit => EidasInv
  BY EidasStarts
<1>2. EidasInv /\ [CredentialStep \/ LoginStep]_eidasVars => EidasInv'
  BY EidasInvStep
<1>3. EidasInv => LoginsReturnToTheirRequest
  BY DEF EidasInv, VisitInv, CertifiedInv, LoginOK, Does, LoginsReturnToTheirRequest
<1> QED BY <1>1, <1>2, <1>3, PTL DEF EidasSpec

(***************************************************************************)
(* Accounts of persons.  Two logins of one person may find no account, or  *)
(* the same one, and such persons are excused; what is excused for one     *)
(* must not reach another's account, which is why every name of a photo    *)
(* has to stay with one person.                                            *)
(***************************************************************************)
HasCopy(p) == visit[p].pc \in {"destroy", "replace"}
Alone(x) == x \notin doubled
Present(i) == i \in photos \union {"default"}

OneLogin ==
    \A p, q \in Visits :
        InLogin(p) /\ InLogin(q) /\ visit[p].person = visit[q].person /\ Alone(visit[p].person) => p = q
OneAccount ==
    \A u, v \in DOMAIN resident :
        resident[u].person = resident[v].person /\ Alone(resident[u].person) => u = v
NoneYet ==
    \A p \in Visits : Does(p, "create") /\ Alone(visit[p].person) =>
        \A u \in DOMAIN resident : resident[u].person # visit[p].person
CopiesCurrent ==
    \A p \in Visits : HasCopy(p) /\ Alone(visit[p].person) => visit[p].copy = resident[visit[p].user]
Brought ==
    /\ DOMAIN brought = DOMAIN resident
    /\ \A u \in DOMAIN resident : Alone(resident[u].person) => brought[u] \subseteq resident[u].profile
AccountInv == OneLogin /\ OneAccount /\ NoneYet /\ CopiesCurrent /\ Brought

OneOwner ==
    /\ \A u, v \in DOMAIN resident :
        resident[u].photo \in Photos /\ resident[u].photo = resident[v].photo =>
            resident[u].person = resident[v].person
    /\ \A u \in DOMAIN resident, p \in Visits :
        HasCopy(p) /\ resident[u].photo \in Photos /\ resident[u].photo = visit[p].copy.photo =>
            resident[u].person = visit[p].person
    /\ \A p, q \in Visits :
        HasCopy(p) /\ HasCopy(q) /\ visit[p].copy.photo \in Photos
            /\ visit[p].copy.photo = visit[q].copy.photo => visit[p].person = visit[q].person
StillNew ==
    \A p \in Visits : InLogin(p) /\ visit[p].photo \in Photos =>
        /\ visit[p].photo \in photos
        /\ \A u \in DOMAIN resident : resident[u].photo # visit[p].photo
        /\ \A q \in Visits : HasCopy(q) => visit[q].copy.photo # visit[p].photo
        /\ \A q \in Visits \ {p} : InLogin(q) => visit[q].photo # visit[p].photo
PhotosThere ==
    /\ \A p \in Visits : Does(p, "replace") /\ Alone(visit[p].person) /\ Old(p) = "default" =>
            Present(resident[visit[p].user].photo) \/ visit[p].person \in torn
    /\ \A u \in DOMAIN resident : Alone(resident[u].person) =>
            \/ Present(resident[u].photo) \/ resident[u].person \in torn
            \/ \E p \in Visits : Does(p, "replace") /\ visit[p].user = u
PhotoInv == OneOwner /\ StillNew /\ PhotosThere

LEMMA LoginStages ==
  ASSUME NEW p \in Visits
  PROVE  /\ HasCopy(p) \/ Does(p, "create") \/ Does(p, "replace") => InLogin(p)
         /\ Does(p, "replace") => HasCopy(p)
BY DEF HasCopy, Does, InLogin

\* Logins that end without having written, and what is no login.
LEMMA FewerLogins ==
  ASSUME AccountInv, PhotoInv,
         UNCHANGED <<resident, photos, brought, doubled>>, torn \subseteq torn',
         \A q \in Visits : visit'[q] = visit[q] \/ ~InLogin(q)',
         \A q \in Visits : Does(q, "replace") /\ visit'[q] # visit[q] =>
            Old(q) = "default" \/ visit[q].person \in torn',
         \A q \in Visits : Does(q, "replace") =>
            visit[q].user \in DOMAIN resident /\ resident[visit[q].user].person = visit[q].person
  PROVE  AccountInv' /\ PhotoInv'
<1>1. \A q \in Visits : InLogin(q)' => InLogin(q) /\ visit'[q] = visit[q]
  BY DEF InLogin
<1>2. \A q \in Visits : HasCopy(q)' => HasCopy(q) /\ visit'[q] = visit[q]
  BY <1>1 DEF HasCopy, InLogin
<1>3. \A q \in Visits :
        /\ Does(q, "create")' => Does(q, "create") /\ visit'[q] = visit[q]
        /\ Does(q, "replace")' => Does(q, "replace") /\ visit'[q] = visit[q] /\ Old(q)' = Old(q)
  BY <1>1 DEF Does, InLogin, Old
<1>4. \A x : Alone(x)' <=> Alone(x)
  BY DEF Alone
<1>5. AccountInv'
  BY <1>1, <1>2, <1>3, <1>4 DEF AccountInv, OneLogin, OneAccount, NoneYet, CopiesCurrent, Brought
<1>6. OneOwner' /\ StillNew'
  BY <1>1, <1>2 DEF PhotoInv, OneOwner, StillNew
<1>7. PhotosThere'
  <2>1. \A i : Present(i)' <=> Present(i)
    BY DEF Present
  <2>2. ASSUME NEW p \in Visits, (Does(p, "replace") /\ Alone(visit[p].person) /\ Old(p) = "default")'
        PROVE  (Present(resident[visit[p].user].photo) \/ visit[p].person \in torn)'
    BY <1>3, <1>4, <2>1, <2>2 DEF PhotoInv, PhotosThere
  <2>3. ASSUME NEW u \in DOMAIN resident, Alone(resident[u].person)
        PROVE  \/ Present(resident[u].photo) \/ resident[u].person \in torn'
               \/ \E p \in Visits : Does(p, "replace")' /\ visit'[p].user = u
    <3>1. CASE Present(resident[u].photo) \/ resident[u].person \in torn
      BY <3>1
    <3>2. ASSUME NEW p \in Visits, Does(p, "replace"), visit[p].user = u
          PROVE  \/ Present(resident[u].photo) \/ resident[u].person \in torn'
                 \/ \E q \in Visits : Does(q, "replace")' /\ visit'[q].user = u
      <4>1. CASE visit'[p] = visit[p]
        BY <3>2, <4>1 DEF Does
      <4>2. CASE visit'[p] # visit[p]
        BY <2>3, <3>2, <4>2 DEF PhotoInv, PhotosThere
      <4> QED BY <4>1, <4>2
    <3> QED BY <2>3, <3>1, <3>2 DEF PhotoInv, PhotosThere
  <2> QED BY <1>4, <2>1, <2>2, <2>3 DEF PhotosThere
<1> QED BY <1>5, <1>6, <1>7 DEF PhotoInv

\* The steps of that kind.
LEMMA CredentialAccountInv ==
  ASSUME EidasInv, AccountInv, PhotoInv, CredentialStep
  PROVE  AccountInv' /\ PhotoInv'
<1>1. UNCHANGED <<resident, photos, brought, torn, doubled>>
  BY DEF CredentialStep, StepCreate, SaveCredentials, SaveCredentialsFails, GenerateAppCertificates,
     GenerateAppCertificatesFails, UpdateEidasInfo, UpdateEidasAttributes, Same, histories
<1>2. \A q \in Visits : HasCopy(q) =>
            visit[q].user \in DOMAIN resident /\ resident[visit[q].user].person = visit[q].person
  BY DEF EidasInv, VisitInv, LoginOK, HasCopy
<1>3. \A q \in Visits : visit'[q] = visit[q] \/ (~InLogin(q)' /\ ~Does(q, "replace"))
  <2>1. ASSUME NEW p \in Visits, NEW v, Becomes(p, v),
               v.pc \notin {"photo", "find", "destroy", "replace", "create"}, ~Does(p, "replace")
        PROVE  \A q \in Visits : visit'[q] = visit[q] \/ (~InLogin(q)' /\ ~Does(q, "replace"))
    BY <2>1 DEF Becomes, EidasInv, VisitInv, InLogin
  <2>2. ASSUME NEW p \in Visits, StepCreate(p)
        PROVE  \A q \in Visits : visit'[q] = visit[q] \/ (~InLogin(q)' /\ ~Does(q, "replace"))
    <3>1. PICK a \in EidasApps : Becomes(p, [NoVisit EXCEPT !.pc = "save", !.app = a])
      BY <2>2 DEF StepCreate
    <3>2. [NoVisit EXCEPT !.pc = "save", !.app = a].pc = "save"
      BY DEF NoVisit
    <3>3. ~Does(p, "replace")
      BY <2>2 DEF StepCreate, Opens, Does
    <3> QED BY <2>1, <3>1, <3>2, <3>3
  <2>3. ASSUME NEW p \in Visits, SaveCredentials(p)
        PROVE  \A q \in Visits : visit'[q] = visit[q] \/ (~InLogin(q)' /\ ~Does(q, "replace"))
    <3>1. Becomes(p, [visit[p] EXCEPT !.pc = "certify"]) /\ ~Does(p, "replace")
      BY <2>3 DEF SaveCredentials, Does
    <3>2. [visit[p] EXCEPT !.pc = "certify"].pc = "certify"
      BY DEF EidasInv, VisitInv, VisitRec
    <3> QED BY <2>1, <3>1, <3>2
  <2>4. ASSUME NEW p \in Visits,
               SaveCredentialsFails(p) \/ GenerateAppCertificates(p) \/ GenerateAppCertificatesFails(p)
        PROVE  \A q \in Visits : visit'[q] = visit[q] \/ (~InLogin(q)' /\ ~Does(q, "replace"))
    <3>1. Becomes(p, Failed) /\ ~Does(p, "replace")
      BY <2>4 DEF SaveCredentialsFails, GenerateAppCertificates, GenerateAppCertificatesFails, Leaves, Does
    <3> QED BY <2>1, <3>1, BlankVisits
  <2>5. CASE UpdateEidasInfo \/ UpdateEidasAttributes
    BY <2>5 DEF UpdateEidasInfo, UpdateEidasAttributes, Same
  <2> QED BY <2>2, <2>3, <2>4, <2>5 DEF CredentialStep
<1> QED BY <1>1, <1>2, <1>3, LoginStages, FewerLogins

LEMMA FailedAccountInv ==
  ASSUME EidasInv, AccountInv, PhotoInv, NEW p \in Visits, Becomes(p, Failed),
         UNCHANGED <<resident, photos, brought, doubled>>, torn \subseteq torn',
         Does(p, "replace") => Old(p) = "default" \/ visit[p].person \in torn'
  PROVE  AccountInv' /\ PhotoInv'
<1>1. visit'[p] = Failed /\ \A q \in Visits \ {p} : visit'[q] = visit[q]
  BY DEF Becomes, EidasInv, VisitInv
<1>2. ~InLogin(p)'
  BY <1>1, BlankVisits DEF InLogin
<1>3. \A q \in Visits : Does(q, "replace") =>
            visit[q].user \in DOMAIN resident /\ resident[visit[q].user].person = visit[q].person
  BY DEF EidasInv, VisitInv, LoginOK, Does
<1> QED BY <1>1, <1>2, <1>3, FewerLogins

LEMMA StopAccountInv ==
  ASSUME EidasInv, AccountInv, PhotoInv, StopProcess
  PROVE  AccountInv' /\ PhotoInv'
<1>1. /\ visit' = [p \in Visits |-> IF Over(p) THEN visit[p] ELSE Failed]
      /\ torn' = torn \union {visit[p].person : p \in {r \in Visits : Does(r, "replace") /\ Old(r) # "default"}}
      /\ UNCHANGED <<resident, photos, brought, doubled>>
  BY DEF StopProcess, Same
<1>2. \A q \in Visits : visit'[q] = visit[q] \/ ~InLogin(q)'
  BY <1>1, BlankVisits DEF InLogin
<1>3. \A q \in Visits : Does(q, "replace") =>
            visit[q].user \in DOMAIN resident /\ resident[visit[q].user].person = visit[q].person
  BY DEF EidasInv, VisitInv, LoginOK, Does
<1>4. \A q \in Visits : Does(q, "replace") => Old(q) = "default" \/ visit[q].person \in torn'
  BY <1>1
<1> QED BY <1>1, <1>2, <1>3, <1>4, FewerLogins

LEMMA RequestAccountInv ==
  ASSUME EidasInv, AccountInv, PhotoInv, NEW w \in Windows, CreateAuthRequest(w)
  PROVE  AccountInv' /\ PhotoInv'
<1>1. UNCHANGED <<resident, photos, visit, brought, torn, doubled>>
  BY DEF CreateAuthRequest, Same
<1> QED BY <1>1 DEF AccountInv, OneLogin, OneAccount, NoneYet, CopiesCurrent, Brought, PhotoInv, OneOwner,
      StillNew, PhotosThere, Alone, Present, HasCopy, InLogin, Does, Old

\* A login begins, and is doubled if there is another of its person.
LEMMA ResponseAccountInv ==
  ASSUME EidasInv, AccountInv, PhotoInv, NEW p \in Visits, SamlApplicationLogin(p)
  PROVE  AccountInv' /\ PhotoInv'
<1>1. PICK id \in DOMAIN issued, x \in Identities :
        /\ Becomes(p, AuthnResponse(id, x))
        /\ doubled' = doubled \union
                {y \in {x.person} : \E r \in Visits \ {p} : InLogin(r) /\ visit[r].person = y}
  BY DEF SamlApplicationLogin
<1>2. x.photo \in {"default", "sent"}
  BY EidasAssumption
<1>3. /\ visit'[p] = AuthnResponse(id, x) /\ \A q \in Visits \ {p} : visit'[q] = visit[q]
      /\ visit'[p].pc = "photo" /\ visit'[p].person = x.person /\ visit'[p].photo = x.photo
  BY <1>1 DEF Becomes, EidasInv, VisitInv, AuthnResponse, NoVisit
<1>4. visit'[p].photo \notin Photos
  BY <1>2, <1>3, EidasAssumption
<1>5. /\ UNCHANGED <<resident, photos, brought, torn>>
      /\ Does(p, "none")
  BY DEF SamlApplicationLogin, Same, Opens
<1>6. /\ \A y : Alone(y)' => Alone(y)
      /\ \A r \in Visits \ {p} : InLogin(r) /\ visit[r].person = x.person => ~Alone(x.person)'
  BY <1>1 DEF Alone
<1>7. /\ ~HasCopy(p) /\ ~HasCopy(p)' /\ ~Does(p, "create")' /\ ~Does(p, "replace")'
      /\ ~Does(p, "replace") /\ InLogin(p)'
      /\ \A q \in Visits \ {p} : /\ HasCopy(q)' <=> HasCopy(q)
                                 /\ InLogin(q)' <=> InLogin(q)
                                 /\ Does(q, "create")' <=> Does(q, "create")
                                 /\ Does(q, "replace")' <=> Does(q, "replace")
                                 /\ Old(q)' = Old(q)
  BY <1>3, <1>5 DEF HasCopy, Does, InLogin, Old
<1>8. OneLogin'
  BY <1>3, <1>6, <1>7 DEF OneLogin, AccountInv
<1>9. AccountInv'
  BY <1>3, <1>5, <1>6, <1>7, <1>8 DEF AccountInv, OneAccount, NoneYet, CopiesCurrent, Brought
<1>10. OneOwner'
  BY <1>3, <1>5, <1>7 DEF PhotoInv, OneOwner
<1>11. StillNew'
  BY <1>3, <1>4, <1>5, <1>7 DEF PhotoInv, StillNew
<1>12. PhotosThere'
  BY <1>3, <1>5, <1>6, <1>7 DEF PhotoInv, PhotosThere, Present
<1> QED BY <1>9, <1>10, <1>11, <1>12 DEF PhotoInv

\* The photo's file gets a name that nobody holds.
LEMMA ToImageAccountInv ==
  ASSUME EidasInv, AccountInv, PhotoInv, NEW p \in Visits, ToImage(p)
  PROVE  AccountInv' /\ PhotoInv'
<1>1. /\ visit[p] \in VisitRec /\ visit[p].pc = "photo" /\ visit[p].photo \notin Photos
      /\ UNCHANGED <<resident, brought, torn, doubled>>
  <2>1. visit[p].pc = "photo"
    BY DEF ToImage, Does
  <2>2. visit[p] \in VisitRec /\ visit[p].photo \in {"default", "sent"}
    BY <2>1 DEF EidasInv, VisitInv, LoginOK
  <2> QED BY <2>1, <2>2, EidasAssumption DEF ToImage, Same, histories
<1>2. ASSUME NEW i, photos \subseteq photos', i \in Photos => i \in photos' /\ i \notin InUse,
             i \in Photos \union {"default"},
             Becomes(p, [visit[p] EXCEPT !.pc = "find", !.photo = i])
      PROVE  AccountInv' /\ PhotoInv'
  <2>1. /\ visit'[p] = [visit[p] EXCEPT !.pc = "find", !.photo = i]
        /\ \A q \in Visits \ {p} : visit'[q] = visit[q]
    BY <1>2 DEF Becomes, EidasInv, VisitInv
  <2>2. visit'[p].pc = "find" /\ visit'[p].photo = i /\ visit'[p].person = visit[p].person
    BY <1>1, <2>1 DEF VisitRec
  <2>3. /\ \A q \in Visits : /\ HasCopy(q)' <=> HasCopy(q)
                             /\ InLogin(q)' <=> InLogin(q)
                             /\ Does(q, "create")' <=> Does(q, "create")
                             /\ Does(q, "replace")' <=> Does(q, "replace")
                             /\ visit'[q].person = visit[q].person
                             /\ HasCopy(q) \/ Does(q, "create") \/ Does(q, "replace") => q # p /\ Old(q)' = Old(q)
    BY <1>1, <2>1, <2>2 DEF HasCopy, Does, InLogin, Old
  <2>4. /\ \A y : Alone(y)' <=> Alone(y)
        /\ \A y : Present(y) => Present(y)'
    BY <1>1, <1>2 DEF Alone, Present
  <2>5. AccountInv'
    <3>1. OneLogin' /\ OneAccount' /\ Brought'
      BY <1>1, <2>3, <2>4 DEF AccountInv, OneLogin, OneAccount, Brought
    <3>2. NoneYet' /\ CopiesCurrent'
      BY <1>1, <2>1, <2>3, <2>4 DEF AccountInv, NoneYet, CopiesCurrent
    <3> QED BY <3>1, <3>2 DEF AccountInv
  <2>6. OneOwner'
    BY <1>1, <2>1, <2>3 DEF PhotoInv, OneOwner
  <2>7. PhotosThere'
    BY <1>1, <2>1, <2>3, <2>4 DEF PhotoInv, PhotosThere
  <2>8. i \in Photos => /\ \A u \in DOMAIN resident : resident[u].photo # i
                        /\ \A q \in Visits : HasCopy(q) => visit[q].copy.photo # i
                        /\ \A q \in Visits : visit[q].photo # i
    BY <1>2 DEF InUse, HasCopy
  <2>9. StillNew'
    <3> SUFFICES ASSUME NEW q \in Visits, InLogin(q)', visit'[q].photo \in Photos
                 PROVE  /\ visit'[q].photo \in photos'
                        /\ \A u \in DOMAIN resident : resident[u].photo # visit'[q].photo
                        /\ \A r \in Visits : HasCopy(r)' => visit'[r].copy.photo # visit'[q].photo
                        /\ \A r \in Visits \ {q} : InLogin(r)' => visit'[r].photo # visit'[q].photo
      BY <1>1 DEF StillNew
    <3>1. CASE q = p
      <4>1. i \in Photos /\ i \in photos' /\ visit'[q].photo = i
        BY <1>2, <2>2, <3>1
      <4>2. \A r \in Visits : HasCopy(r)' => HasCopy(r) /\ visit'[r] = visit[r]
        BY <2>1, <2>3
      <4>3. \A r \in Visits \ {q} : visit'[r] = visit[r]
        BY <2>1, <3>1
      <4> QED BY <2>8, <4>1, <4>2, <4>3
    <3>2. CASE q # p
      <4>1. /\ visit[q].photo \in photos /\ visit'[q] = visit[q]
            /\ \A u \in DOMAIN resident : resident[u].photo # visit[q].photo
            /\ \A r \in Visits : HasCopy(r) => visit[r].copy.photo # visit[q].photo
            /\ \A r \in Visits \ {q} : InLogin(r) => visit[r].photo # visit[q].photo
        BY <2>1, <2>3, <3>2 DEF PhotoInv, StillNew
      <4>2. i # visit[q].photo
        BY <2>1, <2>8, <3>2
      <4> QED BY <1>2, <2>1, <2>2, <2>3, <4>1, <4>2
    <3> QED BY <3>1, <3>2
  <2> QED BY <2>5, <2>6, <2>7, <2>9 DEF PhotoInv
<1>3. CASE visit[p].photo = "default" /\ Becomes(p, [visit[p] EXCEPT !.pc = "find"]) /\ Same(photos)
  <2>1. [visit[p] EXCEPT !.pc = "find"] = [visit[p] EXCEPT !.pc = "find", !.photo = "default"]
    BY <1>1, <1>3 DEF VisitRec
  <2>2. "default" \notin Photos
    BY EidasAssumption
  <2> QED BY <1>2, <1>3, <2>1, <2>2 DEF Same
<1>4. CASE /\ Photos \ (photos \union InUse) # {}
           /\ \E i \in {Fresh(Photos \ (photos \union InUse))} :
                /\ photos' = photos \union {i}
                /\ Becomes(p, [visit[p] EXCEPT !.pc = "find", !.photo = i])
  <2>1. PICK i \in Photos \ (photos \union InUse) :
                /\ photos' = photos \union {i}
                /\ Becomes(p, [visit[p] EXCEPT !.pc = "find", !.photo = i])
    BY <1>4, FreshIsOne
  <2> QED BY <1>2, <2>1
<1>5. CASE Leaves(p) /\ Same(photos)
  BY <1>1, <1>5, FailedAccountInv DEF Leaves, Same, Does
<1> QED BY <1>3, <1>4, <1>5 DEF ToImage

\* An account is found, and copied, or there is none.
LEMMA FindAccountInv ==
  ASSUME EidasInv, AccountInv, PhotoInv, NEW p \in Visits, FindUser(p)
  PROVE  AccountInv' /\ PhotoInv'
<1>1. /\ visit[p] \in VisitRec /\ visit[p].pc = "find"
      /\ UNCHANGED <<resident, photos, brought, torn, doubled>>
  BY DEF FindUser, Does, Same, histories, EidasInv, VisitInv
<1>2. /\ \A y : Alone(y)' <=> Alone(y)
      /\ \A y : Present(y)' <=> Present(y)
  BY <1>1 DEF Alone, Present
<1>3. CASE FindPerson(p) = {} /\ Becomes(p, [visit[p] EXCEPT !.pc = "create"])
  <2>1. /\ visit'[p] = [visit[p] EXCEPT !.pc = "create"]
        /\ \A q \in Visits \ {p} : visit'[q] = visit[q]
    BY <1>3 DEF Becomes, EidasInv, VisitInv
  <2>2. visit'[p].pc = "create" /\ visit'[p].person = visit[p].person /\ visit'[p].photo = visit[p].photo
    BY <1>1, <2>1 DEF VisitRec
  <2>3. \A q \in Visits : /\ HasCopy(q)' <=> HasCopy(q)
                          /\ InLogin(q)' <=> InLogin(q)
                          /\ Does(q, "create")' => Does(q, "create") \/ q = p
                          /\ Does(q, "replace")' <=> Does(q, "replace")
                          /\ visit'[q].person = visit[q].person /\ visit'[q].photo = visit[q].photo
                          /\ HasCopy(q) \/ Does(q, "replace") => q # p /\ Old(q)' = Old(q)
    BY <1>1, <2>1, <2>2 DEF HasCopy, Does, InLogin, Old
  <2>4. \A u \in DOMAIN resident : resident[u].person # visit[p].person
    BY <1>3 DEF FindPerson
  <2>5. OneLogin' /\ OneAccount' /\ Brought' /\ CopiesCurrent'
    BY <1>1, <1>2, <2>1, <2>3 DEF AccountInv, OneLogin, OneAccount, Brought, CopiesCurrent
  <2>6. NoneYet'
    BY <1>1, <1>2, <2>3, <2>4 DEF AccountInv, NoneYet
  <2>7. OneOwner' /\ StillNew'
    BY <1>1, <2>1, <2>3 DEF PhotoInv, OneOwner, StillNew
  <2>8. PhotosThere'
    BY <1>1, <1>2, <2>1, <2>3 DEF PhotoInv, PhotosThere
  <2> QED BY <2>5, <2>6, <2>7, <2>8 DEF AccountInv, PhotoInv
<1>4. ASSUME NEW u \in FindPerson(p),
             Becomes(p, [visit[p] EXCEPT !.pc = "destroy", !.user = u, !.copy = resident[u]])
      PROVE  AccountInv' /\ PhotoInv'
  <2>1. /\ visit'[p] = [visit[p] EXCEPT !.pc = "destroy", !.user = u, !.copy = resident[u]]
        /\ \A q \in Visits \ {p} : visit'[q] = visit[q]
    BY <1>4 DEF Becomes, EidasInv, VisitInv
  <2>2. /\ visit'[p].pc = "destroy" /\ visit'[p].person = visit[p].person
        /\ visit'[p].photo = visit[p].photo /\ visit'[p].user = u /\ visit'[p].copy = resident[u]
    BY <1>1, <2>1 DEF VisitRec
  <2>3. \A q \in Visits : /\ HasCopy(q)' => HasCopy(q) \/ q = p
                          /\ InLogin(q)' <=> InLogin(q)
                          /\ Does(q, "create")' <=> Does(q, "create")
                          /\ Does(q, "replace")' <=> Does(q, "replace")
                          /\ visit'[q].person = visit[q].person /\ visit'[q].photo = visit[q].photo
                          /\ Does(q, "replace") => q # p /\ Old(q)' = Old(q)
    BY <1>1, <2>1, <2>2 DEF HasCopy, Does, InLogin, Old
  <2>4. u \in DOMAIN resident /\ resident[u].person = visit[p].person
    BY DEF FindPerson
  <2>5. OneLogin' /\ OneAccount' /\ Brought' /\ NoneYet'
    BY <1>1, <1>2, <2>3 DEF AccountInv, OneLogin, OneAccount, Brought, NoneYet
  <2>6. CopiesCurrent'
    <3>1. \A q \in Visits \ {p} : (HasCopy(q) /\ Alone(visit[q].person))' =>
                visit'[q].copy = resident'[visit'[q].user]
      BY <1>1, <1>2, <2>1, <2>3 DEF AccountInv, CopiesCurrent
    <3>2. visit'[p].copy = resident'[visit'[p].user]
      BY <1>1, <2>2
    <3> QED BY <3>1, <3>2 DEF CopiesCurrent
  <2>7. OneOwner'
    <3>1. \A v \in DOMAIN resident : 
             resident[u].photo \in Photos /\ resident[v].photo = resident[u].photo =>
                resident[v].person = visit[p].person
      BY <2>4 DEF PhotoInv, OneOwner
    <3>2. \A q \in Visits : HasCopy(q) /\ resident[u].photo \in Photos
             /\ visit[q].copy.photo = resident[u].photo => visit[q].person = visit[p].person
      BY <2>4 DEF PhotoInv, OneOwner
    <3>3. \A v \in DOMAIN resident, q \in Visits :
            HasCopy(q)' /\ resident[v].photo \in Photos /\ resident[v].photo = visit'[q].copy.photo =>
                resident[v].person = visit'[q].person
      <4> TAKE v \in DOMAIN resident, q \in Visits
      <4>1. CASE q = p
        BY <2>2, <3>1, <4>1
      <4>2. CASE q # p
        BY <2>1, <2>3, <4>2 DEF PhotoInv, OneOwner
      <4> QED BY <4>1, <4>2
    <3>4. \A r, q \in Visits :
            HasCopy(r)' /\ HasCopy(q)' /\ visit'[r].copy.photo \in Photos
                /\ visit'[r].copy.photo = visit'[q].copy.photo => visit'[r].person = visit'[q].person
      <4> TAKE r, q \in Visits
      <4>1. CASE r # p /\ q # p
        BY <2>1, <2>3, <4>1 DEF PhotoInv, OneOwner
      <4>2. CASE r = p /\ q # p
        BY <2>1, <2>2, <2>3, <3>2, <4>2
      <4>3. CASE r # p /\ q = p
        BY <2>1, <2>2, <2>3, <3>2, <4>3
      <4> QED BY <4>1, <4>2, <4>3
    <3>5. \A v, w \in DOMAIN resident :
            resident[v].photo \in Photos /\ resident[v].photo = resident[w].photo =>
                resident[v].person = resident[w].person
      BY DEF PhotoInv, OneOwner
    <3> QED BY <1>1, <3>3, <3>4, <3>5 DEF OneOwner
  <2>8. StillNew'
    <3> SUFFICES ASSUME NEW q \in Visits, InLogin(q)', visit'[q].photo \in Photos
                 PROVE  /\ visit'[q].photo \in photos'
                        /\ \A v \in DOMAIN resident : resident[v].photo # visit'[q].photo
                        /\ \A r \in Visits : HasCopy(r)' => visit'[r].copy.photo # visit'[q].photo
                        /\ \A r \in Visits \ {q} : InLogin(r)' => visit'[r].photo # visit'[q].photo
      BY <1>1 DEF StillNew
    <3>1. /\ visit'[q].photo \in photos
          /\ \A v \in DOMAIN resident : resident[v].photo # visit'[q].photo
          /\ \A r \in Visits : HasCopy(r) => visit[r].copy.photo # visit'[q].photo
          /\ \A r \in Visits \ {q} : InLogin(r) => visit[r].photo # visit'[q].photo
      BY <2>3 DEF PhotoInv, StillNew
    <3>2. \A r \in Visits : HasCopy(r)' => visit'[r].copy.photo # visit'[q].photo
      <4> TAKE r \in Visits
      <4>1. CASE r = p
        BY <2>2, <2>4, <3>1, <4>1
      <4>2. CASE r # p
        BY <2>1, <2>3, <3>1, <4>2
      <4> QED BY <4>1, <4>2
    <3> QED BY <1>1, <2>3, <3>1, <3>2
  <2>9. PhotosThere'
    BY <1>1, <1>2, <2>1, <2>3 DEF PhotoInv, PhotosThere
  <2> QED BY <2>5, <2>6, <2>7, <2>8, <2>9 DEF AccountInv, PhotoInv
<1> QED BY <1>3, <1>4 DEF FindUser

\* The file goes that the copy names: no other person's, and not the one just sent.
LEMMA DestroyAccountInv ==
  ASSUME EidasInv, AccountInv, PhotoInv, NEW p \in Visits, DestroyPhoto(p)
  PROVE  AccountInv' /\ PhotoInv'
<1>1. /\ visit[p] \in VisitRec /\ visit[p].pc = "destroy" /\ HasCopy(p) /\ InLogin(p)
      /\ visit[p].user \in DOMAIN resident /\ resident[visit[p].user].person = visit[p].person
      /\ photos' = photos \ {Old(p)} /\ photos \subseteq Photos
      /\ UNCHANGED <<resident, brought, torn, doubled>>
  BY DEF DestroyPhoto, Does, Same, histories, EidasInv, VisitInv, LoginOK, ResidentInv, HasCopy, InLogin
<1>2. Old(p) \in {"default", visit[p].copy.photo} /\ "default" \notin Photos
  BY EidasAssumption DEF Old
<1>3. CASE Old(p) \in photos \union {"default"} /\ Becomes(p, [visit[p] EXCEPT !.pc = "replace"])
  <2>1. /\ visit'[p] = [visit[p] EXCEPT !.pc = "replace"]
        /\ \A q \in Visits \ {p} : visit'[q] = visit[q]
    BY <1>3 DEF Becomes, EidasInv, VisitInv
  <2>2. /\ visit'[p].pc = "replace" /\ visit'[p].person = visit[p].person
        /\ visit'[p].photo = visit[p].photo /\ visit'[p].user = visit[p].user
        /\ visit'[p].copy = visit[p].copy
    BY <1>1, <2>1 DEF VisitRec
  <2>3. \A q \in Visits : /\ HasCopy(q)' <=> HasCopy(q)
                          /\ InLogin(q)' <=> InLogin(q)
                          /\ Does(q, "create")' <=> Does(q, "create")
                          /\ Does(q, "replace") => q # p
                          /\ Does(q, "replace")' <=> Does(q, "replace") \/ q = p
                          /\ visit'[q].person = visit[q].person /\ visit'[q].photo = visit[q].photo
                          /\ visit'[q].user = visit[q].user /\ visit'[q].copy = visit[q].copy
                          /\ Old(q)' = Old(q)
    <3> TAKE q \in Visits
    <3>1. CASE q = p
      BY <1>1, <2>2, <3>1 DEF HasCopy, Does, InLogin, Old
    <3>2. CASE q # p
      BY <2>1, <3>2 DEF HasCopy, Does, InLogin, Old
    <3> QED BY <3>1, <3>2
  <2>4. \A y : Alone(y)' <=> Alone(y)
    BY <1>1 DEF Alone
  <2>5. \A y : Present(y) /\ (y \in Photos => y # visit[p].copy.photo) => Present(y)'
    BY <1>1, <1>2 DEF Present
  <2>6. AccountInv'
    BY <1>1, <2>3, <2>4 DEF AccountInv, OneLogin, OneAccount, Brought, NoneYet, CopiesCurrent
  <2>7. OneOwner'
    BY <1>1, <2>3 DEF PhotoInv, OneOwner
  <2>8. StillNew'
    <3>1. \A q \in Visits : InLogin(q) /\ visit[q].photo \in Photos => visit[q].photo \in photos'
      BY <1>1, <1>2 DEF PhotoInv, StillNew
    <3> QED BY <1>1, <2>3, <3>1 DEF PhotoInv, StillNew
  <2>9. \A q \in Visits : InLogin(q) /\ visit[q].person = visit[p].person /\ Alone(visit[p].person) => q = p
    BY <1>1 DEF AccountInv, OneLogin
  <2>10. \A q \in Visits : Does(q, "replace") =>
            InLogin(q) /\ visit[q].user \in DOMAIN resident
                /\ resident[visit[q].user].person = visit[q].person
    BY DEF EidasInv, VisitInv, LoginOK, Does, InLogin
  <2>11. \A u \in DOMAIN resident : resident[u].photo \in Photos /\ resident[u].photo = visit[p].copy.photo =>
            resident[u].person = visit[p].person
    BY <1>1 DEF PhotoInv, OneOwner
  <2>12. ASSUME NEW q \in Visits, Does(q, "replace"), Alone(visit[q].person), Old(q) = "default"
         PROVE  Present(resident[visit[q].user].photo)' \/ visit[q].person \in torn
    <3>1. Present(resident[visit[q].user].photo) \/ visit[q].person \in torn
      BY <2>12 DEF PhotoInv, PhotosThere
    <3>2. visit[q].person # visit[p].person
      BY <2>3, <2>9, <2>10, <2>12
    <3>3. resident[visit[q].user].photo \in Photos => resident[visit[q].user].photo # visit[p].copy.photo
      BY <2>10, <2>11, <2>12, <3>2
    <3> QED BY <1>1, <2>3, <2>5, <3>1, <3>3
  <2>13. ASSUME Alone(visit[p].person), Old(p) = "default"
         PROVE  Present(resident[visit[p].user].photo)' \/ visit[p].person \in torn
    <3>1. photos' = photos
      BY <1>1, <1>2, <2>13
    <3>2. ~\E q \in Visits : Does(q, "replace") /\ visit[q].user = visit[p].user
      BY <1>1, <2>3, <2>9, <2>10, <2>13
    <3>3. Present(resident[visit[p].user].photo) \/ visit[p].person \in torn
      BY <1>1, <2>13, <3>2 DEF PhotoInv, PhotosThere
    <3> QED BY <1>1, <2>3, <3>1, <3>3 DEF Present
  <2>14. ASSUME NEW u \in DOMAIN resident, Alone(resident[u].person)
         PROVE  \/ Present(resident[u].photo)' \/ resident[u].person \in torn
                \/ \E q \in Visits : Does(q, "replace")' /\ visit'[q].user = u
    <3>1. CASE resident[u].photo \in Photos /\ resident[u].photo = visit[p].copy.photo
      <4>1. u = visit[p].user
        BY <1>1, <2>11, <2>14, <3>1 DEF AccountInv, OneAccount
      <4> QED BY <2>3, <4>1
    <3>2. CASE ~(resident[u].photo \in Photos /\ resident[u].photo = visit[p].copy.photo)
      <4>1. \/ Present(resident[u].photo) \/ resident[u].person \in torn
            \/ \E q \in Visits : Does(q, "replace") /\ visit[q].user = u
        BY <2>14 DEF PhotoInv, PhotosThere
      <4> QED BY <1>1, <2>3, <2>5, <3>2, <4>1
    <3> QED BY <3>1, <3>2
  <2>15. PhotosThere'
    <3>1. \A q \in Visits : (Does(q, "replace") /\ Alone(visit[q].person) /\ Old(q) = "default")' =>
            (Present(resident[visit[q].user].photo) \/ visit[q].person \in torn)'
      <4> TAKE q \in Visits
      <4>1. CASE q = p
        BY <1>1, <2>3, <2>4, <2>13, <4>1
      <4>2. CASE q # p
        BY <1>1, <2>3, <2>4, <2>12, <4>2
      <4> QED BY <4>1, <4>2
    <3>2. \A u \in DOMAIN resident : Alone(resident[u].person)' =>
            \/ Present(resident[u].photo)' \/ resident[u].person \in torn
            \/ \E q \in Visits : Does(q, "replace")' /\ visit'[q].user = u
      BY <1>1, <2>4, <2>14
    <3> QED BY <1>1, <3>1, <3>2 DEF PhotosThere
  <2> QED BY <2>6, <2>7, <2>8, <2>15 DEF PhotoInv
<1>4. CASE Old(p) \notin photos \union {"default"} /\ Becomes(p, Failed)
  <2>1. photos' = photos
    BY <1>1, <1>4
  <2> QED BY <1>1, <1>4, <2>1, FailedAccountInv DEF Does
<1> QED BY <1>3, <1>4 DEF DestroyPhoto

\* An account is written by the one login of its person there is, unless that is doubled.
LEMMA SaveAccountInv ==
  ASSUME EidasInv, AccountInv, PhotoInv, NEW p \in Visits, SaveUser(p)
  PROVE  AccountInv' /\ PhotoInv'
<1>1. PICK u : u = visit[p].user
  OBVIOUS
<1>2. /\ visit[p].pc = "replace" /\ u \in DOMAIN resident /\ Settles(p, u)
      /\ DOMAIN resident' = DOMAIN resident
      /\ \A v \in DOMAIN resident \ {u} : resident'[v] = resident[v]
      /\ resident'[u].person = resident[u].person
      /\ resident'[u].photo = IF visit[p].photo = "default" THEN visit[p].copy.photo ELSE visit[p].photo
      /\ resident'[u].profile = visit[p].copy.profile \union visit[p].attributes
  BY <1>1, SavedAccount
<1>3. /\ HasCopy(p) /\ InLogin(p) /\ visit[p] \in VisitRec /\ visit[p].photo \in Photos \union {"default"}
      /\ resident[u].person = visit[p].person
  BY <1>1, <1>2 DEF HasCopy, InLogin, EidasInv, VisitInv, LoginOK
<1>4. /\ UNCHANGED <<photos, torn, doubled>>
      /\ brought' = Store(brought, u, visit[p].attributes \union
                                        IF u \in DOMAIN brought THEN brought[u] ELSE {})
  BY <1>2 DEF Settles, Same
<1>5. /\ ~InLogin(p)' /\ ~HasCopy(p)'
      /\ \A q \in Visits \ {p} : visit'[q] = visit[q]
  <2>1. visit'[p].pc \in {"failed", "returned"} /\ \A q \in Visits \ {p} : visit'[q] = visit[q]
    BY <1>2, <1>3, BlankVisits DEF Settles, Becomes, EidasInv, VisitInv, VisitRec
  <2> QED BY <2>1 DEF InLogin, HasCopy
<1>6. \A q \in Visits : InLogin(q)' \/ HasCopy(q)' \/ Does(q, "create")' \/ Does(q, "replace")' =>
        /\ q # p /\ visit'[q] = visit[q] /\ Old(q)' = Old(q)
        /\ InLogin(q)' => InLogin(q)
        /\ HasCopy(q)' => HasCopy(q) /\ InLogin(q)
        /\ Does(q, "create")' => Does(q, "create") /\ InLogin(q)
        /\ Does(q, "replace")' => Does(q, "replace") /\ InLogin(q) /\ HasCopy(q)
  BY <1>5 DEF InLogin, HasCopy, Does, Old
<1>7. \A y : (Alone(y)' <=> Alone(y)) /\ (Present(y)' <=> Present(y))
  BY <1>4 DEF Alone, Present
<1>8. \A v \in DOMAIN resident : resident'[v].person = resident[v].person
  BY <1>2
<1>9. \A q \in Visits \ {p} : InLogin(q) /\ Alone(visit[q].person) => visit[q].person # visit[p].person
  BY <1>3 DEF AccountInv, OneLogin
<1>10. \A q \in Visits : HasCopy(q) => visit[q].user \in DOMAIN resident
            /\ resident[visit[q].user].person = visit[q].person
  BY DEF EidasInv, VisitInv, LoginOK, HasCopy
<1>11. OneLogin' /\ OneAccount' /\ NoneYet'
  BY <1>2, <1>6, <1>7, <1>8 DEF AccountInv, OneLogin, OneAccount, NoneYet
<1>12. \A q \in Visits : HasCopy(q)' /\ Alone(visit[q].person)' =>
            visit[q].user # u /\ resident'[visit[q].user] = resident[visit[q].user]
  BY <1>2, <1>3, <1>6, <1>7, <1>9, <1>10
<1>13. CopiesCurrent'
  BY <1>6, <1>7, <1>12 DEF AccountInv, CopiesCurrent
<1>14. Brought'
  <2>1. DOMAIN brought = DOMAIN resident
    BY DEF AccountInv, Brought
  <2>2. /\ DOMAIN brought' = DOMAIN resident
        /\ brought'[u] = visit[p].attributes \union brought[u]
        /\ \A v \in DOMAIN resident \ {u} : brought'[v] = brought[v]
    BY <1>2, <1>4, <2>1 DEF Store
  <2>3. ASSUME Alone(resident[u].person) PROVE brought'[u] \subseteq resident'[u].profile
    <3>1. visit[p].copy = resident[u] /\ brought[u] \subseteq resident[u].profile
      BY <1>1, <1>2, <1>3, <2>3 DEF AccountInv, CopiesCurrent, Brought
    <3> QED BY <1>2, <2>2, <3>1
  <2>4. \A v \in DOMAIN resident \ {u} : Alone(resident[v].person) => brought'[v] \subseteq resident'[v].profile
    BY <1>2, <2>2 DEF AccountInv, Brought
  <2> QED BY <1>2, <1>7, <1>8, <2>2, <2>3, <2>4 DEF Brought
\* The photo it gets was the person's own, or new.
<1>15. resident'[u].photo = visit[p].copy.photo \/ (resident'[u].photo = visit[p].photo /\ visit[p].photo \in Photos)
  BY <1>2, <1>3
<1>16. /\ \A v \in DOMAIN resident : resident[v].photo \in Photos /\ resident[v].photo = resident'[u].photo =>
                resident[v].person = visit[p].person
       /\ \A q \in Visits : HasCopy(q) /\ visit[q].copy.photo \in Photos /\ visit[q].copy.photo = resident'[u].photo =>
                visit[q].person = visit[p].person
  <2>1. CASE resident'[u].photo = visit[p].copy.photo
    BY <1>3, <2>1 DEF PhotoInv, OneOwner
  <2>2. CASE resident'[u].photo = visit[p].photo /\ visit[p].photo \in Photos
    BY <1>3, <2>2 DEF PhotoInv, StillNew
  <2> QED BY <1>15, <2>1, <2>2
<1>17. OneOwner'
  <2>1. \A v, w \in DOMAIN resident :
            resident'[v].photo \in Photos /\ resident'[v].photo = resident'[w].photo =>
                resident'[v].person = resident'[w].person
    <3> TAKE v, w \in DOMAIN resident
    <3>1. CASE v # u /\ w # u
      BY <1>2, <3>1 DEF PhotoInv, OneOwner
    <3>2. CASE v = u /\ w # u
      BY <1>2, <1>3, <1>16, <3>2
    <3>3. CASE v # u /\ w = u
      BY <1>2, <1>3, <1>16, <3>3
    <3> QED BY <3>1, <3>2, <3>3
  <2>2. \A v \in DOMAIN resident, q \in Visits :
            HasCopy(q)' /\ resident'[v].photo \in Photos /\ resident'[v].photo = visit'[q].copy.photo =>
                resident'[v].person = visit'[q].person
    <3> TAKE v \in DOMAIN resident, q \in Visits
    <3>1. CASE v # u
      BY <1>2, <1>6, <3>1 DEF PhotoInv, OneOwner
    <3>2. CASE v = u
      BY <1>2, <1>3, <1>6, <1>16, <3>2
    <3> QED BY <3>1, <3>2
  <2>3. \A q, r \in Visits :
            HasCopy(q)' /\ HasCopy(r)' /\ visit'[q].copy.photo \in Photos
                /\ visit'[q].copy.photo = visit'[r].copy.photo => visit'[q].person = visit'[r].person
    BY <1>6 DEF PhotoInv, OneOwner
  <2> QED BY <1>2, <2>1, <2>2, <2>3 DEF OneOwner
<1>18. StillNew'
  <2> SUFFICES ASSUME NEW q \in Visits, InLogin(q)', visit'[q].photo \in Photos
               PROVE  /\ visit'[q].photo \in photos'
                      /\ \A v \in DOMAIN resident' : resident'[v].photo # visit'[q].photo
                      /\ \A r \in Visits : HasCopy(r)' => visit'[r].copy.photo # visit'[q].photo
                      /\ \A r \in Visits \ {q} : InLogin(r)' => visit'[r].photo # visit'[q].photo
    BY DEF StillNew
  <2>1. q # p /\ InLogin(q) /\ visit'[q] = visit[q]
    BY <1>6
  <2>2. /\ visit[q].photo \in photos
        /\ \A v \in DOMAIN resident : resident[v].photo # visit[q].photo
        /\ \A r \in Visits : HasCopy(r) => visit[r].copy.photo # visit[q].photo
        /\ \A r \in Visits \ {q} : InLogin(r) => visit[r].photo # visit[q].photo
    BY <2>1 DEF PhotoInv, StillNew
  <2>3. resident'[u].photo # visit[q].photo
    BY <1>3, <1>15, <2>1, <2>2
  <2> QED BY <1>2, <1>4, <1>6, <2>1, <2>2, <2>3
<1>19. PhotosThere'
  <2>1. \A q \in Visits : (Does(q, "replace") /\ Alone(visit[q].person) /\ Old(q) = "default")' =>
            (Present(resident[visit[q].user].photo) \/ visit[q].person \in torn)'
    <3> SUFFICES ASSUME NEW q \in Visits, (Does(q, "replace") /\ Alone(visit[q].person) /\ Old(q) = "default")'
                 PROVE  (Present(resident[visit[q].user].photo) \/ visit[q].person \in torn)'
      OBVIOUS
    <3>1. /\ Does(q, "replace") /\ visit'[q] = visit[q] /\ Old(q) = "default" /\ HasCopy(q)'
          /\ Alone(visit[q].person)
      BY <1>6, <1>7 DEF HasCopy, Does
    <3>2. resident'[visit[q].user] = resident[visit[q].user]
      BY <1>7, <1>12, <3>1
    <3>3. Present(resident[visit[q].user].photo) \/ visit[q].person \in torn
      BY <3>1 DEF PhotoInv, PhotosThere
    <3> QED BY <1>4, <1>7, <3>1, <3>2, <3>3
  <2>2. \A v \in DOMAIN resident \ {u} : Alone(resident[v].person) =>
            \/ Present(resident[v].photo) \/ resident[v].person \in torn
            \/ \E q \in Visits : Does(q, "replace")' /\ visit'[q].user = v
    <3>1. \A q \in Visits, v \in DOMAIN resident \ {u} : Does(q, "replace") /\ visit[q].user = v =>
            Does(q, "replace")' /\ visit'[q].user = v
      BY <1>1, <1>5 DEF Does
    <3> QED BY <3>1 DEF PhotoInv, PhotosThere
  <2>3. ASSUME Alone(resident[u].person)
        PROVE  Present(resident'[u].photo) \/ resident[u].person \in torn
    <3>1. CASE visit[p].photo = "default"
      <4>1. visit[p].copy = resident[u]
        BY <1>1, <1>3, <2>3 DEF AccountInv, CopiesCurrent
      <4>2. Old(p) = "default" /\ Does(p, "replace")
        BY <1>2, <3>1 DEF Old, Does
      <4>3. Present(resident[u].photo) \/ resident[u].person \in torn
        BY <1>1, <1>3, <2>3, <4>2 DEF PhotoInv, PhotosThere
      <4> QED BY <1>2, <3>1, <4>1, <4>3
    <3>2. CASE visit[p].photo # "default"
      BY <1>2, <1>3, <3>2 DEF PhotoInv, StillNew, Present
    <3> QED BY <3>1, <3>2
  <2>4. \A v \in DOMAIN resident' : Alone(resident[v].person)' =>
            \/ Present(resident[v].photo)' \/ resident'[v].person \in torn'
            \/ \E q \in Visits : Does(q, "replace")' /\ visit'[q].user = v
    <3> TAKE v \in DOMAIN resident'
    <3>1. Alone(resident[v].person)' <=> Alone(resident[v].person)
      BY <1>2, <1>4, <1>8 DEF Alone
    <3>2. Present(resident[v].photo)' <=> Present(resident'[v].photo)
      BY <1>4 DEF Present
    <3>3. CASE v = u
      BY <1>2, <1>4, <2>3, <3>1, <3>2, <3>3
    <3>4. CASE v # u
      BY <1>2, <1>4, <2>2, <3>1, <3>2, <3>4
    <3> QED BY <3>3, <3>4
  <2> QED BY <2>1, <2>4 DEF PhotosThere
<1> QED BY <1>11, <1>13, <1>14, <1>17, <1>18, <1>19 DEF AccountInv, PhotoInv

LEMMA CreateAccountInv ==
  ASSUME EidasInv, AccountInv, PhotoInv, NEW p \in Visits, CreateUser(p)
  PROVE  AccountInv' /\ PhotoInv'
<1>1. PICK u \in Users \ DOMAIN resident :
        /\ Settles(p, u)
        /\ DOMAIN resident' = DOMAIN resident \union {u}
        /\ \A v \in DOMAIN resident : resident'[v] = resident[v]
        /\ resident'[u].person = visit[p].person
        /\ resident'[u].photo = visit[p].photo
        /\ resident'[u].profile = visit[p].attributes
  BY CreatedAccount
<1>2. visit[p].pc = "create"
  BY CreatedAccount
<1>3. /\ InLogin(p) /\ Does(p, "create") /\ visit[p] \in VisitRec
      /\ visit[p].photo \in Photos \union {"default"}
  BY <1>2 DEF Does, InLogin, EidasInv, VisitInv, LoginOK
<1>4. /\ UNCHANGED <<photos, torn, doubled>>
      /\ brought' = Store(brought, u, visit[p].attributes \union
                                        IF u \in DOMAIN brought THEN brought[u] ELSE {})
  BY <1>1 DEF Settles, Same
<1>5. /\ ~InLogin(p)' /\ ~HasCopy(p)'
      /\ \A q \in Visits \ {p} : visit'[q] = visit[q]
  <2>1. visit'[p].pc \in {"failed", "returned"} /\ \A q \in Visits \ {p} : visit'[q] = visit[q]
    BY <1>1, <1>3, BlankVisits DEF Settles, Becomes, EidasInv, VisitInv, VisitRec
  <2> QED BY <2>1 DEF InLogin, HasCopy
<1>6. \A q \in Visits : InLogin(q)' \/ HasCopy(q)' \/ Does(q, "create")' \/ Does(q, "replace")' =>
        /\ q # p /\ visit'[q] = visit[q] /\ Old(q)' = Old(q)
        /\ InLogin(q)' => InLogin(q)
        /\ HasCopy(q)' => HasCopy(q) /\ InLogin(q)
        /\ Does(q, "create")' => Does(q, "create") /\ InLogin(q)
        /\ Does(q, "replace")' => Does(q, "replace") /\ InLogin(q) /\ HasCopy(q)
  BY <1>5 DEF InLogin, HasCopy, Does, Old
<1>7. \A y : (Alone(y)' <=> Alone(y)) /\ (Present(y)' <=> Present(y))
  BY <1>4 DEF Alone, Present
<1>8. \A q \in Visits \ {p} : InLogin(q) /\ Alone(visit[q].person) => visit[q].person # visit[p].person
  BY <1>3 DEF AccountInv, OneLogin
<1>9. \A q \in Visits : HasCopy(q) => visit[q].user \in DOMAIN resident
            /\ resident'[visit[q].user] = resident[visit[q].user]
  BY <1>1 DEF EidasInv, VisitInv, LoginOK, HasCopy
<1>10. Alone(visit[p].person) => \A v \in DOMAIN resident : resident[v].person # visit[p].person
  BY <1>3 DEF AccountInv, NoneYet
<1>11. OneLogin'
  BY <1>6, <1>7 DEF AccountInv, OneLogin
<1>12. OneAccount'
  <2> SUFFICES ASSUME NEW v \in DOMAIN resident \union {u}, NEW w \in DOMAIN resident \union {u},
                      resident'[v].person = resident'[w].person, Alone(resident'[v].person)
               PROVE  v = w
    BY <1>1, <1>4 DEF OneAccount, Alone
  <2>1. CASE v # u /\ w # u
    BY <1>1, <2>1 DEF AccountInv, OneAccount
  <2>2. CASE v = u /\ w # u
    BY <1>1, <1>10, <2>2
  <2>3. CASE v # u /\ w = u
    BY <1>1, <1>10, <2>3
  <2> QED BY <2>1, <2>2, <2>3
<1>13. NoneYet'
  <2> SUFFICES ASSUME NEW q \in Visits, Does(q, "create")', Alone(visit'[q].person),
                      NEW v \in DOMAIN resident \union {u}
               PROVE  resident'[v].person # visit'[q].person
    BY <1>1, <1>4 DEF NoneYet, Alone
  <2>1. q # p /\ visit'[q] = visit[q] /\ Does(q, "create") /\ InLogin(q)
    BY <1>6
  <2>2. CASE v = u
    BY <1>1, <1>8, <2>1, <2>2
  <2>3. CASE v # u
    BY <1>1, <2>1, <2>3 DEF AccountInv, NoneYet
  <2> QED BY <2>2, <2>3
<1>14. CopiesCurrent'
  BY <1>6, <1>7, <1>9 DEF AccountInv, CopiesCurrent
<1>15. Brought'
  <2>1. /\ DOMAIN brought = DOMAIN resident
        /\ \A v \in DOMAIN resident : Alone(resident[v].person) => brought[v] \subseteq resident[v].profile
    BY DEF AccountInv, Brought
  <2>2. /\ DOMAIN brought' = DOMAIN resident \union {u}
        /\ brought'[u] = visit[p].attributes
        /\ \A v \in DOMAIN resident : brought'[v] = brought[v]
    BY <1>4, <2>1 DEF Store
  <2> QED BY <1>1, <1>7, <2>1, <2>2 DEF Brought
<1>16. visit[p].photo \in Photos =>
            /\ visit[p].photo \in photos
            /\ \A v \in DOMAIN resident : resident[v].photo # visit[p].photo
            /\ \A q \in Visits : HasCopy(q) => visit[q].copy.photo # visit[p].photo
  BY <1>3 DEF PhotoInv, StillNew
<1>17. OneOwner'
  <2>1. \A v, w \in DOMAIN resident \union {u} :
            resident'[v].photo \in Photos /\ resident'[v].photo = resident'[w].photo =>
                resident'[v].person = resident'[w].person
    <3> TAKE v, w \in DOMAIN resident \union {u}
    <3>1. CASE v # u /\ w # u
      BY <1>1, <3>1 DEF PhotoInv, OneOwner
    <3>2. CASE v = u \/ w = u
      BY <1>1, <1>16, <3>2
    <3> QED BY <3>1, <3>2
  <2>2. \A v \in DOMAIN resident \union {u}, q \in Visits :
            HasCopy(q)' /\ resident'[v].photo \in Photos /\ resident'[v].photo = visit'[q].copy.photo =>
                resident'[v].person = visit'[q].person
    <3> TAKE v \in DOMAIN resident \union {u}, q \in Visits
    <3>1. CASE v # u
      BY <1>1, <1>6, <3>1 DEF PhotoInv, OneOwner
    <3>2. CASE v = u
      BY <1>1, <1>6, <1>16, <3>2
    <3> QED BY <3>1, <3>2
  <2>3. \A q, r \in Visits :
            HasCopy(q)' /\ HasCopy(r)' /\ visit'[q].copy.photo \in Photos
                /\ visit'[q].copy.photo = visit'[r].copy.photo => visit'[q].person = visit'[r].person
    BY <1>6 DEF PhotoInv, OneOwner
  <2> QED BY <1>1, <2>1, <2>2, <2>3 DEF OneOwner
<1>18. StillNew'
  <2> SUFFICES ASSUME NEW q \in Visits, InLogin(q)', visit'[q].photo \in Photos
               PROVE  /\ visit'[q].photo \in photos'
                      /\ \A v \in DOMAIN resident' : resident'[v].photo # visit'[q].photo
                      /\ \A r \in Visits : HasCopy(r)' => visit'[r].copy.photo # visit'[q].photo
                      /\ \A r \in Visits \ {q} : InLogin(r)' => visit'[r].photo # visit'[q].photo
    BY DEF StillNew
  <2>1. q # p /\ InLogin(q) /\ visit'[q] = visit[q]
    BY <1>6
  <2>2. /\ visit[q].photo \in photos
        /\ \A v \in DOMAIN resident : resident[v].photo # visit[q].photo
        /\ \A r \in Visits : HasCopy(r) => visit[r].copy.photo # visit[q].photo
        /\ \A r \in Visits \ {q} : InLogin(r) => visit[r].photo # visit[q].photo
    BY <2>1 DEF PhotoInv, StillNew
  <2>3. resident'[u].photo # visit[q].photo
    BY <1>1, <1>3, <2>1, <2>2
  <2> QED BY <1>1, <1>4, <1>6, <2>1, <2>2, <2>3
<1>19. PhotosThere'
  <2>1. \A q \in Visits : (Does(q, "replace") /\ Alone(visit[q].person) /\ Old(q) = "default")' =>
            (Present(resident[visit[q].user].photo) \/ visit[q].person \in torn)'
    <3> SUFFICES ASSUME NEW q \in Visits, (Does(q, "replace") /\ Alone(visit[q].person) /\ Old(q) = "default")'
                 PROVE  (Present(resident[visit[q].user].photo) \/ visit[q].person \in torn)'
      OBVIOUS
    <3>1. /\ Does(q, "replace") /\ visit'[q] = visit[q] /\ Old(q) = "default" /\ HasCopy(q)
          /\ Alone(visit[q].person)
      BY <1>6, <1>7
    <3>2. Present(resident[visit[q].user].photo) \/ visit[q].person \in torn
      BY <3>1 DEF PhotoInv, PhotosThere
    <3> QED BY <1>4, <1>7, <1>9, <3>1, <3>2
  <2>2. \A v \in DOMAIN resident : Alone(resident[v].person) =>
            \/ Present(resident[v].photo) \/ resident[v].person \in torn
            \/ \E q \in Visits : Does(q, "replace")' /\ visit'[q].user = v
    <3>1. \A q \in Visits : Does(q, "replace") => Does(q, "replace")' /\ visit'[q].user = visit[q].user
      BY <1>2, <1>5 DEF Does
    <3> QED BY <3>1 DEF PhotoInv, PhotosThere
  <2>3. Present(resident'[u].photo)
    BY <1>1, <1>3, <1>16 DEF Present
  <2>4. \A v \in DOMAIN resident' : Alone(resident[v].person)' =>
            \/ Present(resident[v].photo)' \/ resident'[v].person \in torn'
            \/ \E q \in Visits : Does(q, "replace")' /\ visit'[q].user = v
    <3> TAKE v \in DOMAIN resident'
    <3>1. Alone(resident[v].person)' <=> Alone(resident'[v].person)
      BY <1>4 DEF Alone
    <3>2. Present(resident[v].photo)' <=> Present(resident'[v].photo)
      BY <1>4 DEF Present
    <3>3. CASE v = u
      BY <2>3, <3>2, <3>3
    <3>4. CASE v # u
      BY <1>1, <1>4, <2>2, <3>1, <3>2, <3>4
    <3> QED BY <3>3, <3>4
  <2> QED BY <2>1, <2>4 DEF PhotosThere
<1> QED BY <1>11, <1>12, <1>13, <1>14, <1>15, <1>17, <1>18, <1>19 DEF AccountInv, PhotoInv

LEMMA LoginAccountInv ==
  ASSUME EidasInv, AccountInv, PhotoInv, LoginStep
  PROVE  AccountInv' /\ PhotoInv'
<1>1. ASSUME NEW p \in Visits, AssertFails(p) PROVE AccountInv' /\ PhotoInv'
  <2>1. /\ Becomes(p, Failed) /\ ~Does(p, "replace")
        /\ UNCHANGED <<resident, photos, brought, torn, doubled>>
    BY <1>1 DEF AssertFails, Leaves, Opens, Does, Same, histories
  <2> QED BY <2>1, FailedAccountInv
<1>2. ASSUME NEW p \in Visits, SaveUserFails(p) PROVE AccountInv' /\ PhotoInv'
  <2>1. /\ Becomes(p, Failed)
        /\ torn' = torn \union {x \in {visit[p].person} : Does(p, "replace") /\ Old(p) # "default"}
        /\ UNCHANGED <<resident, photos, brought, doubled>>
    BY <1>2 DEF SaveUserFails, Leaves, Same
  <2> QED BY <2>1, FailedAccountInv
<1> QED BY <1>1, <1>2, RequestAccountInv, ResponseAccountInv, ToImageAccountInv, FindAccountInv,
      DestroyAccountInv, SaveAccountInv, CreateAccountInv, StopAccountInv DEF LoginStep

\* A person has one account, which keeps all that its logins have brought (create_user), and
\* its photo is on disk: unless two of its own logins overlapped, or one was cut off between
\* the removal of the old photo and the save.  No other person's logins can spoil it.
THEOREM PersonsKeepAccounts == EidasSpec => []PersonsKeepTheirAccount
<1>1. EidasInit => EidasInv /\ AccountInv /\ PhotoInv
  <2> SUFFICES ASSUME EidasInit PROVE EidasInv /\ AccountInv /\ PhotoInv
    OBVIOUS
  <2>1. resident = <<>> /\ brought = <<>> /\ visit = [p \in Visits |-> NoVisit]
    BY DEF EidasInit
  <2>2. DOMAIN resident = {} /\ DOMAIN brought = {} /\ \A p \in Visits : visit[p].pc = "none"
    BY <2>1, BlankVisits
  <2>3. AccountInv
    BY <2>2 DEF AccountInv, OneLogin, OneAccount, NoneYet, CopiesCurrent, Brought, InLogin, HasCopy, Does
  <2>4. PhotoInv
    BY <2>2 DEF PhotoInv, OneOwner, StillNew, PhotosThere, InLogin, HasCopy, Does
  <2> QED BY <2>3, <2>4, EidasStarts
<1>2. (EidasInv /\ AccountInv /\ PhotoInv) /\ [CredentialStep \/ LoginStep]_eidasVars =>
            (EidasInv /\ AccountInv /\ PhotoInv)'
  <2> SUFFICES ASSUME EidasInv, AccountInv, PhotoInv, [CredentialStep \/ LoginStep]_eidasVars
               PROVE  EidasInv' /\ AccountInv' /\ PhotoInv'
    OBVIOUS
  <2>1. CASE UNCHANGED eidasVars
    BY <2>1, EidasInvStep DEF eidasVars, AccountInv, OneLogin, OneAccount, NoneYet, CopiesCurrent, Brought, PhotoInv,
       OneOwner, StillNew, PhotosThere, Alone, Present, HasCopy, InLogin, Does, Old
  <2> QED BY <2>1, EidasInvStep, CredentialAccountInv, LoginAccountInv
<1>3. AccountInv /\ PhotoInv => PersonsKeepTheirAccount
  BY DEF AccountInv, PhotoInv, OneAccount, Brought, PhotosThere, Alone, Present, PersonsKeepTheirAccount
<1> QED BY <1>1, <1>2, <1>3, PTL DEF EidasSpec

(***************************************************************************)
(* Types.  Only applications that take national identities get             *)
(* credentials, and no address is that of two accounts.                    *)
(***************************************************************************)
CredentialTypes ==
    /\ credentials \in [DOMAIN credentials -> Credential] /\ DOMAIN credentials \subseteq EidasApps
    /\ certified \subseteq EidasApps
    /\ \A p \in Visits : Does(p, "save") \/ Does(p, "certify") => visit[p].app \in EidasApps
StatesTyped == states \in [DOMAIN states -> Origin]
OneAddressEach ==
    \A u, v \in DOMAIN resident :
        resident[u].email = resident[v].email => u = v \/ resident[u].email = None
EidasTypes == CredentialTypes /\ StatesTyped /\ OneAddressEach

\* What a step may store for an application.
LEMMA StoredTyped ==
  ASSUME NEW S, NEW f, f \in [DOMAIN f -> S], NEW x, NEW v \in S
  PROVE  /\ Store(f, x, v) \in [DOMAIN Store(f, x, v) -> S]
         /\ DOMAIN Store(f, x, v) = DOMAIN f \union {x}
BY DEF Store

LEMMA VisitsAreApart ==
  ASSUME EidasInv, NEW p \in Visits, NEW v, Becomes(p, v)
  PROVE  visit'[p] = v /\ \A q \in Visits \ {p} : visit'[q] = visit[q]
BY DEF Becomes, EidasInv, VisitInv

\* A visit that neither saves nor certifies says nothing about credentials.
LEMMA CredentialsStay ==
  ASSUME EidasInv, CredentialTypes, NEW p \in Visits, NEW v, Becomes(p, v),
         v.pc \in {"save", "certify"} => v.app \in EidasApps,
         UNCHANGED <<credentials, certified>>
  PROVE  CredentialTypes'
<1>1. visit'[p] = v /\ \A q \in Visits \ {p} : visit'[q] = visit[q]
  BY VisitsAreApart
<1>2. ASSUME NEW q \in Visits, Does(q, "save")' \/ Does(q, "certify")'
      PROVE  visit'[q].app \in EidasApps
  BY <1>1, <1>2 DEF CredentialTypes, Does
<1> QED BY <1>2 DEF CredentialTypes

LEMMA CredentialStepTyped ==
  ASSUME EidasInv, EidasTypes, CredentialStep
  PROVE  EidasTypes'
<1>1. UNCHANGED <<states, resident>> => StatesTyped' /\ OneAddressEach'
  BY DEF EidasTypes, StatesTyped, OneAddressEach
<1>2. UNCHANGED <<states, resident>>
  BY DEF CredentialStep, StepCreate, SaveCredentials, SaveCredentialsFails,
     GenerateAppCertificates, GenerateAppCertificatesFails, UpdateEidasInfo,
     UpdateEidasAttributes, Same
<1>3. ASSUME NEW p \in Visits, StepCreate(p)
      PROVE  CredentialTypes'
  <2>1. PICK a \in EidasApps : Becomes(p, [NoVisit EXCEPT !.pc = "save", !.app = a])
    BY <1>3 DEF StepCreate
  <2>2. PICK v : v = [NoVisit EXCEPT !.pc = "save", !.app = a]
    OBVIOUS
  <2>3. v.app = a /\ UNCHANGED <<credentials, certified>> /\ Becomes(p, v)
    BY <1>3, <2>1, <2>2 DEF NoVisit, StepCreate, Same
  <2> QED BY <2>3, CredentialsStay DEF EidasTypes
<1>4. ASSUME NEW p \in Visits, SaveCredentials(p)
      PROVE  CredentialTypes'
  <2>1. PICK a \in EidasApps : a = visit[p].app
    BY <1>4 DEF SaveCredentials, EidasTypes, CredentialTypes
  <2>2. PICK c : c = [attributes |-> Mandatory, contact |-> "first"]
    OBVIOUS
  <2>3. c \in Credential
    BY <2>2, EidasAssumption DEF Credential
  <2>4. credentials' = Store(credentials, a, c) /\ certified' = certified
    BY <1>4, <2>1, <2>2 DEF SaveCredentials, Same
  <2>5. credentials' \in [DOMAIN credentials' -> Credential] /\ DOMAIN credentials' \subseteq EidasApps
    <3>1. credentials \in [DOMAIN credentials -> Credential] /\ DOMAIN credentials \subseteq EidasApps
      BY DEF EidasTypes, CredentialTypes
    <3>2. PICK f : f = Store(credentials, a, c)
      OBVIOUS
    <3>3. f \in [DOMAIN f -> Credential] /\ DOMAIN f = DOMAIN credentials \union {a}
      BY <2>3, <3>1, <3>2 DEF Store
    <3> QED BY <2>4, <3>1, <3>2, <3>3
  <2>6. PICK v : v = [visit[p] EXCEPT !.pc = "certify"]
    OBVIOUS
  <2>7. v.app = a
    BY <2>1, <2>6 DEF EidasInv, VisitInv, VisitRec
  <2>8. visit'[p] = v /\ \A q \in Visits \ {p} : visit'[q] = visit[q]
    BY <1>4, <2>6, VisitsAreApart DEF SaveCredentials
  <2>9. ASSUME NEW q \in Visits, Does(q, "save")' \/ Does(q, "certify")'
        PROVE  visit'[q].app \in EidasApps
    BY <2>7, <2>8, <2>9 DEF EidasTypes, CredentialTypes, Does
  <2> QED BY <2>4, <2>5, <2>9 DEF EidasTypes, CredentialTypes
<1>5. ASSUME NEW p \in Visits, SaveCredentialsFails(p) \/ GenerateAppCertificatesFails(p)
      PROVE  CredentialTypes'
  <2>1. Becomes(p, Failed) /\ UNCHANGED <<credentials, certified>>
    BY <1>5 DEF SaveCredentialsFails, GenerateAppCertificatesFails, Leaves, Same
  <2> QED BY <2>1, BlankVisits, CredentialsStay DEF EidasTypes
<1>6. ASSUME NEW p \in Visits, GenerateAppCertificates(p)
      PROVE  CredentialTypes'
  <2>1. /\ Becomes(p, Failed) /\ credentials' = credentials
        /\ certified' = certified \union {visit[p].app} /\ Does(p, "certify")
    BY <1>6 DEF GenerateAppCertificates, Leaves, Same
  <2>2. certified' \subseteq EidasApps
    BY <2>1 DEF EidasTypes, CredentialTypes
  <2>3. visit'[p] = Failed /\ \A q \in Visits \ {p} : visit'[q] = visit[q]
    BY <2>1, VisitsAreApart
  <2>4. ASSUME NEW q \in Visits, Does(q, "save")' \/ Does(q, "certify")'
        PROVE  visit'[q].app \in EidasApps
    BY <2>3, <2>4, BlankVisits DEF EidasTypes, CredentialTypes, Does
  <2> QED BY <2>1, <2>2, <2>4 DEF EidasTypes, CredentialTypes
<1>7. CASE UpdateEidasInfo \/ UpdateEidasAttributes
  <2>1. /\ UNCHANGED <<certified, visit>>
        /\ DOMAIN credentials' = DOMAIN credentials
        /\ credentials' \in [DOMAIN credentials -> Credential]
    <3>1. CASE UpdateEidasInfo
      <4>1. PICK a \in DOMAIN credentials : credentials' = [credentials EXCEPT ![a].contact = "second"]
        BY <3>1 DEF UpdateEidasInfo
      <4>2. PICK c : c = [credentials[a] EXCEPT !.contact = "second"]
        OBVIOUS
      <4>3. c \in Credential
        BY <4>2 DEF EidasTypes, CredentialTypes, Credential
      <4>4. credentials' = [credentials EXCEPT ![a] = c]
        BY <4>1, <4>2
      <4> QED BY <3>1, <4>3, <4>4 DEF UpdateEidasInfo, Same, EidasTypes, CredentialTypes
    <3>2. CASE UpdateEidasAttributes
      <4>1. PICK a \in DOMAIN credentials, form \in SUBSET Configured :
              credentials' = [credentials EXCEPT ![a].attributes = Mandatory \union form]
        BY <3>2 DEF UpdateEidasAttributes
      <4>2. PICK c : c = [credentials[a] EXCEPT !.attributes = Mandatory \union form]
        OBVIOUS
      <4>3. c \in Credential
        BY <4>2, EidasAssumption DEF EidasTypes, CredentialTypes, Credential
      <4>4. credentials' = [credentials EXCEPT ![a] = c]
        BY <4>1, <4>2
      <4> QED BY <3>2, <4>3, <4>4 DEF UpdateEidasAttributes, Same, EidasTypes, CredentialTypes
    <3> QED BY <1>7, <3>1, <3>2
  <2> QED BY <1>1, <1>2, <2>1 DEF EidasTypes, CredentialTypes, Does
<1> QED BY <1>1, <1>2, <1>3, <1>4, <1>5, <1>6, <1>7 DEF CredentialStep, EidasTypes

\* The account that is saved has its address to itself.
LEMMA SavedAddress ==
  ASSUME EidasInv, OneAddressEach, NEW p \in Visits, SaveUser(p)
  PROVE  OneAddressEach'
<1>1. PICK u : u = visit[p].user
  OBVIOUS
<1>2. /\ u \in DOMAIN resident /\ DOMAIN resident' = DOMAIN resident
      /\ \A v \in DOMAIN resident \ {u} : resident'[v] = resident[v]
      /\ resident'[u].email = NewEmail(p)
  BY <1>1, SavedAccount
<1>3. \A v \in DOMAIN resident \ {u} : resident[v].email = NewEmail(p) => NewEmail(p) = None
  BY <1>1 DEF SaveUser, Taken
<1> QED BY <1>2, <1>3 DEF OneAddressEach

LEMMA CreatedAddress ==
  ASSUME EidasInv, OneAddressEach, NEW p \in Visits, CreateUser(p)
  PROVE  OneAddressEach'
<1>1. PICK u \in Users \ DOMAIN resident :
        /\ DOMAIN resident' = DOMAIN resident \union {u}
        /\ \A v \in DOMAIN resident : resident'[v] = resident[v]
        /\ resident'[u].email = visit[p].email
  BY CreatedAccount
<1>2. \A v \in DOMAIN resident : resident[v].email = visit[p].email => visit[p].email = None
  BY EidasAssumption DEF CreateUser, Taken, EidasInv, ResidentInv
<1> QED BY <1>1, <1>2 DEF OneAddressEach

LEMMA LoginStepTyped ==
  ASSUME EidasInv, EidasTypes, LoginStep
  PROVE  EidasTypes'
<1>1. UNCHANGED <<credentials, certified>>
  BY DEF LoginStep, CreateAuthRequest, SamlApplicationLogin, AssertFails, ToImage, FindUser,
     DestroyPhoto, SaveUser, CreateUser, Settles, SaveUserFails, StopProcess, Same
<1>2. CredentialTypes'
  <2>1. ASSUME NEW p \in Visits, NEW v, Becomes(p, v), v.pc \notin {"save", "certify"}
        PROVE  CredentialTypes'
    BY <1>1, <2>1, CredentialsStay DEF EidasTypes
  <2>2. ASSUME NEW p \in Visits, Becomes(p, Failed) PROVE CredentialTypes'
    BY <2>1, <2>2, BlankVisits
  <2>3. ASSUME NEW w \in Windows, CreateAuthRequest(w) PROVE CredentialTypes'
    BY <1>1, <2>3 DEF CreateAuthRequest, Same, EidasTypes, CredentialTypes, Does
  <2>4. CASE StopProcess
    <3>1. \A q \in Visits : visit'[q] = visit[q] \/ visit'[q] = Failed
      BY <2>4 DEF StopProcess
    <3> QED BY <1>1, <3>1, BlankVisits DEF EidasTypes, CredentialTypes, Does
  <2>5. ASSUME NEW p \in Visits, SamlApplicationLogin(p) PROVE CredentialTypes'
    <3>1. PICK id \in DOMAIN issued, x \in Identities : Becomes(p, AuthnResponse(id, x))
      BY <2>5 DEF SamlApplicationLogin
    <3>2. AuthnResponse(id, x).pc = "photo"
      BY DEF AuthnResponse, NoVisit
    <3> QED BY <2>1, <3>1, <3>2
  <2>6. ASSUME NEW p \in Visits, AssertFails(p) \/ SaveUserFails(p) PROVE CredentialTypes'
    BY <2>2, <2>6 DEF AssertFails, SaveUserFails, Leaves
  <2>7. ASSUME NEW p \in Visits, NEW pc \in {"find", "create", "destroy", "replace", "returned"},
               NEW v, v.pc = pc, Becomes(p, v)
        PROVE  CredentialTypes'
    BY <2>1, <2>7
  <2>8. ASSUME NEW p \in Visits PROVE visit[p] \in VisitRec
    BY DEF EidasInv, VisitInv
  <2>9. ASSUME NEW p \in Visits, ToImage(p) PROVE CredentialTypes'
    <3>1. \/ Becomes(p, [visit[p] EXCEPT !.pc = "find"]) \/ Becomes(p, Failed)
          \/ \E i : Becomes(p, [visit[p] EXCEPT !.pc = "find", !.photo = i])
      BY <2>9 DEF ToImage, Leaves
    <3>2. /\ [visit[p] EXCEPT !.pc = "find"].pc = "find"
          /\ \A i : [visit[p] EXCEPT !.pc = "find", !.photo = i].pc = "find"
      BY <2>8 DEF VisitRec
    <3> QED BY <2>1, <2>2, <3>1, <3>2
  <2>10. ASSUME NEW p \in Visits, FindUser(p) PROVE CredentialTypes'
    <3>1. \/ Becomes(p, [visit[p] EXCEPT !.pc = "create"])
          \/ \E u : Becomes(p, [visit[p] EXCEPT !.pc = "destroy", !.user = u, !.copy = resident[u]])
      BY <2>10 DEF FindUser
    <3>2. /\ [visit[p] EXCEPT !.pc = "create"].pc = "create"
          /\ \A u : [visit[p] EXCEPT !.pc = "destroy", !.user = u, !.copy = resident[u]].pc = "destroy"
      BY <2>8 DEF VisitRec
    <3> QED BY <2>1, <3>1, <3>2
  <2>11. ASSUME NEW p \in Visits, DestroyPhoto(p) PROVE CredentialTypes'
    <3>1. Becomes(p, [visit[p] EXCEPT !.pc = "replace"]) \/ Becomes(p, Failed)
      BY <2>11 DEF DestroyPhoto
    <3>2. [visit[p] EXCEPT !.pc = "replace"].pc = "replace"
      BY <2>8 DEF VisitRec
    <3> QED BY <2>1, <2>2, <3>1, <3>2
  <2>12. ASSUME NEW p \in Visits, SaveUser(p) \/ CreateUser(p) PROVE CredentialTypes'
    <3>1. PICK u : Settles(p, u)
      BY <2>12 DEF SaveUser, CreateUser
    <3>2. PICK v : v = [visit[p] EXCEPT !.pc = "returned", !.user = u, !.copy = None,
                                        !.back = states[visit[p].to]]
      OBVIOUS
    <3>3. v.pc = "returned"
      BY <2>8, <3>2 DEF VisitRec
    <3>4. Becomes(p, Failed) \/ Becomes(p, v)
      BY <3>1, <3>2 DEF Settles
    <3> QED BY <2>1, <2>2, <3>3, <3>4
  <2> QED BY <2>3, <2>4, <2>5, <2>6, <2>9, <2>10, <2>11, <2>12 DEF LoginStep
<1>3. StatesTyped'
  <2>1. CASE states' = states
    BY <2>1 DEF EidasTypes, StatesTyped
  <2>2. CASE states' = <<>>
    BY <2>2 DEF StatesTyped
  <2>3. ASSUME NEW w \in Windows, CreateAuthRequest(w) PROVE StatesTyped'
    <3>1. PICK a \in EidasApps, id \in {Fresh(RequestIds \ DOMAIN issued)} :
            states' = Store(states, id, [app |-> a, window |-> w])
      BY <2>3 DEF CreateAuthRequest
    <3>2. [app |-> a, window |-> w] \in Origin
      BY DEF Origin
    <3> QED BY <3>1, <3>2, StoredTyped DEF EidasTypes, StatesTyped
  <2> QED BY <2>1, <2>2, <2>3 DEF LoginStep, SamlApplicationLogin, AssertFails, ToImage,
         FindUser, DestroyPhoto, SaveUser, CreateUser, Settles, SaveUserFails, StopProcess, Same
<1>4. OneAddressEach'
  <2>1. CASE resident' = resident
    BY <2>1 DEF EidasTypes, OneAddressEach
  <2> QED BY <2>1, SavedAddress, CreatedAddress DEF EidasTypes, LoginStep, CreateAuthRequest,
         SamlApplicationLogin, AssertFails, ToImage, FindUser, DestroyPhoto, SaveUserFails,
         StopProcess, Same
<1> QED BY <1>2, <1>3, <1>4 DEF EidasTypes

\* Credentials are rows of applications that take national identities, with at least the
\* attributes always asked for; accounts are accounts of persons, and no address is that of two
\* of them, whichever logins create and update accounts at once (create_user, update_user).
THEOREM IdentitiesAreTyped == EidasSpec => []EidasTypeOK
<1>1. EidasInit => EidasInv /\ EidasTypes
  <2> SUFFICES ASSUME EidasInit PROVE EidasInv /\ EidasTypes
    OBVIOUS
  <2>1. /\ states = <<>> /\ resident = <<>> /\ visit = [p \in Visits |-> NoVisit]
        /\ certified = DOMAIN credentials
    BY DEF EidasInit
  <2>2. credentials \in [DOMAIN credentials -> Credential] /\ DOMAIN credentials \subseteq EidasApps
    <3>1. CASE credentials = <<>>
      BY <3>1
    <3>2. CASE credentials = [a \in EidasApps |-> [attributes |-> Configured, contact |-> "first"]]
      <4>1. [attributes |-> Configured, contact |-> "first"] \in Credential
        BY EidasAssumption DEF Credential
      <4> QED BY <3>2, <4>1
    <3> QED BY <3>1, <3>2 DEF EidasInit
  <2>3. CredentialTypes
    BY <2>1, <2>2, BlankVisits DEF CredentialTypes, Does
  <2>4. StatesTyped /\ OneAddressEach
    BY <2>1 DEF StatesTyped, OneAddressEach
  <2> QED BY <2>3, <2>4, EidasStarts DEF EidasTypes
<1>2. (EidasInv /\ EidasTypes) /\ [CredentialStep \/ LoginStep]_eidasVars => (EidasInv /\ EidasTypes)'
  <2> SUFFICES ASSUME EidasInv, EidasTypes, [CredentialStep \/ LoginStep]_eidasVars
               PROVE  EidasInv' /\ EidasTypes'
    OBVIOUS
  <2>1. UNCHANGED eidasVars => EidasTypes'
    BY DEF eidasVars, EidasTypes, CredentialTypes, StatesTyped, OneAddressEach, Does
  <2> QED BY <2>1, EidasInvStep, CredentialStepTyped, LoginStepTyped
<1>3. EidasInv /\ EidasTypes => EidasTypeOK
  <2> SUFFICES ASSUME EidasInv, EidasTypes PROVE EidasTypeOK
    OBVIOUS
  <2>1. \A p \in Visits : visit[p].user \in Users \union {None}
    BY DEF EidasInv, VisitInv, VisitRec
  <2>2. certified \subseteq Apps
    BY EidasAssumption DEF EidasTypes, CredentialTypes
  <2> QED BY <2>1, <2>2 DEF EidasInv, IssuedInv, ResidentInv, EidasTypes, CredentialTypes,
         StatesTyped, OneAddressEach, EidasTypeOK
<1> QED BY <1>1, <1>2, <1>3, PTL DEF EidasSpec
=============================================================================
