------------------------- MODULE ApplicationsProofs -------------------------
(***************************************************************************)
(* Proofs about Applications, for any tables a behaviour may start from    *)
(* and any number of requests in flight.                                   *)
(***************************************************************************)
EXTENDS Applications, FiniteSetTheorems, TLAPS

(***************************************************************************)
(* The steps of each part of the module, by program counter.               *)
(***************************************************************************)
CreationPcs == {"save", "inserted", "assign", "undo", "abandoned"}
UploadPcs == {"check", "setImage", "unlinkNew"}
UpdatePcs == ApplicationKinds \union {"flush"}
PicturePcs == UploadPcs \union {"unlinkOld", "clearImage", "unlinkOfApplication"}
MachinePcs == AddKinds \union WebMachineKinds \union ApiMachineKinds \union {"savePep"}
TokenPcs == {"createToken", "deleteToken"}
TrustPcs == {"setTrusted", "bulkTrusts", "addTrusted", "removeTrusted"}
Pcs == {"idle", "lost"} \union CreationPcs \union UpdatePcs \union PicturePcs
          \union MachinePcs \union TokenPcs \union TrustPcs
Kinds == {"none", "webCreate", "apiCreate", "upload"} \union Pcs

Caller == Users \union Machines
ReqType ==
    [pc: Pcs, kind: Kinds, who: Caller \union {None}, app: Apps \union {None},
     copy: AppRow \union {None}, row: {"none", "find", "create", "made"},
     choice: {"none", "openid", "bearer", "jwt"}, valid: BOOLEAN,
     file: Images \union {None}, machine: Machines \union {None},
     secret: Secrets \union {None}, list: SUBSET Apps, todo: SUBSET {"password", "token"},
     by: Caller \union {None}, with: Caller \union {None}, token: Tokens \union {None},
     proofs: SUBSET Caller]

WellFormed(q) ==
    /\ q.pc \in UpdatePcs \union PicturePcs => q.app \in Apps /\ q.copy \in AppRow
    /\ q.pc \in CreationPcs => q.app \in Apps
    /\ q.pc \notin CreationPcs => q.row = "none"
    /\ q.pc \in UploadPcs => q.file \in Images

TypeInv ==
    /\ ApplicationsTypeOK
    /\ app \in [Live -> AppRow]
    /\ machine \in [DOMAIN machine -> Machine] /\ DOMAIN machine \subseteq Machines
    /\ token \in [DOMAIN token -> Caller]
    /\ proof \in [DOMAIN token -> SUBSET Caller]
    /\ req \in [Requests -> ReqType]
    /\ \A p \in Requests : WellFormed(req[p])

\* A request that begins finds its application as it is now; one that goes on keeps
\* what it has loaded.
Begun(n) == /\ n.row = "none"
            /\ n.app \in Live \union {None}
            /\ n.copy # None => n.app \in Live /\ n.copy = app[n.app]
GoesOn(q, n) == /\ n.app = q.app /\ n.copy = q.copy /\ n.row = q.row
                /\ n.file = q.file /\ (n.pc \in UploadPcs => q.pc \in UploadPcs)

\* What a step makes of its request: one of the program counters it may come to.
Comes(p, pcs) ==
    \E n \in ReqType : /\ Become(p, n)
                       /\ WellFormed(n)
                       /\ n.pc \in pcs \union {"idle"}
                       /\ Begun(n) \/ GoesOn(req[p], n)

LEMMA QuietType == /\ Quiet \in ReqType /\ WellFormed(Quiet) /\ Begun(Quiet)
                   /\ Quiet.pc = "idle" /\ Quiet.copy = None /\ Quiet.app = None
                   /\ Quiet.row = "none" /\ Quiet.file = None /\ Quiet.machine = None
<1>1. Quiet \in ReqType
  <2>1. PICK none : none = None
    OBVIOUS
  <2>2. PICK set : set = {}
    OBVIOUS
  <2>3. /\ none \in Caller \union {None} /\ none \in Apps \union {None}
        /\ none \in AppRow \union {None} /\ none \in Images \union {None}
        /\ none \in Machines \union {None} /\ none \in Secrets \union {None}
        /\ none \in Tokens \union {None}
    BY <2>1
  <2>4. set \in SUBSET Apps /\ set \in SUBSET {"password", "token"} /\ set \in SUBSET Caller
    BY <2>2
  <2>5. /\ "idle" \in Pcs /\ "none" \in Kinds /\ "none" \in {"none", "find", "create", "made"}
        /\ "none" \in {"none", "openid", "bearer", "jwt"}
    BY DEF Pcs, Kinds
  <2>6. [pc |-> "idle", kind |-> "none", who |-> none, app |-> none, copy |-> none,
         row |-> "none", choice |-> "none", valid |-> TRUE, file |-> none, machine |-> none,
         secret |-> none, list |-> set, todo |-> set, by |-> none, with |-> none,
         token |-> none, proofs |-> set] \in ReqType
    BY <2>3, <2>4, <2>5, Zenon DEF ReqType
  <2> QED BY <2>1, <2>2, <2>6, Zenon DEF Quiet
<1>2. /\ Quiet.pc = "idle" /\ Quiet.copy = None /\ Quiet.app = None
      /\ Quiet.row = "none" /\ Quiet.file = None /\ Quiet.machine = None
  BY DEF Quiet
<1>3. Quiet.pc \notin UpdatePcs \union PicturePcs \union CreationPcs \union UploadPcs
  BY <1>2 DEF UpdatePcs, PicturePcs, CreationPcs, UploadPcs, ApplicationKinds
<1> QED BY <1>1, <1>2, <1>3 DEF WellFormed, Begun

LEMMA OnlyOne ==
  ASSUME TypeInv, NEW p \in Requests, NEW n, Become(p, n)
  PROVE  req'[p] = n /\ \A o \in Requests \ {p} : req'[o] = req[o]
  BY DEF TypeInv, Become

LEMMA FinishComes ==
  ASSUME NEW p \in Requests, NEW pcs, Finish(p)
  PROVE  Comes(p, pcs)
  BY QuietType DEF Finish, Comes

LEMMA GotoIs ==
  ASSUME TypeInv, NEW p \in Requests, NEW pc \in Pcs, Goto(p, pc)
  PROVE  \E n \in ReqType : Become(p, n) /\ n = [req[p] EXCEPT !.pc = pc]
<1>1. req[p] \in ReqType
  BY DEF TypeInv
<1>2. [req[p] EXCEPT !.pc = pc] \in ReqType
  BY <1>1 DEF ReqType
<1> QED BY <1>2 DEF Goto

LEMMA GotoKeeps ==
  ASSUME NEW q \in ReqType, NEW pc, NEW n, n = [q EXCEPT !.pc = pc]
  PROVE  /\ n.pc = pc /\ n.kind = q.kind /\ n.who = q.who /\ n.app = q.app
         /\ n.copy = q.copy /\ n.row = q.row /\ n.choice = q.choice /\ n.valid = q.valid
         /\ n.file = q.file /\ n.machine = q.machine /\ n.todo = q.todo
         /\ n.by = q.by /\ n.with = q.with /\ n.token = q.token /\ n.proofs = q.proofs
  BY DEF ReqType

\* Goto within a part of the module.
LEMMA GotoComes ==
  ASSUME TypeInv, NEW p \in Requests, NEW pc \in Pcs, Goto(p, pc), NEW pcs, pc \in pcs,
         pc \in UpdatePcs \union PicturePcs => req[p].pc \in UpdatePcs \union PicturePcs,
         pc \in CreationPcs <=> req[p].pc \in CreationPcs,
         pc \in UploadPcs => req[p].pc \in UploadPcs
  PROVE  Comes(p, pcs)
<1>1. PICK n \in ReqType : Become(p, n) /\ n = [req[p] EXCEPT !.pc = pc]
  BY GotoIs
<1>2. req[p] \in ReqType /\ WellFormed(req[p])
  BY DEF TypeInv
<1>3. n.pc = pc /\ GoesOn(req[p], n) /\ WellFormed(n)
  BY <1>1, <1>2, GotoKeeps DEF GoesOn, WellFormed
<1> QED BY <1>1, <1>3 DEF Comes

\* A request that begins with an application as it is loaded.
LEMMA LoadedType ==
  ASSUME TypeInv, NEW a \in Live
  PROVE  /\ Loaded(a) \in ReqType
         /\ Loaded(a).app = a /\ Loaded(a).copy = app[a] /\ Loaded(a).row = "none"
         /\ Loaded(a).pc = "idle" /\ Loaded(a).file = None
<1>1. a \in Apps /\ app[a] \in AppRow
  BY DEF TypeInv, ApplicationsTypeOK
<1> QED BY <1>1, QuietType DEF Loaded, ReqType, Quiet

LEMMA StartComes ==
  ASSUME TypeInv, NEW p \in Requests, NEW kind \in Pcs, NEW q \in ReqType,
         q.pc = "idle", Begun(q), Start(p, kind, q), NEW pcs, kind \in pcs,
         kind \notin CreationPcs \union UploadPcs,
         kind \in UpdatePcs \union PicturePcs => q.app \in Apps /\ q.copy \in AppRow
  PROVE  Comes(p, pcs)
<1>1. PICK n : n = [q EXCEPT !.kind = kind, !.pc = kind]
  OBVIOUS
<1>2. n \in ReqType
  BY <1>1 DEF ReqType, Kinds
<1>3. /\ n.pc = kind /\ n.app = q.app /\ n.copy = q.copy /\ n.row = q.row
      /\ n.file = q.file
  BY <1>1 DEF ReqType
<1>4. Become(p, n)
  BY <1>1 DEF Start
<1>5. WellFormed(n) /\ Begun(n)
  BY <1>3 DEF WellFormed, Begun
<1> QED BY <1>2, <1>3, <1>4, <1>5 DEF Comes

LEMMA ComesMore ==
  ASSUME NEW p \in Requests, NEW some, NEW more, some \subseteq more, Comes(p, some)
  PROVE  Comes(p, more)
  BY DEF Comes

\* The program counters of the parts are apart from one another.
LEMMA PartsApart ==
  /\ \A pc \in MachinePcs \ {"apiDestroy"} :
        pc \notin UpdatePcs \union PicturePcs \union CreationPcs \union TokenPcs
  /\ \A pc \in TokenPcs \union TrustPcs :
        pc \notin UpdatePcs \union PicturePcs \union CreationPcs \union MachinePcs
  /\ \A pc \in UpdatePcs \union PicturePcs : pc \notin CreationPcs \union TokenPcs \union MachinePcs
  /\ \A pc \in UpdatePcs : pc \notin PicturePcs
  /\ "idle" \notin UpdatePcs \union PicturePcs \union CreationPcs \union TokenPcs \union MachinePcs
  /\ "lost" \notin UpdatePcs \union PicturePcs \union CreationPcs \union TokenPcs \union MachinePcs
  BY DEF MachinePcs, UpdatePcs, PicturePcs, CreationPcs, UploadPcs, TokenPcs, TrustPcs,
     AddKinds, WebMachineKinds, ApiMachineKinds, ApplicationKinds

LEMMA LoadedOpens ==
  ASSUME TypeInv, NEW a \in Live, NEW q, q \in ReqType, q.app = a, q.copy = app[a],
         q.row = "none"
  PROVE  Begun(q)
  BY DEF Begun

(***************************************************************************)
(* What each part makes of the request that takes the step.                *)
(***************************************************************************)
LEMMA TrustingComes ==
  ASSUME TypeInv, NEW p \in Requests, Trusting(p)
  PROVE  Comes(p, TrustPcs)
<1>1. ASSUME TrustRequest(p)  PROVE Comes(p, TrustPcs)
  <2>1. PICK a \in Live :
           \/ \E list \in SUBSET Apps : Start(p, "setTrusted", [Loaded(a) EXCEPT !.list = list])
           \/ \E b \in Live, kind \in {"addTrusted", "removeTrusted"} :
                 Start(p, kind, [Loaded(a) EXCEPT !.list = {b}])
    BY <1>1 DEF TrustRequest
  <2>2. \E list \in SUBSET Apps, kind \in {"setTrusted", "addTrusted", "removeTrusted"} :
           Start(p, kind, [Loaded(a) EXCEPT !.list = list])
    <3>1. \A b \in Live : {b} \in SUBSET Apps
      BY DEF TypeInv, ApplicationsTypeOK
    <3> QED BY <2>1, <3>1
  <2>3. PICK list \in SUBSET Apps, kind \in {"setTrusted", "addTrusted", "removeTrusted"} :
           Start(p, kind, [Loaded(a) EXCEPT !.list = list])
    BY <2>2
  <2>4. PICK q : q = [Loaded(a) EXCEPT !.list = list]
    OBVIOUS
  <2>5. q \in ReqType /\ q.pc = "idle" /\ q.app = a /\ q.copy = app[a] /\ q.row = "none"
    BY <2>4, LoadedType DEF ReqType
  <2>6. Begun(q)
    BY <2>5, LoadedOpens
  <2>7. kind \in TrustPcs /\ kind \in Pcs
    BY DEF TrustPcs, Pcs
  <2>8. Start(p, kind, q)
    BY <2>3, <2>4
  <2>9. kind \notin CreationPcs \union UploadPcs /\ kind \notin UpdatePcs \union PicturePcs
    BY <2>7, PartsApart DEF PicturePcs
  <2> QED BY <2>5, <2>6, <2>7, <2>8, <2>9, StartComes
<1>2. ASSUME DestroyTrusts(p)  PROVE Comes(p, TrustPcs)
  <2>1. Goto(p, "bulkTrusts")
    BY <1>2 DEF DestroyTrusts
  <2>2. "bulkTrusts" \in TrustPcs /\ "bulkTrusts" \in Pcs
    BY DEF TrustPcs, Pcs
  <2>3. req[p].pc \notin CreationPcs
    BY <1>2, PartsApart DEF DestroyTrusts, At, TrustPcs
  <2>4. "bulkTrusts" \notin UpdatePcs \union PicturePcs \union CreationPcs \union UploadPcs
    BY <2>2, PartsApart DEF PicturePcs
  <2> QED BY <2>1, <2>2, <2>3, <2>4, GotoComes
<1>3. ASSUME BulkCreateTrusts(p) \/ AddTrusted(p) \/ RemoveTrusted(p)  PROVE Comes(p, TrustPcs)
  <2>1. Finish(p)
    BY <1>3 DEF BulkCreateTrusts, AddTrusted, RemoveTrusted
  <2> QED BY <2>1, FinishComes
<1> QED BY <1>1, <1>2, <1>3 DEF Trusting

MachineKinds == AddKinds \union WebMachineKinds \union ApiMachineKinds

LEMMA MachineRequestComes ==
  ASSUME TypeInv, NEW p \in Requests, MachineRequest(p)
  PROVE  Comes(p, MachineKinds)
<1>1. ASSUME NEW a \in Live, NEW kind \in MachineKinds,
             NEW q \in ReqType, q.pc = "idle", q.app = a, q.copy = app[a], q.row = "none",
             Start(p, kind, q)
      PROVE  Comes(p, MachineKinds)
  <2>1. Begun(q)
    BY <1>1, LoadedOpens
  <2>2. kind \in MachinePcs /\ kind \in Pcs /\ kind # "apiDestroy"
    BY DEF MachinePcs, Pcs, MachineKinds, AddKinds, WebMachineKinds, ApiMachineKinds
  <2>3. kind \notin CreationPcs \union UploadPcs /\ kind \notin UpdatePcs \union PicturePcs
    BY <2>2, PartsApart DEF PicturePcs
  <2> QED BY <1>1, <2>1, <2>2, <2>3, StartComes
<1>2. ASSUME NEW a \in Live, NEW kind \in AddKinds, Start(p, kind, Loaded(a))
      PROVE  Comes(p, MachineKinds)
  BY <1>1, <1>2, LoadedType DEF MachineKinds
<1>3. ASSUME NEW a \in Live, NEW m \in Machines, NEW kind \in WebMachineKinds \union ApiMachineKinds,
             Start(p, kind, [Loaded(a) EXCEPT !.machine = m])
      PROVE  Comes(p, MachineKinds)
  <2>1. PICK q : q = [Loaded(a) EXCEPT !.machine = m]
    OBVIOUS
  <2>2. q \in ReqType /\ q.pc = "idle" /\ q.app = a /\ q.copy = app[a] /\ q.row = "none"
    BY <2>1, LoadedType DEF ReqType
  <2>3. kind \in MachineKinds
    BY DEF MachineKinds
  <2> QED BY <1>1, <1>3, <2>1, <2>2, <2>3
<1>4. \A a \in Live, kind \in ApiMachineKinds : MachinesOf(a, Pep(kind)) \subseteq Machines
  BY DEF TypeInv, MachinesOf
<1> QED BY <1>2, <1>3, <1>4 DEF MachineRequest

LEMMA EquippingComes ==
  ASSUME TypeInv, NEW p \in Requests, Equipping(p)
  PROVE  Comes(p, MachinePcs) \/ Die
<1>1. ASSUME MachineRequest(p)  PROVE Comes(p, MachinePcs)
  <2>1. MachineKinds \subseteq MachinePcs
    BY DEF MachineKinds, MachinePcs
  <2> QED BY <1>1, <2>1, MachineRequestComes, ComesMore
<1>2. ASSUME RegisterPep(p) \/ CreatePep(p)  PROVE Comes(p, MachinePcs) \/ Die
  <2>1. Goto(p, "savePep") \/ Finish(p) \/ Die
    BY <1>2 DEF RegisterPep, CreatePep
  <2>2. "savePep" \in MachinePcs /\ "savePep" \in Pcs /\ "savePep" # "apiDestroy"
    BY DEF MachinePcs, Pcs
  <2>3. "savePep" \notin UpdatePcs \union PicturePcs \union CreationPcs \union UploadPcs
    BY <2>2, PartsApart DEF PicturePcs
  <2>4. req[p].pc \notin CreationPcs
    BY <1>2 DEF RegisterPep, CreatePep, At, CreationPcs
  <2>5. ASSUME Goto(p, "savePep")  PROVE Comes(p, MachinePcs)
    BY <2>5, <2>2, <2>3, <2>4, GotoComes
  <2>6. ASSUME Finish(p)  PROVE Comes(p, MachinePcs)
    BY <2>6, FinishComes
  <2> QED BY <2>1, <2>5, <2>6
<1>3. ASSUME \/ SavePep(p) \/ RegisterIot(p) \/ CreateIot(p)
             \/ ResetPasswordPep(p) \/ ResetPasswordIot(p) \/ UpdatePep(p) \/ UpdateIot(p)
             \/ DeletePep(p) \/ DeleteIot(p) \/ DestroyPep(p) \/ DestroyIot(p)
      PROVE  Comes(p, MachinePcs)
  <2>1. Finish(p)
    BY <1>3 DEF SavePep, RegisterIot, CreateIot, ResetPasswordPep, ResetPasswordIot, UpdatePep,
       UpdateIot, DeletePep, DeleteIot, DestroyPep, DestroyIot, Add, ResetPassword, Remove
  <2> QED BY <2>1, FinishComes
<1> QED BY <1>1, <1>2, <1>3 DEF Equipping

LEMMA AuthenticatingComes ==
  ASSUME TypeInv, NEW p \in Requests, Authenticating(p)
  PROVE  Comes(p, TokenPcs)
<1> DEFINE Opened(q) == /\ q \in ReqType /\ q.pc = "idle" /\ q.app = None /\ q.copy = None
                        /\ q.row = "none"
<1>1. ASSUME NEW q, Opened(q), NEW kind \in TokenPcs, Start(p, kind, q)
      PROVE  Comes(p, TokenPcs)
  <2>1. Begun(q)
    BY <1>1 DEF Begun
  <2>2. kind \in Pcs
    BY DEF Pcs
  <2>3. kind \notin CreationPcs \union UploadPcs /\ kind \notin UpdatePcs \union PicturePcs
    BY PartsApart DEF PicturePcs
  <2> QED BY <1>1, <2>1, <2>2, <2>3, StartComes
<1>2. ASSUME CreateTokenRequest(p)  PROVE Comes(p, TokenPcs)
  <2>1. PICK methods \in {{"password"}, {"token"}, {"password", "token"}},
             name \in users \union DOMAIN machine, s \in Secrets, t \in DOMAIN token :
                Start(p, "createToken",
                   [Quiet EXCEPT !.todo = methods, !.who = name, !.secret = s, !.token = t,
                                 !.proofs = IF "token" \in methods THEN proof[t] ELSE {}])
    BY <1>2 DEF CreateTokenRequest
  <2>2. PICK proofs : proofs = IF "token" \in methods THEN proof[t] ELSE {}
    OBVIOUS
  <2>3. /\ proofs \in SUBSET Caller /\ methods \in SUBSET {"password", "token"}
        /\ name \in Caller /\ t \in Tokens
    BY <2>2 DEF TypeInv, ApplicationsTypeOK, Caller
  <2>4. PICK q : q = [Quiet EXCEPT !.todo = methods, !.who = name, !.secret = s, !.token = t,
                                   !.proofs = proofs]
    OBVIOUS
  <2>5. Opened(q)
    BY <2>3, <2>4, QuietType DEF ReqType
  <2>6. Start(p, "createToken", q)
    BY <2>1, <2>2, <2>4
  <2>7. "createToken" \in TokenPcs
    BY DEF TokenPcs
  <2> QED BY <1>1, <2>5, <2>6, <2>7
<1>3. ASSUME DeleteTokenRequest(p)  PROVE Comes(p, TokenPcs)
  <2>1. PICK subject \in DOMAIN token : Start(p, "deleteToken", [Quiet EXCEPT !.token = subject])
    BY <1>3 DEF DeleteTokenRequest
  <2>2. PICK q : q = [Quiet EXCEPT !.token = subject]
    OBVIOUS
  <2>3. subject \in Tokens
    BY DEF TypeInv, ApplicationsTypeOK
  <2>4. Opened(q)
    BY <2>2, <2>3, QuietType DEF ReqType
  <2>5. Start(p, "deleteToken", q)
    BY <2>1, <2>2
  <2>6. "deleteToken" \in TokenPcs
    BY DEF TokenPcs
  <2> QED BY <1>1, <2>4, <2>5, <2>6
<1>4. PICK q : q = req[p]
  OBVIOUS
<1>5. q \in ReqType /\ WellFormed(q)
  BY <1>4 DEF TypeInv
<1>6. ASSUME SearchIdentity(p)  PROVE Comes(p, TokenPcs)
  <2>1. CASE Finish(p)
    BY <2>1, FinishComes
  <2>2. CASE ~Finish(p)
    <3>1. /\ q.who \in Caller
          /\ Become(p, [q EXCEPT !.todo = @ \ {"password"}, !.by = q.who,
                                 !.proofs = @ \union {q.who}])
      BY <1>4, <1>6, <2>2 DEF SearchIdentity, Holders, TypeInv, ApplicationsTypeOK, Caller
    <3>2. PICK n : n = [q EXCEPT !.todo = @ \ {"password"}, !.by = q.who,
                                 !.proofs = @ \union {q.who}]
      OBVIOUS
    <3>3. n \in ReqType
      BY <1>5, <3>1, <3>2 DEF ReqType
    <3>4. /\ n.pc = q.pc /\ n.app = q.app /\ n.copy = q.copy /\ n.row = q.row
          /\ n.file = q.file
      BY <1>5, <3>2 DEF ReqType
    <3>5. q.pc = "createToken"
      BY <1>4, <1>6 DEF SearchIdentity, At
    <3>6. GoesOn(req[p], n) /\ WellFormed(n) /\ n.pc \in TokenPcs
      BY <1>4, <1>5, <3>4, <3>5 DEF GoesOn, WellFormed, TokenPcs
    <3> QED BY <3>1, <3>2, <3>3, <3>6 DEF Comes
  <2> QED BY <2>1, <2>2
<1>7. ASSUME SearchTokenOwner(p)  PROVE Comes(p, TokenPcs)
  <2>1. CASE Finish(p)
    BY <2>1, FinishComes
  <2>2. CASE ~Finish(p)
    <3>1. /\ q.token \in DOMAIN token /\ token[q.token] \in Caller
          /\ Become(p, [q EXCEPT !.todo = @ \ {"token"}, !.with = token[q.token]])
      BY <1>4, <1>7, <2>2 DEF SearchTokenOwner, TypeInv
    <3>2. PICK n : n = [q EXCEPT !.todo = @ \ {"token"}, !.with = token[q.token]]
      OBVIOUS
    <3>3. n \in ReqType
      BY <1>5, <3>1, <3>2 DEF ReqType
    <3>4. /\ n.pc = q.pc /\ n.app = q.app /\ n.copy = q.copy /\ n.row = q.row
          /\ n.file = q.file
      BY <1>5, <3>2 DEF ReqType
    <3>5. q.pc = "createToken"
      BY <1>4, <1>7 DEF SearchTokenOwner, At
    <3>6. GoesOn(req[p], n) /\ WellFormed(n) /\ n.pc \in TokenPcs
      BY <1>4, <1>5, <3>4, <3>5 DEF GoesOn, WellFormed, TokenPcs
    <3> QED BY <3>1, <3>2, <3>3, <3>6 DEF Comes
  <2> QED BY <2>1, <2>2
<1>8. ASSUME CreateToken(p) \/ DeleteToken(p)  PROVE Comes(p, TokenPcs)
  <2>1. Finish(p)
    BY <1>8 DEF CreateToken, DeleteToken
  <2> QED BY <2>1, FinishComes
<1> QED BY <1>2, <1>3, <1>6, <1>7, <1>8 DEF Authenticating

LEMMA UpdatingComes ==
  ASSUME TypeInv, NEW p \in Requests, Updating(p)
  PROVE  Comes(p, UpdatePcs) \/ Die
<1>1. ASSUME ApplicationRequest(p)  PROVE Comes(p, UpdatePcs)
  <2>1. PICK a \in Live, kind \in ApplicationKinds, choice \in {"none", "bearer", "jwt"},
             valid \in BOOLEAN :
                Start(p, kind, [Loaded(a) EXCEPT !.choice = choice, !.valid = valid])
    BY <1>1 DEF ApplicationRequest
  <2>2. PICK q : q = [Loaded(a) EXCEPT !.choice = choice, !.valid = valid]
    OBVIOUS
  <2>3. q \in ReqType /\ q.pc = "idle" /\ q.app = a /\ q.copy = app[a] /\ q.row = "none"
    <3>1. PICK r : r = Loaded(a)
      OBVIOUS
    <3>2. r \in ReqType /\ r.app = a /\ r.copy = app[a] /\ r.row = "none" /\ r.pc = "idle"
      BY <3>1, LoadedType
    <3>3. choice \in {"none", "openid", "bearer", "jwt"}
      OBVIOUS
    <3>4. q = [r EXCEPT !.choice = choice, !.valid = valid]
      BY <2>2, <3>1
    <3>5. q \in ReqType
      BY <3>2, <3>3, <3>4 DEF ReqType
    <3>6. q.pc = "idle" /\ q.app = a /\ q.copy = app[a] /\ q.row = "none"
      BY <3>2, <3>4 DEF ReqType
    <3> QED BY <3>5, <3>6
  <2>4. Begun(q)
    BY <2>3, LoadedOpens
  <2>5. kind \in UpdatePcs /\ kind \in Pcs
    BY DEF UpdatePcs, Pcs
  <2>6. kind \notin CreationPcs \union UploadPcs
    BY <2>5, PartsApart DEF PicturePcs
  <2>7. q.app \in Apps /\ q.copy \in AppRow
    BY <2>3 DEF TypeInv, ApplicationsTypeOK
  <2>8. Start(p, kind, q)
    BY <2>1, <2>2
  <2> QED BY <2>3, <2>4, <2>5, <2>6, <2>7, <2>8, StartComes
<1>2. ASSUME Update(p)  PROVE Comes(p, UpdatePcs)
  <2>1. Goto(p, "flush") /\ req[p].pc \in UpdatePcs
    BY <1>2 DEF Update, At, UpdatePcs, ApplicationKinds
  <2>2. "flush" \in UpdatePcs /\ "flush" \in Pcs
    BY DEF UpdatePcs, Pcs
  <2>3. "flush" \notin CreationPcs \union UploadPcs /\ req[p].pc \notin CreationPcs
    BY <2>1, <2>2, PartsApart DEF PicturePcs
  <2> QED BY <2>1, <2>2, <2>3, GotoComes
<1>3. ASSUME UpdateInfo(p) \/ ChangeTokenType(p) \/ ResetJwtSecret(p)
      PROVE  Comes(p, UpdatePcs)
  <2>1. Finish(p)
    BY <1>3 DEF UpdateInfo, ChangeTokenType, ResetJwtSecret
  <2> QED BY <2>1, FinishComes
<1>4. ASSUME FlushUpdate(p)  PROVE Comes(p, UpdatePcs) \/ Die
  <2>1. Finish(p) \/ Die
    BY <1>4 DEF FlushUpdate
  <2> QED BY <2>1, FinishComes
<1> QED BY <1>1, <1>2, <1>3, <1>4 DEF Updating

LEMMA PicturingComes ==
  ASSUME TypeInv, NEW p \in Requests, Picturing(p), ~Upload(p)
  PROVE  Comes(p, PicturePcs)
<1>1. ASSUME NEW pc \in PicturePcs, Goto(p, pc), req[p].pc \in UpdatePcs \union PicturePcs,
             pc \in UploadPcs => req[p].pc \in UploadPcs
      PROVE  Comes(p, PicturePcs)
  <2>1. pc \in Pcs /\ pc \notin CreationPcs /\ req[p].pc \notin CreationPcs
    BY <1>1, PartsApart DEF Pcs
  <2> QED BY <1>1, <2>1, GotoComes
<1>2. /\ {"unlinkOld", "clearImage", "unlinkOfApplication"} \subseteq PicturePcs
      /\ "unlinkOld" \notin UploadPcs /\ "clearImage" \notin UploadPcs
      /\ "unlinkOfApplication" \notin UploadPcs
      /\ {"check", "setImage", "unlinkNew"} \subseteq UploadPcs /\ UploadPcs \subseteq PicturePcs
      /\ {"deleteAvatar", "webDestroy"} \subseteq UpdatePcs
  BY DEF PicturePcs, UploadPcs, UpdatePcs, ApplicationKinds
<1>3. ASSUME CheckImage(p)  PROVE Comes(p, PicturePcs)
  <2>1. req[p].pc \in UploadPcs /\ (Goto(p, "setImage") \/ Goto(p, "unlinkNew"))
    BY <1>2, <1>3 DEF CheckImage, At
  <2> QED BY <1>1, <1>2, <2>1
<1>4. ASSUME SetImage(p)  PROVE Comes(p, PicturePcs)
  <2>1. /\ req[p].pc \in UploadPcs
        /\ Goto(p, "unlinkNew") \/ Goto(p, "unlinkOld") \/ Finish(p)
    BY <1>2, <1>4 DEF SetImage, At
  <2> QED BY <1>1, <1>2, <2>1, FinishComes
<1>5. ASSUME DeleteAvatar(p)  PROVE Comes(p, PicturePcs)
  <2>1. req[p].pc \in UpdatePcs /\ (Goto(p, "clearImage") \/ Finish(p))
    BY <1>2, <1>5 DEF DeleteAvatar, At
  <2> QED BY <1>1, <1>2, <2>1, FinishComes
<1>6. ASSUME WebDestroy(p)  PROVE Comes(p, PicturePcs)
  <2>1. req[p].pc \in UpdatePcs /\ Goto(p, "unlinkOfApplication")
    BY <1>2, <1>6 DEF WebDestroy, At
  <2> QED BY <1>1, <1>2, <2>1
<1>7. ASSUME DeleteImage(p) \/ ClearImage(p) \/ UnlinkOfApplication(p) \/ ApiDestroy(p)
      PROVE  Comes(p, PicturePcs)
  <2>1. Finish(p)
    BY <1>7 DEF DeleteImage, ClearImage, UnlinkOfApplication, ApiDestroy
  <2> QED BY <2>1, FinishComes
<1> QED BY <1>3, <1>4, <1>5, <1>6, <1>7 DEF Picturing

\* An upload has drawn a name that nothing else holds.
LEMMA UploadIs ==
  ASSUME TypeInv, NEW p \in Requests, Upload(p)
  PROVE  \E a \in Live, f \in FreshImages, n \in ReqType :
            /\ Become(p, n) /\ WellFormed(n)
            /\ n.pc = "check" /\ n.app = a /\ n.copy = app[a] /\ n.file = f /\ n.row = "none"
            /\ files' = files \union {f}
<1>1. PICK a \in Live, f \in FreshImages :
         /\ Start(p, "upload", [Loaded(a) EXCEPT !.pc = "check", !.file = f])
         /\ files' = files \union {f}
  BY DEF Upload
<1>2. PICK r : r = Loaded(a)
  OBVIOUS
<1>3. r \in ReqType /\ r.app = a /\ r.copy = app[a] /\ r.row = "none"
  BY <1>2, LoadedType
<1>4. PICK q : q = [r EXCEPT !.pc = "check", !.file = f]
  OBVIOUS
<1>5. f \in Images /\ "check" \in Pcs /\ "upload" \in Kinds
  BY DEF FreshImages, Pcs, Kinds, PicturePcs, UploadPcs
<1>6. q \in ReqType
  BY <1>3, <1>4, <1>5 DEF ReqType
<1>7. q.pc = "check" /\ q.app = a /\ q.copy = app[a] /\ q.file = f /\ q.row = "none"
  BY <1>3, <1>4 DEF ReqType
<1>8. PICK n : n = [q EXCEPT !.kind = "upload", !.pc = "check"]
  OBVIOUS
<1>9. n \in ReqType
  BY <1>5, <1>6, <1>8 DEF ReqType
<1>10. n.pc = "check" /\ n.app = a /\ n.copy = app[a] /\ n.file = f /\ n.row = "none"
  BY <1>6, <1>7, <1>8 DEF ReqType
<1>11. Become(p, n)
  BY <1>1, <1>2, <1>4, <1>7, <1>8 DEF Start
<1>12. WellFormed(n)
  BY <1>5, <1>10 DEF WellFormed, CreationPcs, TypeInv, ApplicationsTypeOK
<1> QED BY <1>1, <1>9, <1>10, <1>11, <1>12

\* A creation begins with an application that nobody else is at.
Founds(n) == /\ n.pc = "save" /\ n.app \in NewApps /\ n.copy = None /\ n.file = None
             /\ n.row \in {"none", "find"}
Unwinds(q, n) == /\ q.pc \in CreationPcs /\ n.app = q.app /\ n.copy = q.copy
                 /\ n.file = q.file /\ n.choice = q.choice /\ n.who = q.who
                 /\ n.kind = q.kind /\ (n.pc = "save" => q.pc = "save")

LEMMA FoundsType ==
  ASSUME NEW n \in ReqType, Founds(n)
  PROVE  WellFormed(n)
<1>1. n.pc \in CreationPcs /\ n.pc \notin UpdatePcs \union PicturePcs \union UploadPcs
  BY DEF Founds, CreationPcs, UpdatePcs, PicturePcs, UploadPcs, ApplicationKinds
<1>2. n.app \in Apps
  BY AppsAssumption DEF Founds, NewApps
<1> QED BY <1>1, <1>2 DEF WellFormed

\* A request that creates an application, as it begins and as it goes on.
Creates(p) == \E n \in ReqType : /\ Become(p, n) /\ WellFormed(n)
                                 /\ n.pc \in CreationPcs
                                 /\ \/ Founds(n) /\ n.kind \in {"webCreate", "apiCreate"}
                                    \/ Unwinds(req[p], n)

LEMMA CreatingComes ==
  ASSUME TypeInv, NEW p \in Requests, Creating(p)
  PROVE  Creates(p) \/ Finish(p) \/ Die
<1>1. ASSUME NEW q \in ReqType, Founds(q), NEW kind \in {"webCreate", "apiCreate"},
             Start(p, kind, q)
      PROVE  Creates(p)
  <2>1. PICK n : n = [q EXCEPT !.kind = kind, !.pc = "save"]
    OBVIOUS
  <2>2. n \in ReqType
    <3>1. kind \in Kinds /\ "save" \in Pcs
      BY DEF Kinds, Pcs, CreationPcs
    <3> QED BY <2>1, <3>1 DEF ReqType
  <2>3. Founds(n) /\ n.kind = kind
    BY <1>1, <2>1 DEF Founds, ReqType
  <2>4. Become(p, n)
    BY <1>1, <2>1 DEF Start, Founds
  <2>5. n.pc \in CreationPcs
    BY <2>3 DEF Founds, CreationPcs
  <2> QED BY <2>2, <2>3, <2>4, <2>5, FoundsType DEF Creates
<1>2. "save" \in Pcs
  BY DEF Pcs, CreationPcs
<1>3. ASSUME WebCreate(p)  PROVE Creates(p)
  <2>1. PICK u \in Users, a \in NewApps, org \in BOOLEAN, openid \in BOOLEAN, valid \in BOOLEAN :
          Start(p, "webCreate",
              [Quiet EXCEPT !.pc = "save", !.who = u, !.app = a, !.valid = valid,
                            !.row = IF org THEN "find" ELSE "none",
                            !.choice = IF openid THEN "openid" ELSE "none"])
    BY <1>3 DEF WebCreate
  <2>2. PICK row : row = IF org THEN "find" ELSE "none"
    OBVIOUS
  <2>3. PICK choice : choice = IF openid THEN "openid" ELSE "none"
    OBVIOUS
  <2>4. /\ row \in {"none", "find"} /\ row \in {"none", "find", "create", "made"}
        /\ choice \in {"none", "openid", "bearer", "jwt"}
    BY <2>2, <2>3
  <2>5. a \in Apps /\ u \in Caller
    BY AppsAssumption DEF NewApps, Caller
  <2>6. PICK q : q = [Quiet EXCEPT !.pc = "save", !.who = u, !.app = a, !.valid = valid,
                                   !.row = row, !.choice = choice]
    OBVIOUS
  <2>7. q \in ReqType
    <3>1. PICK r : r = Quiet
      OBVIOUS
    <3>2. r \in ReqType
      BY <3>1, QuietType
    <3>3. PICK r1 : r1 = [r EXCEPT !.pc = "save", !.who = u, !.app = a]
      OBVIOUS
    <3>4. r1 \in ReqType
      BY <1>2, <2>5, <3>2, <3>3 DEF ReqType
    <3>5. PICK r2 : r2 = [r1 EXCEPT !.valid = valid]
      OBVIOUS
    <3>6. r2 \in ReqType
      BY <3>4, <3>5 DEF ReqType
    <3>7. PICK r3 : r3 = [r2 EXCEPT !.row = row]
      OBVIOUS
    <3>8. row \in {"none", "find", "create", "made"}
      BY <2>4
    <3>9. r3 \in ReqType
      BY <3>6, <3>7, <3>8 DEF ReqType
    <3>10. PICK r4 : r4 = [r3 EXCEPT !.choice = choice]
      OBVIOUS
    <3>11. choice \in {"none", "openid", "bearer", "jwt"}
      BY <2>4
    <3>12. r4 \in ReqType
      BY <3>9, <3>10, <3>11 DEF ReqType
    <3>13. q = r4
      BY <2>6, <3>1, <3>3, <3>5, <3>7, <3>10
    <3> QED BY <3>12, <3>13
  <2>8. q.pc = "save" /\ q.app = a /\ q.copy = None /\ q.file = None /\ q.row = row
    BY <2>6, QuietType DEF ReqType
  <2>9. Founds(q)
    BY <2>4, <2>8 DEF Founds
  <2>10. Start(p, "webCreate", q)
    BY <2>1, <2>2, <2>3, <2>6
  <2> QED BY <1>1, <2>7, <2>9, <2>10
<1>4. ASSUME ApiCreate(p)  PROVE Creates(p)
  <2>1. PICK u \in users, a \in NewApps, jwt \in BOOLEAN :
          Start(p, "apiCreate",
              [Quiet EXCEPT !.pc = "save", !.who = u, !.app = a,
                            !.choice = IF jwt THEN "jwt" ELSE "none"])
    BY <1>4 DEF ApiCreate
  <2>2. PICK choice : choice = IF jwt THEN "jwt" ELSE "none"
    OBVIOUS
  <2>3. choice \in {"none", "openid", "bearer", "jwt"}
    BY <2>2
  <2>4. a \in Apps /\ u \in Caller
    BY AppsAssumption DEF NewApps, Caller, TypeInv, ApplicationsTypeOK
  <2>5. PICK q : q = [Quiet EXCEPT !.pc = "save", !.who = u, !.app = a, !.choice = choice]
    OBVIOUS
  <2>6. q \in ReqType
    BY <1>2, <2>3, <2>4, <2>5, QuietType DEF ReqType
  <2>7. q.pc = "save" /\ q.app = a /\ q.copy = None /\ q.file = None /\ q.row = "none"
    BY <2>5, QuietType DEF ReqType
  <2>8. Founds(q)
    BY <2>7 DEF Founds
  <2>9. Start(p, "apiCreate", q)
    BY <2>1, <2>2, <2>5
  <2> QED BY <1>1, <2>6, <2>8, <2>9
<1>5. PICK q : q = req[p]
  OBVIOUS
<1>6. q \in ReqType /\ WellFormed(q)
  BY <1>5 DEF TypeInv
<1>7. ASSUME NEW n \in ReqType, Become(p, n), n.pc \in CreationPcs, Unwinds(q, n)
      PROVE  Creates(p)
  <2>1. n.app \in Apps
    BY <1>6, <1>7 DEF Unwinds, WellFormed
  <2>2. n.pc \notin UpdatePcs \union PicturePcs \union UploadPcs
    BY <1>7, PartsApart DEF PicturePcs
  <2>3. WellFormed(n)
    BY <1>7, <2>1, <2>2 DEF WellFormed
  <2> QED BY <1>5, <1>7, <2>3 DEF Creates
<1>8. ASSUME q.pc \in CreationPcs, NEW pc \in CreationPcs, pc # "save", Goto(p, pc)
      PROVE  Creates(p)
  <2>1. PICK n : n = [q EXCEPT !.pc = pc]
    OBVIOUS
  <2>2. pc \in Pcs
    BY DEF Pcs
  <2>3. n \in ReqType
    BY <1>6, <2>1, <2>2 DEF ReqType
  <2>4. n.pc = pc /\ Unwinds(q, n)
    BY <1>6, <1>8, <2>1, GotoKeeps DEF Unwinds
  <2>5. Become(p, n)
    BY <1>5, <1>8, <2>1 DEF Goto
  <2> QED BY <1>7, <2>3, <2>4, <2>5
<1>9. ASSUME q.pc \in CreationPcs, NEW row \in {"none", "create", "made"}, NEW pc \in CreationPcs,
             pc = "save" => q.pc = "save",
             Become(p, [q EXCEPT !.row = row, !.pc = pc])
      PROVE  Creates(p)
  <2>1. PICK n : n = [q EXCEPT !.row = row, !.pc = pc]
    OBVIOUS
  <2>2. pc \in Pcs /\ row \in {"none", "find", "create", "made"}
    BY DEF Pcs
  <2>3. n \in ReqType
    BY <1>6, <2>1, <2>2 DEF ReqType
  <2>4. n.pc = pc /\ Unwinds(q, n)
    BY <1>6, <1>9, <2>1 DEF Unwinds, ReqType
  <2> QED BY <1>7, <1>9, <2>1, <2>3, <2>4
<1>10. ASSUME q.pc \in CreationPcs, NEW row \in {"none", "create", "made"},
              Become(p, [q EXCEPT !.row = row])
      PROVE  Creates(p)
  <2>1. [q EXCEPT !.row = row] = [q EXCEPT !.row = row, !.pc = q.pc]
    BY <1>6 DEF ReqType
  <2> QED BY <1>9, <1>10, <2>1
<1>11. {"save", "inserted", "assign", "undo", "abandoned"} \subseteq CreationPcs
  BY DEF CreationPcs
<1>12. ASSUME q.row # "none"  PROVE q.pc \in CreationPcs
  BY <1>6, <1>12 DEF WellFormed
<1>13. ASSUME q.pc \in CreationPcs, NoOrganization(p)  PROVE Creates(p) \/ Die
  <2>1. \/ Become(p, [q EXCEPT !.pc = "undo", !.row = "none"])
        \/ Die
    BY <1>5, <1>13 DEF NoOrganization
  <2>2. [q EXCEPT !.pc = "undo", !.row = "none"] = [q EXCEPT !.row = "none", !.pc = "undo"]
    BY <1>6 DEF ReqType
  <2> QED BY <1>9, <1>11, <1>13, <2>1, <2>2
<1>14. ASSUME SaveApplication(p)  PROVE Creates(p) \/ Finish(p)
  <2>1. q.pc \in CreationPcs /\ (Goto(p, "inserted") \/ Goto(p, "abandoned") \/ Finish(p))
    BY <1>5, <1>11, <1>14 DEF SaveApplication, At
  <2> QED BY <1>8, <1>11, <2>1
<1>15. ASSUME SaveResolves(p)  PROVE Creates(p)
  <2>1. q.pc \in CreationPcs /\ Goto(p, "assign")
    BY <1>5, <1>11, <1>15 DEF SaveResolves, At
  <2> QED BY <1>8, <1>11, <2>1
<1>16. ASSUME FindProvider(p)  PROVE Creates(p) \/ Die
  <2>1. q.pc \in CreationPcs
    BY <1>5, <1>12, <1>16 DEF FindProvider
  <2>2. Become(p, [q EXCEPT !.row = "create"]) \/ NoOrganization(p)
    BY <1>5, <1>16 DEF FindProvider
  <2> QED BY <1>10, <1>13, <2>1, <2>2
<1>17. ASSUME CreateProviderRow(p)  PROVE Creates(p) \/ Die
  <2>1. q.pc \in CreationPcs
    BY <1>5, <1>12, <1>17 DEF CreateProviderRow
  <2>2. Become(p, [q EXCEPT !.row = "made"]) \/ NoOrganization(p)
    BY <1>5, <1>17 DEF CreateProviderRow
  <2> QED BY <1>10, <1>13, <2>1, <2>2
<1>18. ASSUME AssignProvider(p) \/ UndoCreation(p)  PROVE Finish(p) \/ Die
  BY <1>18 DEF AssignProvider, UndoCreation
<1> QED BY <1>3, <1>4, <1>14, <1>15, <1>16, <1>17, <1>18 DEF Creating

(***************************************************************************)
(* Requests keep their type.                                               *)
(***************************************************************************)
RequestsOK == req \in [Requests -> ReqType] /\ \A p \in Requests : WellFormed(req[p])

LEMMA WithPc ==
  ASSUME NEW q \in ReqType, NEW pc \in Pcs
  PROVE  [q EXCEPT !.pc = pc] \in ReqType
  BY DEF ReqType

LEMMA LostType ==
  ASSUME NEW q, q = [Quiet EXCEPT !.pc = "lost"]
  PROVE  /\ q \in ReqType /\ WellFormed(q) /\ q.pc = "lost"
         /\ q.copy = None /\ q.app = None /\ q.row = "none"
<1>1. PICK r : r = Quiet
  OBVIOUS
<1>2. r \in ReqType /\ r.row = "none" /\ r.copy = None /\ r.app = None
  BY <1>1, QuietType
<1>3. q = [r EXCEPT !.pc = "lost"]
  BY <1>1
<1>4. q \in ReqType
  <2>1. PICK lost \in Pcs : lost = "lost"
    BY DEF Pcs
  <2>2. q = [r EXCEPT !.pc = lost]
    BY <1>3, <2>1
  <2>3. r \in ReqType
    BY <1>2
  <2>4. [r EXCEPT !.pc = lost] \in ReqType
    BY <2>3, WithPc
  <2> QED BY <2>2, <2>4
<1>5. q.pc = "lost" /\ q.copy = None /\ q.app = None /\ q.row = "none"
  BY <1>2, <1>3 DEF ReqType
<1>6. q.pc \notin UpdatePcs \union PicturePcs \union CreationPcs \union UploadPcs
  BY <1>5, PartsApart DEF PicturePcs
<1> QED BY <1>4, <1>5, <1>6 DEF WellFormed

LEMMA DieIs ==
  ASSUME Die, NEW o \in Requests
  PROVE  req'[o] = IF At(o, "idle") THEN Quiet ELSE [Quiet EXCEPT !.pc = "lost"]
  BY DEF Die, Lost

\* After the end of the process nothing is left of a request but that it is lost.
LEMMA DieLeaves ==
  ASSUME Die, NEW o \in Requests
  PROVE  /\ req'[o].pc \in {"idle", "lost"} /\ req'[o].copy = None /\ req'[o].app = None
         /\ req'[o].row = "none"
         /\ req'[o] \in ReqType /\ WellFormed(req'[o])
         /\ req[o].pc # "idle" => req'[o].pc = "lost"
<1>1. PICK q : q = [Quiet EXCEPT !.pc = "lost"]
  OBVIOUS
<1>2. req'[o] = IF At(o, "idle") THEN Quiet ELSE q
  BY <1>1, DieIs
<1>3. /\ q \in ReqType /\ WellFormed(q) /\ q.pc = "lost"
      /\ q.copy = None /\ q.app = None /\ q.row = "none"
  BY <1>1, LostType
<1> QED BY <1>2, <1>3, QuietType DEF At

LEMMA DieKeepsRequests ==
  ASSUME Die
  PROVE  RequestsOK'
<1>1. \A o \in Requests : req'[o] \in ReqType /\ WellFormed(req'[o])
  BY DieLeaves
<1>2. req' = [o \in Requests |-> req'[o]]
  BY DEF Die, Lost
<1>3. req' \in [Requests -> ReqType]
  BY <1>1, <1>2
<1> QED BY <1>1, <1>3 DEF RequestsOK, WellFormed

LEMMA BecomeKeepsRequests ==
  ASSUME TypeInv, NEW p \in Requests, NEW n \in ReqType, WellFormed(n), Become(p, n)
  PROVE  RequestsOK'
<1>1. req' \in [Requests -> ReqType]
  BY DEF TypeInv, Become
<1>2. \A o \in Requests : WellFormed(req'[o])
  BY OnlyOne DEF TypeInv
<1> QED BY <1>1, <1>2 DEF RequestsOK, WellFormed

LEMMA RequestsKeepTheirType ==
  ASSUME TypeInv, ApplicationStep
  PROVE  RequestsOK'
<1>1. ASSUME NEW p \in Requests, NEW pcs, Comes(p, pcs) \/ Creates(p) \/ Finish(p)
      PROVE  RequestsOK'
  <2>1. ASSUME Finish(p)  PROVE RequestsOK'
    BY <2>1, QuietType, BecomeKeepsRequests DEF Finish
  <2>2. ASSUME Comes(p, pcs) \/ Creates(p)  PROVE RequestsOK'
    <3>1. PICK n \in ReqType : WellFormed(n) /\ Become(p, n)
      BY <2>2 DEF Comes, Creates
    <3> QED BY <3>1, BecomeKeepsRequests
  <2> QED BY <1>1, <2>1, <2>2
<1>2. ASSUME NEW p \in Requests, Creating(p)  PROVE RequestsOK'
  BY <1>1, <1>2, CreatingComes, DieKeepsRequests
<1>3. ASSUME NEW p \in Requests, Updating(p)  PROVE RequestsOK'
  BY <1>1, <1>3, UpdatingComes, DieKeepsRequests
<1>4. ASSUME NEW p \in Requests, Picturing(p)  PROVE RequestsOK'
  <2>1. CASE Upload(p)
    <3>1. PICK n \in ReqType : WellFormed(n) /\ Become(p, n)
      BY <2>1, UploadIs
    <3> QED BY <3>1, BecomeKeepsRequests
  <2>2. CASE ~Upload(p)
    BY <1>1, <1>4, <2>2, PicturingComes
  <2> QED BY <2>1, <2>2
<1>5. ASSUME NEW p \in Requests, Equipping(p)  PROVE RequestsOK'
  BY <1>1, <1>5, EquippingComes, DieKeepsRequests
<1>6. ASSUME NEW p \in Requests, Authenticating(p)  PROVE RequestsOK'
  BY <1>1, <1>6, AuthenticatingComes
<1>7. ASSUME NEW p \in Requests, Trusting(p)  PROVE RequestsOK'
  BY <1>1, <1>7, TrustingComes
<1>8. ASSUME NEW p \in Requests, Reviving(p)  PROVE RequestsOK'
  BY <1>1, <1>8 DEF Reviving, Restart
<1>9. ASSUME DeleteAccount \/ LoseOrganization  PROVE RequestsOK'
  <2>1. req' = req
    BY <1>9 DEF DeleteAccount, LoseOrganization
  <2> QED BY <2>1 DEF TypeInv, RequestsOK, WellFormed
<1> QED BY <1>2, <1>3, <1>4, <1>5, <1>6, <1>7, <1>8, <1>9 DEF ApplicationStep

(***************************************************************************)
(* The tables keep theirs: what each kind of statement does to them.       *)
(***************************************************************************)
TablesOK ==
    /\ users \subseteq Users /\ owners \subseteq users
    /\ Live \subseteq Apps /\ app \in [Live -> AppRow]
    /\ provided \subseteq Live \X (users \union {"organization"})
    /\ files \subseteq Images \union {"logo"}
    /\ DOMAIN machine \subseteq Machines /\ machine \in [DOMAIN machine -> Machine]
    /\ \A m \in DOMAIN machine : machine[m].app \in Live
    /\ trusts \subseteq Live \X Live
    /\ DOMAIN token \subseteq Tokens /\ token \in [DOMAIN token -> Holders]

LEMMA TypeTables ==
  ASSUME TypeInv
  PROVE  TablesOK
<1>1. token \in [DOMAIN token -> Holders]
  BY DEF TypeInv, ApplicationsTypeOK
<1> QED BY <1>1 DEF TypeInv, ApplicationsTypeOK, TablesOK

\* A machine's row is a Machine, and keeps a kind and an application.
LEMMA HoldersGrow ==
  ASSUME TablesOK, users' = users, DOMAIN machine \subseteq DOMAIN machine',
         \A m \in DOMAIN machine : machine'[m].kind = machine[m].kind
  PROVE  Holders \subseteq Holders'
  BY DEF Holders

LEMMA TokensBought ==
  ASSUME TablesOK, NEW us, NEW ms, token' = TokensOf(us, ms)
  PROVE  /\ DOMAIN token' = {t \in DOMAIN token : token[t] \in us \union DOMAIN ms}
         /\ \A t \in DOMAIN token' : token'[t] = token[t]
         /\ token' = [t \in DOMAIN token' |-> token[t]]
  BY DEF TokensOf, Bought

\* Rows of machines and tokens go with an application, and nothing else changes in the
\* rows that stay.
LEMMA DestroyIs ==
  ASSUME TablesOK, NEW a, Destroy(a)
  PROVE  /\ Live' = Live \ {a} /\ app' = [x \in Live' |-> app[x]]
         /\ DOMAIN machine' = {m \in DOMAIN machine : machine[m].app # a}
         /\ machine' = [m \in DOMAIN machine' |-> machine[m]]
         /\ DOMAIN token' = {t \in DOMAIN token : token[t] \in users \union DOMAIN machine'}
         /\ token' = [t \in DOMAIN token' |-> token[t]]
<1>1. Live' = Live \ {a} /\ app' = [x \in Live' |-> app[x]]
  BY DEF Destroy, Live
<1>2. /\ DOMAIN machine' = {m \in DOMAIN machine : machine[m].app # a}
      /\ machine' = [m \in DOMAIN machine' |-> machine[m]]
  BY DEF Destroy, MachinesIn, TablesOK
<1>3. token' = TokensOf(users, machine')
  BY DEF Destroy
<1> QED BY <1>1, <1>2, <1>3, TokensBought

LEMMA DestroyTables ==
  ASSUME TablesOK, NEW a, Destroy(a), UNCHANGED <<users, owners, files>>
  PROVE  TablesOK'
<1>1. /\ Live' = Live \ {a} /\ app' = [x \in Live' |-> app[x]]
      /\ DOMAIN machine' = {m \in DOMAIN machine : machine[m].app # a}
      /\ machine' = [m \in DOMAIN machine' |-> machine[m]]
      /\ DOMAIN token' = {t \in DOMAIN token : token[t] \in users \union DOMAIN machine'}
      /\ token' = [t \in DOMAIN token' |-> token[t]]
  BY DestroyIs
<1>2. Live' \subseteq Apps /\ app' \in [Live' -> AppRow]
  BY <1>1 DEF TablesOK
<1>3. provided' \subseteq Live' \X (users' \union {"organization"})
  BY <1>1 DEF Destroy, TablesOK
<1>4. trusts' \subseteq Live' \X Live'
  BY <1>1 DEF Destroy, TablesOK
<1>5. /\ DOMAIN machine' \subseteq Machines /\ machine' \in [DOMAIN machine' -> Machine]
      /\ \A m \in DOMAIN machine' : machine'[m].app \in Live'
  BY <1>1 DEF TablesOK
<1>6. DOMAIN token' \subseteq Tokens /\ token' \in [DOMAIN token' -> Holders']
  <2>1. \A t \in DOMAIN token' : token'[t] = token[t] /\ token[t] \in Holders
                                 /\ token[t] \in users \union DOMAIN machine'
    BY <1>1 DEF TablesOK
  <2>2. \A t \in DOMAIN token' : token'[t] \in Holders'
    BY <1>1, <2>1, FreshAssumption DEF Holders, TablesOK
  <2> QED BY <1>1, <2>2 DEF TablesOK
<1> QED BY <1>2, <1>3, <1>4, <1>5, <1>6 DEF TablesOK

\* Rows of applications are written or added.
LEMMA AppTables ==
  ASSUME TablesOK, NEW live, Live \subseteq live, live \subseteq Apps,
         app' \in [live -> AppRow], UNCHANGED <<users, owners, provided, files, machine, trusts, token>>
  PROVE  TablesOK'
<1>1. Live' = live
  BY DEF Live
<1> QED BY <1>1 DEF TablesOK, Holders

LEMMA WriteTables ==
  ASSUME TablesOK, NEW a, NEW row \in AppRow, Write(a, row),
         UNCHANGED <<users, owners, provided, files, machine, trusts, token>>
  PROVE  TablesOK'
<1>1. app' \in [Live -> AppRow] /\ Live \subseteq Apps
  BY DEF Write, TablesOK
<1> QED BY <1>1, AppTables

LEMMA SameTables ==
  ASSUME TablesOK, UNCHANGED <<users, owners, app, provided, files, machine, trusts, token>>
  PROVE  TablesOK'
  BY DEF TablesOK, Live, Holders

LEMMA RowOf ==
  ASSUME NEW r \in AppRow
  PROVE  /\ r.jwt \in BOOLEAN /\ r.secret \in Secrets \union {None}
         /\ r.image \in Images \union {"default", "party"}
         /\ \A s \in Secrets \union {None} : [r EXCEPT !.secret = s] \in AppRow
         /\ \A b \in BOOLEAN, s \in Secrets \union {None} :
               [r EXCEPT !.jwt = b, !.secret = s] \in AppRow
         /\ \A i \in Images \union {"default", "party"} : [r EXCEPT !.image = i] \in AppRow
  BY DEF AppRow

\* What a request knows of the row it writes.
LEMMA NowType ==
  ASSUME TypeInv, NEW p \in Requests, req[p].pc \in UpdatePcs \union PicturePcs
  PROVE  Now(p) \in AppRow /\ req[p].copy \in AppRow /\ req[p].app \in Apps
  BY DEF Now, TypeInv, WellFormed

LEMMA CreatingTables ==
  ASSUME TypeInv, NEW p \in Requests, Creating(p)
  PROVE  TablesOK'
<1>1. TablesOK
  BY TypeTables
<1>2. ASSUME WebCreate(p) \/ ApiCreate(p) \/ SaveResolves(p) \/ FindProvider(p)
      PROVE  TablesOK'
  BY <1>1, <1>2, SameTables DEF WebCreate, ApiCreate, SaveResolves, FindProvider, Untouched,
     machinery
<1>3. ASSUME SaveApplication(p)  PROVE TablesOK'
  <2>1. UNCHANGED <<users, owners, provided, files, machine, trusts, token>>
    BY <1>3 DEF SaveApplication, Untouched, machinery
  <2>2. CASE app' = app
    BY <1>1, <2>1, <2>2, SameTables
  <2>3. CASE app' # app
    <3>1. PICK s \in FreshSecret(None) :
             app' = [x \in Live \union {req[p].app} |->
                       IF x = req[p].app THEN NewRow(req[p].choice, s) ELSE app[x]]
      BY <1>3, <2>3 DEF SaveApplication
    <3>2. PICK row : row = NewRow(req[p].choice, s)
      OBVIOUS
    <3>3. row \in AppRow
      <4>1. PICK jwt : jwt = (req[p].choice = "jwt")
        OBVIOUS
      <4>2. PICK secret : secret = IF req[p].choice = "none" THEN None ELSE s
        OBVIOUS
      <4>3. row = [jwt |-> jwt, secret |-> secret, image |-> "default"]
        BY <3>2, <4>1, <4>2, Zenon DEF NewRow
      <4>4. jwt \in BOOLEAN
        BY <4>1
      <4>5. secret \in Secrets \union {None}
        BY <4>2 DEF FreshSecret
      <4>6. "default" \in Images \union {"default", "party"}
        OBVIOUS
      <4> QED BY <4>3, <4>4, <4>5, <4>6, Zenon DEF AppRow
    <3>4. req[p].app \in Apps
      BY <1>3 DEF SaveApplication, At, TypeInv, WellFormed, CreationPcs
    <3>5. app' \in [Live \union {req[p].app} -> AppRow]
      BY <1>1, <3>1, <3>2, <3>3 DEF TablesOK
    <3>6. Live \subseteq Live \union {req[p].app} /\ Live \union {req[p].app} \subseteq Apps
      BY <1>1, <3>4 DEF TablesOK
    <3> QED BY <1>1, <2>1, <3>5, <3>6, AppTables
  <2> QED BY <2>2, <2>3
<1>4. ASSUME CreateProviderRow(p) \/ AssignProvider(p)  PROVE TablesOK'
  <2>1. UNCHANGED <<users, owners, app, files, machine, trusts, token>>
    BY <1>4 DEF CreateProviderRow, AssignProvider, Untouched, machinery
  <2>2. \/ provided' = provided
        \/ \E w \in users \union {"organization"} :
              req[p].app \in Live /\ provided' = provided \union {<<req[p].app, w>>}
    BY <1>4 DEF CreateProviderRow, AssignProvider
  <2>3. provided' \subseteq Live \X (users \union {"organization"})
    BY <1>1, <2>2 DEF TablesOK
  <2> QED BY <1>1, <2>1, <2>3 DEF TablesOK, Live, Holders
<1>5. ASSUME UndoCreation(p)  PROVE TablesOK'
  BY <1>1, <1>5, DestroyTables DEF UndoCreation
<1> QED BY <1>2, <1>3, <1>4, <1>5 DEF Creating

LEMMA UpdatingTables ==
  ASSUME TypeInv, NEW p \in Requests, Updating(p)
  PROVE  TablesOK'
<1>1. TablesOK
  BY TypeTables
<1>2. UNCHANGED <<users, owners, provided, files, machine, trusts, token>>
  BY DEF Updating, ApplicationRequest, UpdateInfo, ChangeTokenType, ResetJwtSecret, Update,
     FlushUpdate, Untouched, machinery
<1>3. CASE app' = app
  BY <1>1, <1>2, <1>3, SameTables
<1>4. ASSUME req[p].pc \in UpdatePcs, \E row \in AppRow : Write(req[p].app, row)
      PROVE  TablesOK'
  BY <1>1, <1>2, <1>4, WriteTables
<1>5. ASSUME app' # app
      PROVE  \/ UpdateInfo(p) \/ ChangeTokenType(p)
             \/ ResetJwtSecret(p) /\ req[p].copy.jwt
             \/ FlushUpdate(p) /\ req[p].valid
  BY <1>5 DEF Updating, ApplicationRequest, ResetJwtSecret, Update, FlushUpdate
<1>6. PICK now : now = Now(p)
  OBVIOUS
<1>7. PICK copy : copy = req[p].copy
  OBVIOUS
<1>8. ASSUME req[p].pc \in UpdatePcs  PROVE now \in AppRow /\ copy \in AppRow
  BY <1>6, <1>7, <1>8, NowType
<1>9. ASSUME UpdateInfo(p)  PROVE TablesOK'
  <2>1. req[p].pc \in UpdatePcs
    BY <1>9 DEF UpdateInfo, At, UpdatePcs, ApplicationKinds
  <2>2. PICK s \in Secrets \union {None} : Write(req[p].app, [now EXCEPT !.secret = s])
    <3>1. PICK t \in FreshSecret(copy.secret) : Write(req[p].app, [now EXCEPT
            !.secret = IF req[p].choice = "jwt" /\ copy.secret = None THEN t ELSE copy.secret])
      BY <1>6, <1>7, <1>9 DEF UpdateInfo
    <3>2. PICK s : s = IF req[p].choice = "jwt" /\ copy.secret = None THEN t ELSE copy.secret
      OBVIOUS
    <3>3. s \in Secrets \union {None}
      BY <1>8, <2>1, <3>2, RowOf DEF FreshSecret
    <3> QED BY <3>1, <3>2, <3>3
  <2>3. [now EXCEPT !.secret = s] \in AppRow
    BY <1>8, <2>1, RowOf
  <2> QED BY <1>4, <2>1, <2>2, <2>3
<1>10. ASSUME ChangeTokenType(p)  PROVE TablesOK'
  <2>1. req[p].pc \in UpdatePcs
    BY <1>10 DEF ChangeTokenType, At, UpdatePcs, ApplicationKinds
  <2>2. PICK t \in FreshSecret(now.secret) : Write(req[p].app, [now EXCEPT
            !.jwt = req[p].choice = "jwt", !.secret = IF req[p].choice = "jwt" THEN t ELSE None])
    BY <1>6, <1>10 DEF ChangeTokenType
  <2>3. PICK s : s = IF req[p].choice = "jwt" THEN t ELSE None
    OBVIOUS
  <2>4. PICK b : b = (req[p].choice = "jwt")
    OBVIOUS
  <2>5. s \in Secrets \union {None} /\ b \in BOOLEAN
    BY <2>3, <2>4 DEF FreshSecret
  <2>6. [now EXCEPT !.jwt = b, !.secret = s] \in AppRow
    BY <1>8, <2>1, <2>5, RowOf
  <2>7. Write(req[p].app, [now EXCEPT !.jwt = b, !.secret = s])
    BY <2>2, <2>3, <2>4, Zenon
  <2> QED BY <1>4, <2>1, <2>6, <2>7
<1>11. ASSUME ResetJwtSecret(p), req[p].copy.jwt  PROVE TablesOK'
  <2>1. req[p].pc \in UpdatePcs
    BY <1>11 DEF ResetJwtSecret, At, UpdatePcs, ApplicationKinds
  <2>2. PICK s \in FreshSecret(now.secret) : Write(req[p].app, [now EXCEPT !.secret = s])
    BY <1>6, <1>11 DEF ResetJwtSecret
  <2>3. [now EXCEPT !.secret = s] \in AppRow
    BY <1>8, <2>1, RowOf DEF FreshSecret
  <2> QED BY <1>4, <2>1, <2>2, <2>3
<1>12. ASSUME FlushUpdate(p), req[p].valid  PROVE TablesOK'
  <2>1. req[p].pc \in UpdatePcs
    BY <1>12 DEF FlushUpdate, At, UpdatePcs
  <2>2. PICK asked : asked = (req[p].choice = "jwt")
    OBVIOUS
  <2>3. PICK s \in FreshSecret(copy.secret), same \in BOOLEAN :
          Write(req[p].app,
            [jwt |-> IF req[p].choice = "none" \/ (asked = copy.jwt /\ same)
                     THEN now.jwt ELSE asked,
             secret |-> IF req[p].choice = "none" THEN now.secret
                        ELSE IF asked THEN s
                        ELSE IF copy.secret = None THEN now.secret ELSE None,
             image |-> IF copy.image = "default" THEN now.image ELSE "default"])
    BY <1>6, <1>7, <1>12, <2>2 DEF FlushUpdate
  <2>4. PICK jwt : jwt = IF req[p].choice = "none" \/ (asked = copy.jwt /\ same)
                         THEN now.jwt ELSE asked
    OBVIOUS
  <2>5. PICK secret : secret = IF req[p].choice = "none" THEN now.secret
                               ELSE IF asked THEN s
                               ELSE IF copy.secret = None THEN now.secret ELSE None
    OBVIOUS
  <2>6. PICK image : image = IF copy.image = "default" THEN now.image ELSE "default"
    OBVIOUS
  <2>7. now \in AppRow
    BY <1>8, <2>1
  <2>8. asked \in BOOLEAN /\ now.jwt \in BOOLEAN
    BY <2>2, <2>7, RowOf
  <2>9. jwt \in BOOLEAN
    BY <2>4, <2>8
  <2>10. secret \in Secrets \union {None}
    BY <2>5, <2>7, RowOf DEF FreshSecret
  <2>11. image \in Images \union {"default", "party"}
    BY <2>6, <2>7, RowOf
  <2>12. [jwt |-> jwt, secret |-> secret, image |-> image] \in AppRow
    BY <2>9, <2>10, <2>11, Zenon DEF AppRow
  <2>13. Write(req[p].app, [jwt |-> jwt, secret |-> secret, image |-> image])
    BY <2>3, <2>4, <2>5, <2>6, Zenon
  <2> QED BY <1>4, <2>1, <2>12, <2>13
<1> QED BY <1>3, <1>5, <1>9, <1>10, <1>11, <1>12

\* What a step of the pictures does to a row: its image, or the row goes.
LEMMA PicturingTables ==
  ASSUME TypeInv, NEW p \in Requests, Picturing(p)
  PROVE  TablesOK'
<1>1. TablesOK
  BY TypeTables
<1>2. ASSUME WebDestroy(p) \/ ApiDestroy(p)  PROVE TablesOK'
  BY <1>1, <1>2, DestroyTables DEF WebDestroy, ApiDestroy
<1>3. ASSUME NEW image \in Images \union {"default"}, req[p].pc \in PicturePcs,
             Write(req[p].app, [Now(p) EXCEPT !.image = image]), files' = files, Elsewhere
      PROVE  TablesOK'
  <2>1. PICK now : now = Now(p)
    OBVIOUS
  <2>2. now \in AppRow
    BY <1>3, <2>1, NowType
  <2>3. [now EXCEPT !.image = image] \in AppRow
    BY <2>2, RowOf
  <2>4. Write(req[p].app, [now EXCEPT !.image = image])
    BY <1>3, <2>1
  <2> QED BY <1>1, <1>3, <2>3, <2>4, WriteTables DEF Elsewhere, creation, machinery
<1>4. ASSUME SetImage(p)  PROVE TablesOK'
  <2>1. req[p].file \in Images \union {"default"} /\ req[p].pc \in PicturePcs
    BY <1>4 DEF SetImage, At, TypeInv, WellFormed, UploadPcs, PicturePcs
  <2> QED BY <1>3, <1>4, <2>1 DEF SetImage
<1>5. ASSUME ClearImage(p)  PROVE TablesOK'
  <2>1. "default" \in Images \union {"default"} /\ req[p].pc \in PicturePcs
    BY <1>5 DEF ClearImage, At, PicturePcs
  <2> QED BY <1>3, <1>5, <2>1 DEF ClearImage
<1>6. ASSUME \/ Upload(p) \/ CheckImage(p) \/ DeleteImage(p) \/ DeleteAvatar(p)
             \/ UnlinkOfApplication(p)
      PROVE  TablesOK'
  <2>1. UNCHANGED <<users, owners, app, provided, machine, trusts, token>>
    BY <1>6 DEF Upload, CheckImage, DeleteImage, DeleteAvatar, UnlinkOfApplication, Elsewhere,
       creation, machinery
  <2>2. files' \subseteq files \union Images
    <3>1. CASE Upload(p)
      BY <3>1 DEF Upload, FreshImages
    <3>2. CASE ~Upload(p)
      BY <1>6, <3>2 DEF CheckImage, DeleteImage, DeleteAvatar, UnlinkOfApplication
    <3> QED BY <3>1, <3>2
  <2> QED BY <1>1, <2>1, <2>2 DEF TablesOK, Live, Holders
<1> QED BY <1>2, <1>4, <1>5, <1>6 DEF Picturing

\* What a step of proxies and agents does: nothing, one row more, one row's password, or
\* one row less.
Adds(p, m, kind, s) ==
    /\ req[p].app \in Live /\ m \in Machines \ DOMAIN machine /\ s \in Secrets
    /\ machine' = [x \in DOMAIN machine \union {m} |->
                      IF x = m THEN [app |-> req[p].app, kind |-> kind, password |-> s]
                      ELSE machine[x]]
Resets(m, s) == /\ m \in DOMAIN machine /\ s \in Secrets
                /\ machine' = [machine EXCEPT ![m].password = s]

LEMMA EquippingIs ==
  ASSUME TypeInv, NEW p \in Requests, Equipping(p)
  PROVE  /\ Beside
         /\ \/ machine' = machine /\ token' = token
            \/ /\ token' = token
               /\ \E m \in Machines, s \in Secrets : \/ At(p, "savePep") /\ Adds(p, m, "pep", s)
                                                     \/ Adds(p, m, "iot", s)
                                                     \/ Resets(m, s)
            \/ /\ DOMAIN machine' \subseteq DOMAIN machine
               /\ machine' = [m \in DOMAIN machine' |-> machine[m]]
               /\ token' = TokensOf(users, machine')
<1>1. ASSUME MachineRequest(p) \/ RegisterPep(p) \/ CreatePep(p)
      PROVE  Beside /\ machine' = machine /\ token' = token
  BY <1>1 DEF MachineRequest, RegisterPep, CreatePep, machinery
<1>2. ASSUME NEW kind, Add(p, kind)
      PROVE  /\ Beside /\ token' = token
             /\ machine' = machine \/ \E m \in Machines, s \in Secrets : Adds(p, m, kind, s)
  BY <1>2 DEF Add, Adds
<1>3. ASSUME SavePep(p) \/ RegisterIot(p) \/ CreateIot(p)
      PROVE  /\ Beside /\ token' = token
             /\ \/ machine' = machine
                \/ \E m \in Machines, s \in Secrets : \/ At(p, "savePep") /\ Adds(p, m, "pep", s)
                                                      \/ Adds(p, m, "iot", s)
  BY <1>2, <1>3 DEF SavePep, RegisterIot, CreateIot
<1>4. ASSUME ResetPasswordPep(p) \/ ResetPasswordIot(p) \/ UpdatePep(p) \/ UpdateIot(p)
      PROVE  /\ Beside /\ token' = token
             /\ machine' = machine \/ \E m \in Machines, s \in Secrets : Resets(m, s)
  <2>1. ResetPassword(p)
    BY <1>4 DEF ResetPasswordPep, ResetPasswordIot, UpdatePep, UpdateIot
  <2>2. DOMAIN machine \subseteq Machines
    BY DEF TypeInv
  <2>3. CASE machine' = machine
    BY <2>1, <2>3 DEF ResetPassword
  <2>4. CASE machine' # machine
    <3>1. PICK m : m = req[p].machine
      OBVIOUS
    <3>2. m \in DOMAIN machine /\ \E s \in FreshSecret(machine[m].password) :
             machine' = [machine EXCEPT ![m].password = s]
      BY <2>1, <2>4, <3>1 DEF ResetPassword
    <3> QED BY <2>1, <2>2, <3>2 DEF ResetPassword, Resets, FreshSecret
  <2> QED BY <2>3, <2>4
<1>5. ASSUME DeletePep(p) \/ DeleteIot(p) \/ DestroyPep(p) \/ DestroyIot(p)
      PROVE  /\ Beside
             /\ DOMAIN machine' \subseteq DOMAIN machine
             /\ machine' = [m \in DOMAIN machine' |-> machine[m]]
             /\ token' = TokensOf(users, machine')
  <2>1. Remove(p)
    BY <1>5 DEF DeletePep, DeleteIot, DestroyPep, DestroyIot
  <2>2. PICK rest : rest = {m \in DOMAIN machine : m # req[p].machine \/ machine[m].app # req[p].app}
    OBVIOUS
  <2>3. machine' = [m \in rest |-> machine[m]]
    BY <2>1, <2>2 DEF Remove
  <2>4. DOMAIN machine' = rest
    BY <2>3
  <2> QED BY <2>1, <2>2, <2>3, <2>4 DEF Remove
<1> QED BY <1>1, <1>3, <1>4, <1>5 DEF Equipping

LEMMA EquippingTables ==
  ASSUME TypeInv, NEW p \in Requests, Equipping(p)
  PROVE  TablesOK'
<1>1. TablesOK
  BY TypeTables
<1>2. UNCHANGED <<users, owners, app, provided, files, trusts>>
  BY EquippingIs DEF Beside, creation
<1>3. ASSUME DOMAIN machine' \subseteq Machines, machine' \in [DOMAIN machine' -> Machine],
             \A m \in DOMAIN machine' : machine'[m].app \in Live,
             token' \in [DOMAIN token' -> Holders'], DOMAIN token' \subseteq Tokens
      PROVE  TablesOK'
  BY <1>1, <1>2, <1>3 DEF TablesOK, Live
<1>4. CASE machine' = machine /\ token' = token
  BY <1>1, <1>2, <1>4, SameTables
<1>5. ASSUME token' = token, NEW m \in Machines, NEW s \in Secrets, NEW kind \in {"pep", "iot"},
             Adds(p, m, kind, s)
      PROVE  TablesOK'
  <2>1. PICK row : row = [app |-> req[p].app, kind |-> kind, password |-> s]
    OBVIOUS
  <2>2. req[p].app \in Live /\ req[p].app \in Apps
    BY <1>1, <1>5 DEF Adds, TablesOK
  <2>3. row \in Machine /\ row.app \in Live
    BY <2>1, <2>2 DEF Machine
  <2>4. machine' = [x \in DOMAIN machine \union {m} |-> IF x = m THEN row ELSE machine[x]]
    BY <1>5, <2>1 DEF Adds
  <2>5. m \notin DOMAIN machine
    BY <1>5 DEF Adds
  <2>6. /\ DOMAIN machine' = DOMAIN machine \union {m}
        /\ \A x \in DOMAIN machine' : machine'[x] \in Machine /\ machine'[x].app \in Live
        /\ \A x \in DOMAIN machine : machine'[x] = machine[x]
    BY <1>1, <2>3, <2>4, <2>5 DEF TablesOK
  <2>7. machine' \in [DOMAIN machine' -> Machine] /\ DOMAIN machine' \subseteq Machines
    BY <1>1, <2>4, <2>6 DEF TablesOK
  <2>8. Holders \subseteq Holders'
    BY <1>1, <1>2, <2>6, HoldersGrow
  <2> QED BY <1>1, <1>3, <1>5, <2>6, <2>7, <2>8 DEF TablesOK
<1>6. ASSUME token' = token, NEW m \in Machines, NEW s \in Secrets, Resets(m, s)
      PROVE  TablesOK'
  <2>1. /\ DOMAIN machine' = DOMAIN machine
        /\ \A x \in DOMAIN machine : /\ machine'[x] \in Machine
                                     /\ machine'[x].app = machine[x].app
                                     /\ machine'[x].kind = machine[x].kind
    BY <1>1, <1>6 DEF Resets, TablesOK, Machine
  <2>2. machine' \in [DOMAIN machine' -> Machine]
    BY <1>6, <2>1 DEF Resets
  <2>3. Holders \subseteq Holders'
    BY <1>1, <1>2, <2>1, HoldersGrow
  <2> QED BY <1>1, <1>3, <1>6, <2>1, <2>2, <2>3 DEF TablesOK
<1>7. ASSUME DOMAIN machine' \subseteq DOMAIN machine,
             machine' = [m \in DOMAIN machine' |-> machine[m]], token' = TokensOf(users, machine')
      PROVE  TablesOK'
  <2>1. /\ DOMAIN token' = {t \in DOMAIN token : token[t] \in users \union DOMAIN machine'}
        /\ \A t \in DOMAIN token' : token'[t] = token[t]
        /\ token' = [t \in DOMAIN token' |-> token[t]]
    BY <1>1, <1>7, TokensBought
  <2>2. \A t \in DOMAIN token' : token'[t] \in Holders'
    BY <1>1, <1>2, <1>7, <2>1, FreshAssumption DEF TablesOK, Holders
  <2>3. /\ machine' \in [DOMAIN machine' -> Machine] /\ DOMAIN machine' \subseteq Machines
        /\ \A m \in DOMAIN machine' : machine'[m].app \in Live
    BY <1>1, <1>7 DEF TablesOK
  <2>4. token' \in [DOMAIN token' -> Holders'] /\ DOMAIN token' \subseteq Tokens
    BY <1>1, <2>1, <2>2 DEF TablesOK
  <2> QED BY <1>3, <2>3, <2>4
<1> QED BY <1>4, <1>5, <1>6, <1>7, EquippingIs

\* A token that is bought belongs to somebody, and to whoever both proofs are of.
Agreed(q, o) == /\ q.by \in {o, None} /\ q.with \in {o, None}
                /\ q.by = None => q.with = o
Buys(p, t, o) ==
    /\ At(p, "createToken") /\ req[p].todo = {} /\ Agreed(req[p], o) /\ o \in Holders
    /\ t \in Tokens \ DOMAIN token /\ \A x \in Requests : req[x].token # t
    /\ token' = [x \in DOMAIN token \union {t} |-> IF x = t THEN o ELSE token[x]]
    /\ Finish(p)

LEMMA CreateTokenIs ==
  ASSUME TypeInv, NEW p \in Requests, CreateToken(p)
  PROVE  token' = token \/ \E t \in Tokens, o \in Holders : Buys(p, t, o)
<1>1. PICK q : q = req[p]
  OBVIOUS
<1>2. PICK o : o = IF q.by # None THEN q.by ELSE q.with
  OBVIOUS
<1>3. SUFFICES ASSUME token' # token
               PROVE  \E t \in Tokens, x \in Holders : Buys(p, t, x)
  OBVIOUS
<1>4. /\ At(p, "createToken") /\ q.todo = {} /\ o \in Holders
      /\ None \in {q.by, q.with} \/ q.by = q.with
      /\ \E t \in Tokens \ (DOMAIN token \union Held("token")) :
            token' = [x \in DOMAIN token \union {t} |-> IF x = t THEN o ELSE token[x]]
      /\ Finish(p)
  BY <1>1, <1>2, <1>3 DEF CreateToken
<1>5. PICK t \in Tokens \ (DOMAIN token \union Held("token")) :
         token' = [x \in DOMAIN token \union {t} |-> IF x = t THEN o ELSE token[x]]
  BY <1>4
<1>6. o # None
  BY <1>4, FreshAssumption DEF Holders, TypeInv, ApplicationsTypeOK
<1>7. Agreed(q, o)
  BY <1>2, <1>4, <1>6 DEF Agreed
<1>8. \A x \in Requests : req[x].token # t
  BY <1>5 DEF Held
<1> QED BY <1>1, <1>4, <1>5, <1>7, <1>8 DEF Buys

LEMMA AuthenticatingIs ==
  ASSUME TypeInv, NEW p \in Requests, Authenticating(p)
  PROVE  /\ Aside
         /\ \/ token' = token
            \/ \E t \in Tokens, o \in Holders : Buys(p, t, o)
            \/ DOMAIN token' \subseteq DOMAIN token /\ token' = [t \in DOMAIN token' |-> token[t]]
<1>1. ASSUME \/ CreateTokenRequest(p) \/ SearchIdentity(p) \/ SearchTokenOwner(p)
             \/ DeleteTokenRequest(p)
      PROVE  Aside /\ token' = token
  BY <1>1 DEF CreateTokenRequest, SearchIdentity, SearchTokenOwner, DeleteTokenRequest
<1>2. ASSUME DeleteToken(p)
      PROVE  /\ Aside /\ DOMAIN token' \subseteq DOMAIN token
             /\ token' = [t \in DOMAIN token' |-> token[t]]
  BY <1>2 DEF DeleteToken, Bought
<1>3. ASSUME CreateToken(p)  PROVE Aside
  BY <1>3 DEF CreateToken
<1> QED BY <1>1, <1>2, <1>3, CreateTokenIs DEF Authenticating

LEMMA AuthenticatingTables ==
  ASSUME TypeInv, NEW p \in Requests, Authenticating(p)
  PROVE  TablesOK'
<1>1. TablesOK
  BY TypeTables
<1>2. UNCHANGED <<users, owners, app, provided, files, machine, trusts>>
  BY AuthenticatingIs DEF Aside, creation
<1>3. CASE token' = token
  BY <1>1, <1>2, <1>3, SameTables
<1>4. ASSUME DOMAIN token' \subseteq Tokens, token' \in [DOMAIN token' -> Holders]
      PROVE  TablesOK'
  BY <1>1, <1>2, <1>4 DEF TablesOK, Live, Holders
<1>5. ASSUME NEW t \in Tokens, NEW o \in Holders, Buys(p, t, o)  PROVE TablesOK'
  BY <1>1, <1>4, <1>5 DEF Buys, TablesOK
<1>6. ASSUME DOMAIN token' \subseteq DOMAIN token, token' = [t \in DOMAIN token' |-> token[t]]
      PROVE  TablesOK'
  BY <1>1, <1>4, <1>6 DEF TablesOK
<1> QED BY <1>3, <1>5, <1>6, AuthenticatingIs

LEMMA TrustingTables ==
  ASSUME TypeInv, NEW p \in Requests, Trusting(p)
  PROVE  TablesOK'
<1>1. TablesOK
  BY TypeTables
<1>2. UNCHANGED <<users, owners, app, provided, files, machine, token>>
  BY DEF Trusting, TrustRequest, DestroyTrusts, BulkCreateTrusts, AddTrusted, RemoveTrusted,
     Apart, creation, machinery
<1>3. trusts' \subseteq Live \X Live
  BY <1>1 DEF Trusting, TrustRequest, DestroyTrusts, BulkCreateTrusts, AddTrusted,
     RemoveTrusted, TablesOK
<1> QED BY <1>1, <1>2, <1>3 DEF TablesOK, Live, Holders

LEMMA DeleteAccountIs ==
  ASSUME TypeInv, DeleteAccount
  PROVE  \E u \in users :
            /\ users' = users \ {u} /\ owners' = owners \ {u}
            /\ provided' = {w \in provided : w[2] # u}
            /\ DOMAIN token' = {t \in DOMAIN token : token[t] \in users' \union DOMAIN machine}
            /\ token' = [t \in DOMAIN token' |-> token[t]]
            /\ UNCHANGED <<app, files, machine, trusts, req>>
<1>1. PICK u \in users : /\ users' = users \ {u} /\ owners' = owners \ {u}
                         /\ provided' = {w \in provided : w[2] # u}
                         /\ token' = TokensOf(users \ {u}, machine)
  BY DEF DeleteAccount
<1>2. /\ DOMAIN token' = {t \in DOMAIN token : token[t] \in users' \union DOMAIN machine}
      /\ token' = [t \in DOMAIN token' |-> token[t]]
  <2>1. PICK kept : kept = {t \in DOMAIN token : token[t] \in users' \union DOMAIN machine}
    OBVIOUS
  <2>2. token' = Bought(kept)
    BY <1>1, <2>1 DEF TokensOf
  <2>3. DOMAIN token' = kept /\ token' = [t \in DOMAIN token' |-> token[t]]
    BY <2>2 DEF Bought
  <2> QED BY <2>1, <2>3
<1> QED BY <1>1, <1>2 DEF DeleteAccount

LEMMA AccountTables ==
  ASSUME TypeInv, DeleteAccount \/ LoseOrganization
  PROVE  TablesOK'
<1>1. TablesOK
  BY TypeTables
<1>2. ASSUME DeleteAccount  PROVE TablesOK'
  <2>1. PICK u \in users :
            /\ users' = users \ {u} /\ owners' = owners \ {u}
            /\ provided' = {w \in provided : w[2] # u}
            /\ DOMAIN token' = {t \in DOMAIN token : token[t] \in users' \union DOMAIN machine}
            /\ token' = [t \in DOMAIN token' |-> token[t]]
            /\ UNCHANGED <<app, files, machine, trusts, req>>
    BY <1>2, DeleteAccountIs
  <2>2. provided' \subseteq Live \X (users' \union {"organization"})
    BY <1>1, <2>1 DEF TablesOK
  <2>3. \A t \in DOMAIN token' : token'[t] \in Holders'
    BY <1>1, <2>1, FreshAssumption DEF TablesOK, Holders
  <2>4. token' \in [DOMAIN token' -> Holders'] /\ DOMAIN token' \subseteq Tokens
    BY <1>1, <2>1, <2>3 DEF TablesOK
  <2> QED BY <1>1, <2>1, <2>2, <2>4 DEF TablesOK, Live
<1>3. ASSUME LoseOrganization  PROVE TablesOK'
  <2>1. owners' \subseteq owners
    BY <1>3 DEF LoseOrganization
  <2>2. UNCHANGED <<users, app, provided, files, machine, trusts, token>>
    BY <1>3 DEF LoseOrganization, machinery
  <2> QED BY <1>1, <2>1, <2>2 DEF TablesOK, Live, Holders
<1> QED BY <1>2, <1>3

LEMMA TablesKeepTheirType ==
  ASSUME TypeInv, ApplicationStep
  PROVE  TablesOK'
<1>1. ASSUME NEW p \in Requests, Reviving(p)  PROVE TablesOK'
  <2>1. UNCHANGED <<users, owners, app, provided, files, machine, trusts, token>>
    BY <1>1 DEF Reviving, Untouched, machinery
  <2> QED BY <2>1, TypeTables, SameTables
<1> QED BY <1>1, CreatingTables, UpdatingTables, PicturingTables, EquippingTables,
           AuthenticatingTables, TrustingTables, AccountTables DEF ApplicationStep

(***************************************************************************)
(* Type correctness.                                                       *)
(***************************************************************************)
LEMMA TypeParts ==
  TypeInv <=> /\ TablesOK /\ RequestsOK
              /\ DOMAIN proof = DOMAIN token /\ proof \in [DOMAIN token -> SUBSET Caller]
              /\ excused \union stale \union raced \subseteq Apps
<1>1. ASSUME TypeInv
      PROVE  /\ TablesOK /\ RequestsOK
             /\ DOMAIN proof = DOMAIN token /\ proof \in [DOMAIN token -> SUBSET Caller]
             /\ excused \union stale \union raced \subseteq Apps
  BY <1>1, TypeTables DEF TypeInv, ApplicationsTypeOK, RequestsOK
<1>2. ASSUME TablesOK, RequestsOK, DOMAIN proof = DOMAIN token,
             proof \in [DOMAIN token -> SUBSET Caller],
             excused \union stale \union raced \subseteq Apps
      PROVE  TypeInv
  <2>1. \A t \in DOMAIN token : t \in Tokens /\ token[t] \in Holders /\ token[t] \in Caller
    BY <1>2 DEF TablesOK, Holders, Caller
  <2>2. /\ \A a \in Live : app[a] \in AppRow
        /\ \A m \in DOMAIN machine : machine[m] \in Machine /\ machine[m].app \in Live
    BY <1>2 DEF TablesOK
  <2>3. ApplicationsTypeOK
    BY <1>2, <2>1, <2>2 DEF TablesOK, ApplicationsTypeOK
  <2>4. token \in [DOMAIN token -> Caller]
    BY <1>2, <2>1 DEF TablesOK
  <2> QED BY <1>2, <2>3, <2>4 DEF TablesOK, RequestsOK, TypeInv
<1> QED BY <1>1, <1>2

LEMMA HistoriesKeepTheirType ==
  ASSUME TypeInv, TablesOK', ApplicationHistory
  PROVE  /\ DOMAIN proof' = DOMAIN token' /\ proof' \in [DOMAIN token' -> SUBSET Caller]
         /\ excused' \union stale' \union raced' \subseteq Apps
<1>1. DOMAIN app' \subseteq Apps
  BY DEF TablesOK, Live
<1>2. excused' \subseteq DOMAIN app' /\ stale' \subseteq DOMAIN app' /\ raced' \subseteq DOMAIN app'
  BY DEF ApplicationHistory
<1>3. PICK new : new = UNION {req[p].proofs : p \in {q \in Requests : req'[q] # req[q]}}
  OBVIOUS
<1>4. proof' = [t \in DOMAIN token' |-> IF t \in DOMAIN token THEN proof[t] ELSE new]
  BY <1>3 DEF ApplicationHistory
<1>5. \A p \in Requests : req[p].proofs \subseteq Caller
  BY DEF TypeInv, ReqType
<1>6. new \subseteq Caller
  BY <1>3, <1>5
<1>7. \A t \in DOMAIN token : proof[t] \subseteq Caller
  BY DEF TypeInv
<1>8. proof' \in [DOMAIN token' -> SUBSET Caller]
  BY <1>4, <1>6, <1>7
<1> QED BY <1>1, <1>2, <1>8

LEMMA TypeStep ==
  TypeInv /\ [ApplicationStep /\ ApplicationHistory]_applicationVars => TypeInv'
<1>1. ASSUME TypeInv, ApplicationStep, ApplicationHistory  PROVE TypeInv'
  <2>1. TablesOK' /\ RequestsOK'
    BY <1>1, TablesKeepTheirType, RequestsKeepTheirType
  <2>2. /\ DOMAIN proof' = DOMAIN token' /\ proof' \in [DOMAIN token' -> SUBSET Caller]
        /\ excused' \union stale' \union raced' \subseteq Apps
    BY <1>1, <2>1, HistoriesKeepTheirType
  <2>3. (DOMAIN proof = DOMAIN token)' /\ (proof \in [DOMAIN token -> SUBSET Caller])'
        /\ (excused \union stale \union raced \subseteq Apps)'
    BY <2>2
  <2> QED BY <2>1, <2>3, TypeParts, PTL
<1>2. ASSUME TypeInv, UNCHANGED applicationVars  PROVE TypeInv'
  BY <1>2 DEF applicationVars, creation, machinery, TypeInv, ApplicationsTypeOK, WellFormed,
     Live, Holders
<1> QED BY <1>1, <1>2

LEMMA TypeInitially == ApplicationInit => TypeInv
<1> SUFFICES ASSUME ApplicationInit  PROVE TypeInv
  OBVIOUS
<1>1. PICK s \in Starts[group] :
        /\ app = s.app /\ provided = s.provided /\ machine = s.machine /\ files = s.files
        /\ token = s.token /\ owners = s.owners
  BY DEF ApplicationInit
<1>2. SoundStart(s)
  BY <1>1, StartsAssumption DEF ApplicationInit
<1>3. /\ Live \subseteq Apps /\ app \in [Live -> AppRow]
      /\ files \subseteq Images \union {"logo"}
      /\ provided \subseteq Live \X Provider /\ owners \subseteq Users
      /\ DOMAIN machine \subseteq Machines /\ machine \in [DOMAIN machine -> Machine]
      /\ \A m \in DOMAIN machine : machine[m].app \in Live
      /\ DOMAIN token \subseteq Tokens
      /\ token \in [DOMAIN token ->
                       Users \union {m \in DOMAIN machine : machine[m].kind = "pep"}]
  BY <1>1, <1>2 DEF SoundStart, Live
<1>4. users = Users /\ trusts = {} /\ excused = {} /\ stale = {} /\ raced = {}
  BY DEF ApplicationInit
<1>5. TablesOK
  BY <1>3, <1>4 DEF TablesOK, Provider, Holders
<1>6. RequestsOK
  BY QuietType DEF ApplicationInit, RequestsOK
<1>7. proof = [t \in DOMAIN token |-> {token[t]}]
  BY DEF ApplicationInit
<1>8. \A t \in DOMAIN token : {token[t]} \subseteq Caller
  BY <1>3 DEF Caller
<1>9. DOMAIN proof = DOMAIN token /\ proof \in [DOMAIN token -> SUBSET Caller]
  BY <1>7, <1>8
<1> QED BY <1>4, <1>5, <1>6, <1>9, TypeParts

\* Rows refer to rows that are there, and requests hold what their steps expect,
\* whatever requests, deletions and restarts interleave.
THEOREM ApplicationsTypes == ApplicationSpec => []ApplicationsTypeOK
<1>1. TypeInv => ApplicationsTypeOK
  BY DEF TypeInv
<1> QED BY <1>1, TypeInitially, TypeStep, PTL DEF ApplicationSpec

(***************************************************************************)
(* A part of the module leaves the requests of the others as they are.     *)
(***************************************************************************)
StaysAt(pcs) == \A o \in Requests : req'[o].pc \in pcs => req'[o] = req[o]

LEMMA OthersRemain ==
  ASSUME TypeInv, NEW p \in Requests, NEW pcs, NEW others,
         Comes(p, pcs) \/ Finish(p) \/ Die,
         \A pc \in others : pc \notin pcs /\ pc # "idle" /\ pc # "lost"
  PROVE  StaysAt(others)
<1>1. CASE Die
  BY <1>1, DieLeaves DEF StaysAt
<1>2. CASE Finish(p)
  BY <1>2, QuietType, OnlyOne DEF Finish, StaysAt
<1>3. CASE Comes(p, pcs)
  <2>1. PICK n \in ReqType : Become(p, n) /\ n.pc \in pcs \union {"idle"}
    BY <1>3 DEF Comes
  <2> QED BY <2>1, OnlyOne DEF StaysAt
<1> QED BY <1>1, <1>2, <1>3

LEMMA FinishLeaves ==
  ASSUME TypeInv, NEW p \in Requests, Finish(p), NEW others, "idle" \notin others
  PROVE  StaysAt(others)
  BY QuietType, OnlyOne DEF Finish, StaysAt

LEMMA CreatingLeaves ==
  ASSUME TypeInv, NEW p \in Requests, Creating(p), NEW others,
         \A pc \in others : pc \notin CreationPcs /\ pc # "idle" /\ pc # "lost"
  PROVE  StaysAt(others)
<1>1. CASE Creates(p)
  <2>1. PICK n \in ReqType : Become(p, n) /\ n.pc \in CreationPcs
    BY <1>1 DEF Creates
  <2> QED BY <2>1, OnlyOne DEF StaysAt
<1> QED BY <1>1, CreatingComes, OthersRemain

LEMMA UploadLeaves ==
  ASSUME TypeInv, NEW p \in Requests, Upload(p), NEW others, "check" \notin others
  PROVE  StaysAt(others)
<1>1. PICK n \in ReqType : Become(p, n) /\ n.pc = "check"
  BY UploadIs
<1> QED BY <1>1, OnlyOne DEF StaysAt

LEMMA PicturingLeaves ==
  ASSUME TypeInv, NEW p \in Requests, Picturing(p), NEW others,
         \A pc \in others : pc \notin PicturePcs /\ pc # "idle" /\ pc # "lost"
  PROVE  StaysAt(others)
<1>1. "check" \in PicturePcs
  BY DEF PicturePcs, UploadPcs
<1> QED BY <1>1, UploadLeaves, PicturingComes, OthersRemain

LEMMA RevivingLeaves ==
  ASSUME TypeInv, NEW p \in Requests, Reviving(p), NEW others, "idle" \notin others
  PROVE  StaysAt(others)
<1>1. Become(p, Quiet)
  BY DEF Reviving, Restart, Finish
<1> QED BY <1>1, QuietType, OnlyOne DEF StaysAt

(***************************************************************************)
(* API tokens.  While a request to buy one waits, its proofs are those of  *)
(* the password it has checked and of the token it has shown; and nothing  *)
(* takes that token's name meanwhile.                                      *)
(***************************************************************************)
Proven(q) ==
    LET by == {q.by} \ {None}   with == {q.with} \ {None} IN
    /\ "token" \in q.todo => /\ q.with = None
                             /\ q.token \in DOMAIN token => q.proofs = {token[q.token]} \union by
    /\ "token" \notin q.todo => q.proofs = by \union with
    /\ "password" \in q.todo => q.by = None
    /\ q.todo = {} => q.by # None \/ q.with # None
TokenInv == /\ TokensComeFromTheirOwner
            /\ \A p \in Requests : At(p, "createToken") => Proven(req[p])

NoNewToken == DOMAIN token' \subseteq DOMAIN token /\ \A t \in DOMAIN token' : token'[t] = token[t]

LEMMA TokensGo ==
  ASSUME TypeInv, NEW p \in Requests,
         Creating(p) \/ Updating(p) \/ Picturing(p) \/ Equipping(p) \/ Trusting(p) \/ Reviving(p)
  PROVE  NoNewToken
<1>1. ASSUME token' = token  PROVE NoNewToken
  BY <1>1 DEF NoNewToken
<1>2. ASSUME NEW a, Destroy(a)  PROVE NoNewToken
  BY <1>2, DestroyIs, TypeTables DEF NoNewToken
<1>3. ASSUME Equipping(p)  PROVE NoNewToken
  <2>1. ASSUME token' = TokensOf(users, machine')  PROVE NoNewToken
    BY <2>1, TokensBought, TypeTables DEF NoNewToken
  <2> QED BY <1>1, <1>3, <2>1, EquippingIs
<1>4. ASSUME Creating(p)  PROVE NoNewToken
  <2>1. CASE UndoCreation(p)
    BY <1>2, <2>1 DEF UndoCreation
  <2>2. CASE ~UndoCreation(p)
    <3>1. token' = token
      BY <1>4, <2>2 DEF Creating, WebCreate, ApiCreate, SaveApplication, SaveResolves,
         FindProvider, CreateProviderRow, AssignProvider, Untouched, machinery
    <3> QED BY <1>1, <3>1
  <2> QED BY <2>1, <2>2
<1>5. ASSUME Updating(p) \/ Trusting(p) \/ Reviving(p)  PROVE NoNewToken
  <2>1. token' = token
    BY <1>5 DEF Updating, ApplicationRequest, UpdateInfo, ChangeTokenType, ResetJwtSecret, Update,
       FlushUpdate, Untouched, machinery, Trusting, TrustRequest, DestroyTrusts,
       BulkCreateTrusts, AddTrusted, RemoveTrusted, Apart, Reviving
  <2> QED BY <1>1, <2>1
<1>6. ASSUME Picturing(p)  PROVE NoNewToken
  <2>1. CASE WebDestroy(p) \/ ApiDestroy(p)
    BY <1>2, <2>1 DEF WebDestroy, ApiDestroy
  <2>2. CASE ~(WebDestroy(p) \/ ApiDestroy(p))
    <3>1. token' = token
      BY <1>6, <2>2 DEF Picturing, Upload, CheckImage, SetImage, DeleteImage, DeleteAvatar,
         ClearImage, UnlinkOfApplication, Elsewhere, machinery
    <3> QED BY <1>1, <3>1
  <2> QED BY <2>1, <2>2
<1> QED BY <1>3, <1>4, <1>5, <1>6

LEMMA TokensFrame ==
  ASSUME TypeInv, TokenInv, ApplicationHistory, NoNewToken, StaysAt({"createToken"})
  PROVE  TokenInv'
<1>1. \A t \in DOMAIN token' : proof'[t] = proof[t]
  BY DEF ApplicationHistory, NoNewToken
<1>2. TokensComeFromTheirOwner'
  BY <1>1 DEF TokenInv, TokensComeFromTheirOwner, NoNewToken
<1>3. ASSUME NEW o \in Requests, req'[o].pc = "createToken"  PROVE Proven(req[o])'
  <2>1. req'[o] = req[o]
    BY <1>3 DEF StaysAt
  <2>2. PICK q : q = req[o]
    OBVIOUS
  <2>3. Proven(q)
    BY <1>3, <2>1, <2>2 DEF TokenInv, At
  <2>4. Proven(q)'
    BY <2>3 DEF Proven, NoNewToken
  <2> QED BY <2>1, <2>2, <2>4 DEF Proven
<1> QED BY <1>2, <1>3 DEF TokenInv, At

\* The step of one request to buy a token.
LEMMA BuyingFrame ==
  ASSUME TypeInv, TokenInv, ApplicationHistory, NEW p \in Requests, NEW n, Become(p, n),
         token' = token, n.pc = "createToken" => Proven(n)
  PROVE  TokenInv'
<1>1. TokensComeFromTheirOwner'
  BY DEF ApplicationHistory, TokenInv, TokensComeFromTheirOwner
<1>2. ASSUME NEW o \in Requests, req'[o].pc = "createToken"  PROVE Proven(req[o])'
  <2>1. PICK q : q = req'[o]
    OBVIOUS
  <2>2. q = n \/ q = req[o]
    BY <2>1, OnlyOne
  <2>3. Proven(q)
    BY <1>2, <2>1, <2>2 DEF TokenInv, At
  <2> QED BY <2>1, <2>3 DEF Proven
<1> QED BY <1>1, <1>2 DEF TokenInv, At

LEMMA TokensStep ==
  ASSUME TypeInv, TokenInv, NEW p \in Requests, Authenticating(p), ApplicationHistory
  PROVE  TokenInv'
<1>1. PICK q : q = req[p]
  OBVIOUS
<1>2. q \in ReqType /\ (q.pc = "createToken" => Proven(q))
  BY <1>1 DEF TypeInv, TokenInv, At
<1>3. ASSUME Finish(p), token' = token  PROVE TokenInv'
  BY <1>3, QuietType, BuyingFrame DEF Finish
<1>4. ASSUME CreateTokenRequest(p)  PROVE TokenInv'
  <2>1. PICK methods \in {{"password"}, {"token"}, {"password", "token"}},
             name \in users \union DOMAIN machine, s \in Secrets, t \in DOMAIN token :
                Start(p, "createToken",
                   [Quiet EXCEPT !.todo = methods, !.who = name, !.secret = s, !.token = t,
                                 !.proofs = IF "token" \in methods THEN proof[t] ELSE {}])
    BY <1>4 DEF CreateTokenRequest
  <2>2. PICK proofs : proofs = IF "token" \in methods THEN proof[t] ELSE {}
    OBVIOUS
  <2>3. PICK n : n = [[Quiet EXCEPT !.todo = methods, !.who = name, !.secret = s, !.token = t,
                                    !.proofs = proofs] EXCEPT !.kind = "createToken",
                                                              !.pc = "createToken"]
    OBVIOUS
  <2>4. /\ n.todo = methods /\ n.token = t /\ n.proofs = proofs /\ n.by = None /\ n.with = None
    BY <2>3 DEF Quiet
  <2>5. Become(p, n)
    BY <2>1, <2>2, <2>3 DEF Start, Quiet
  <2>6. Proven(n)
    BY <2>2, <2>4 DEF Proven, TokenInv, TokensComeFromTheirOwner
  <2> QED BY <1>4, <2>5, <2>6, BuyingFrame DEF CreateTokenRequest
<1>5. ASSUME DeleteTokenRequest(p)  PROVE TokenInv'
  <2>1. PICK subject : Start(p, "deleteToken", [Quiet EXCEPT !.token = subject])
    BY <1>5 DEF DeleteTokenRequest
  <2>2. PICK n : n = [[Quiet EXCEPT !.token = subject] EXCEPT !.kind = "deleteToken",
                                                              !.pc = "deleteToken"]
    OBVIOUS
  <2>3. Become(p, n) /\ n.pc = "deleteToken"
    BY <2>1, <2>2 DEF Start, Quiet
  <2> QED BY <1>5, <2>3, BuyingFrame DEF DeleteTokenRequest
<1>6. ASSUME SearchIdentity(p)  PROVE TokenInv'
  <2>1. CASE Finish(p)
    BY <1>3, <1>6, <2>1 DEF SearchIdentity
  <2>2. CASE ~Finish(p)
    <3>1. /\ q.pc = "createToken" /\ "password" \in q.todo /\ q.who \in Caller
          /\ Become(p, [q EXCEPT !.todo = @ \ {"password"}, !.by = q.who,
                                 !.proofs = @ \union {q.who}])
      BY <1>1, <1>6, <2>2 DEF SearchIdentity, Holders, TypeInv, ApplicationsTypeOK, Caller, At
    <3>2. PICK n : n = [q EXCEPT !.todo = @ \ {"password"}, !.by = q.who,
                                 !.proofs = @ \union {q.who}]
      OBVIOUS
    <3>3. /\ n.todo = q.todo \ {"password"} /\ n.by = q.who /\ n.with = q.with
          /\ n.proofs = q.proofs \union {q.who} /\ n.token = q.token
      BY <1>2, <3>2 DEF ReqType
    <3>4. q.who # None /\ q.by = None
      BY <1>2, <3>1, FreshAssumption DEF Caller, Proven
    <3>5. Proven(n)
      BY <1>2, <3>1, <3>3, <3>4 DEF Proven
    <3> QED BY <1>6, <3>1, <3>2, <3>5, BuyingFrame DEF SearchIdentity
  <2> QED BY <2>1, <2>2
<1>7. ASSUME SearchTokenOwner(p)  PROVE TokenInv'
  <2>1. CASE Finish(p)
    BY <1>3, <1>7, <2>1 DEF SearchTokenOwner
  <2>2. CASE ~Finish(p)
    <3>1. /\ q.pc = "createToken" /\ "token" \in q.todo /\ q.token \in DOMAIN token
          /\ token[q.token] \in Caller
          /\ Become(p, [q EXCEPT !.todo = @ \ {"token"}, !.with = token[q.token]])
      BY <1>1, <1>7, <2>2 DEF SearchTokenOwner, TypeInv, At
    <3>2. PICK n : n = [q EXCEPT !.todo = @ \ {"token"}, !.with = token[q.token]]
      OBVIOUS
    <3>3. /\ n.todo = q.todo \ {"token"} /\ n.by = q.by /\ n.with = token[q.token]
          /\ n.proofs = q.proofs /\ n.token = q.token
      BY <1>2, <3>2 DEF ReqType
    <3>4. n.with # None
      BY <3>1, <3>3, FreshAssumption DEF Caller
    <3>5. Proven(n)
      BY <1>2, <3>1, <3>3, <3>4 DEF Proven
    <3> QED BY <1>7, <3>1, <3>2, <3>5, BuyingFrame DEF SearchTokenOwner
  <2> QED BY <2>1, <2>2
<1>8. ASSUME DeleteToken(p)  PROVE TokenInv'
  <2>1. Finish(p) /\ NoNewToken
    BY <1>8 DEF DeleteToken, Bought, NoNewToken
  <2>2. StaysAt({"createToken"})
    BY <2>1, FinishLeaves
  <2> QED BY <2>1, <2>2, TokensFrame
<1>9. ASSUME CreateToken(p), token' # token  PROVE TokenInv'
  <2>1. PICK t \in Tokens, o \in Holders : Buys(p, t, o)
    BY <1>9, CreateTokenIs
  <2>2. /\ DOMAIN token' = DOMAIN token \union {t} /\ token'[t] = o /\ t \notin DOMAIN token
        /\ \A x \in DOMAIN token : token'[x] = token[x]
    BY <2>1 DEF Buys
  <2>3. /\ q.pc = "createToken" /\ q.todo = {} /\ Agreed(q, o) /\ Finish(p)
        /\ \A x \in Requests : req[x].token # t
    BY <1>1, <2>1 DEF Buys, At
  <2>4. q.proofs = {o}
    <3>1. o # None
      BY FreshAssumption DEF Holders, TypeInv, ApplicationsTypeOK
    <3> QED BY <1>2, <2>3, <3>1 DEF Proven, Agreed
  <2>5. req'[p] = Quiet /\ \A x \in Requests \ {p} : req'[x] = req[x]
    BY <2>3, OnlyOne DEF Finish
  <2>6. {x \in Requests : req'[x] # req[x]} = {p}
    BY <1>1, <2>3, <2>5, QuietType
  <2>7. PICK new : new = UNION {req[x].proofs : x \in {y \in Requests : req'[y] # req[y]}}
    OBVIOUS
  <2>8. new = {o}
    BY <1>1, <2>4, <2>6, <2>7
  <2>9. proof' = [x \in DOMAIN token' |-> IF x \in DOMAIN token THEN proof[x] ELSE new]
    BY <2>7 DEF ApplicationHistory
  <2>10. TokensComeFromTheirOwner'
    BY <2>2, <2>8, <2>9 DEF TokenInv, TokensComeFromTheirOwner
  <2>11. ASSUME NEW x \in Requests, req'[x].pc = "createToken"  PROVE Proven(req[x])'
    <3>1. x # p
      BY <2>5, <2>11, QuietType
    <3>2. req'[x] = req[x]
      BY <2>5, <3>1
    <3>3. PICK r : r = req[x]
      OBVIOUS
    <3>4. Proven(r) /\ r.token # t
      BY <2>3, <2>11, <3>2, <3>3 DEF TokenInv, At
    <3>5. Proven(r)'
      BY <2>2, <3>4 DEF Proven
    <3> QED BY <3>2, <3>3, <3>5 DEF Proven
  <2> QED BY <2>10, <2>11 DEF TokenInv, At
<1>10. ASSUME CreateToken(p), token' = token  PROVE TokenInv'
  <2>1. Finish(p)
    BY <1>10 DEF CreateToken
  <2> QED BY <1>3, <1>10, <2>1
<1> QED BY <1>4, <1>5, <1>6, <1>7, <1>8, <1>9, <1>10 DEF Authenticating

LEMMA TokensSpecStep ==
  TypeInv /\ TokenInv /\ [ApplicationStep /\ ApplicationHistory]_applicationVars => TokenInv'
<1>1. ASSUME TypeInv, TokenInv, ApplicationStep, ApplicationHistory  PROVE TokenInv'
  <2>1. PICK others : others = {"createToken"}
    OBVIOUS
  <2>2. \A pc \in others : /\ pc \notin CreationPcs /\ pc \notin UpdatePcs
                           /\ pc \notin PicturePcs /\ pc \notin MachinePcs
                           /\ pc \notin TrustPcs /\ pc # "idle" /\ pc # "lost" /\ pc # "check"
    BY <2>1, PartsApart DEF TrustPcs, TokenPcs
  <2>3. ASSUME NoNewToken, StaysAt(others)  PROVE TokenInv'
    BY <1>1, <2>1, <2>3, TokensFrame
  <2>4. ASSUME NEW p \in Requests, Creating(p)  PROVE TokenInv'
    BY <1>1, <2>2, <2>3, <2>4, TokensGo, CreatingLeaves
  <2>5. ASSUME NEW p \in Requests, Updating(p)  PROVE TokenInv'
    BY <1>1, <2>2, <2>3, <2>5, TokensGo, UpdatingComes, OthersRemain
  <2>6. ASSUME NEW p \in Requests, Picturing(p)  PROVE TokenInv'
    BY <1>1, <2>2, <2>3, <2>6, TokensGo, PicturingLeaves
  <2>7. ASSUME NEW p \in Requests, Equipping(p)  PROVE TokenInv'
    BY <1>1, <2>2, <2>3, <2>7, TokensGo, EquippingComes, OthersRemain
  <2>8. ASSUME NEW p \in Requests, Trusting(p)  PROVE TokenInv'
    BY <1>1, <2>2, <2>3, <2>8, TokensGo, TrustingComes, OthersRemain
  <2>9. ASSUME NEW p \in Requests, Reviving(p)  PROVE TokenInv'
    <3>1. "idle" \notin others
      BY <2>1
    <3> QED BY <1>1, <2>3, <2>9, <3>1, TokensGo, RevivingLeaves
  <2>10. ASSUME NEW p \in Requests, Authenticating(p)  PROVE TokenInv'
    BY <1>1, <2>10, TokensStep
  <2>11. ASSUME DeleteAccount \/ LoseOrganization  PROVE TokenInv'
    <3>1. StaysAt(others)
      BY <2>11 DEF DeleteAccount, LoseOrganization, StaysAt
    <3>2. NoNewToken
      <4>1. ASSUME DeleteAccount  PROVE NoNewToken
        BY <1>1, <4>1, DeleteAccountIs DEF NoNewToken
      <4>2. ASSUME LoseOrganization  PROVE NoNewToken
        BY <4>2 DEF LoseOrganization, machinery, NoNewToken
      <4> QED BY <2>11, <4>1, <4>2
    <3> QED BY <2>3, <3>1, <3>2
  <2> QED BY <1>1, <2>4, <2>5, <2>6, <2>7, <2>8, <2>9, <2>10, <2>11 DEF ApplicationStep
<1>2. ASSUME TokenInv, UNCHANGED applicationVars  PROVE TokenInv'
  BY <1>2 DEF applicationVars, machinery, TokenInv, TokensComeFromTheirOwner, At, Proven
<1> QED BY <1>1, <1>2

\* An API token belongs to whoever's password or tokens bought it, back along the chain of
\* renewals, however requests, deletions and other purchases interleave.
THEOREM TokensHaveTheirOwner == ApplicationSpec => []TokensComeFromTheirOwner
<1>1. ApplicationInit => TokenInv
  <2> SUFFICES ASSUME ApplicationInit  PROVE TokenInv
    OBVIOUS
  <2>1. proof = [t \in DOMAIN token |-> {token[t]}]
    BY DEF ApplicationInit
  <2>2. \A p \in Requests : req[p].pc = "idle"
    BY QuietType DEF ApplicationInit
  <2> QED BY <2>1, <2>2 DEF TokenInv, TokensComeFromTheirOwner, At
<1>2. TokenInv => TokensComeFromTheirOwner
  BY DEF TokenInv
<1> QED BY <1>1, <1>2, TypeInitially, TypeStep, TokensSpecStep, PTL DEF ApplicationSpec

(***************************************************************************)
(* JWT secrets.                                                            *)
(***************************************************************************)
MaySign(r) == r.jwt => r.secret # None
SameSigning(r, q) == r.jwt = q.jwt /\ r.secret = q.secret
JwtKept == \A a \in DOMAIN app' : \/ a \in Live /\ SameSigning(app'[a], app[a])
                                  \/ MaySign(app'[a])
                                  \/ a \in stale'

LEMMA JwtFrame ==
  ASSUME JwtHasSecret, ApplicationHistory, JwtKept
  PROVE  JwtHasSecret'
<1>1. \A a \in Live \intersect DOMAIN app' : a \in stale => a \in stale'
  BY DEF ApplicationHistory
<1> QED BY <1>1 DEF JwtKept, JwtHasSecret, MaySign, SameSigning, Live

LEMMA JwtSame ==
  ASSUME TypeInv, app' = app
  PROVE  JwtKept
  BY DEF JwtKept, SameSigning, Live

LEMMA JwtDestroyed ==
  ASSUME TypeInv, NEW a, Destroy(a)
  PROVE  JwtKept
<1>1. \A x \in DOMAIN app' : x \in Live /\ app'[x] = app[x]
  BY DestroyIs, TypeTables DEF Live
<1> QED BY <1>1 DEF JwtKept, SameSigning

LEMMA JwtWritten ==
  ASSUME TypeInv, NEW a, NEW row, Write(a, row),
         a \in Live => \/ SameSigning(row, app[a])
                       \/ MaySign(row)
                       \/ a \in stale'
  PROVE  JwtKept
<1>1. \A x \in DOMAIN app' : x \in Live /\ (app'[x] = app[x] \/ (x = a /\ app'[x] = row))
  BY DEF Write, Live, TypeInv
<1> QED BY <1>1 DEF JwtKept, SameSigning

\* A request that writes from a copy that is outdated makes its application stale.
LEMMA OutdatedIsStale ==
  ASSUME TypeInv, ApplicationHistory, NEW p \in Requests, Finish(p), req[p].app \in Live,
         Live' = Live, req[p].pc \in {"updateInfo", "resetSecret", "flush"},
         ~SameSigning(req[p].copy, app[req[p].app])
  PROVE  req[p].app \in stale'
<1>1. req'[p] # req[p]
  BY QuietType, OnlyOne DEF Finish
<1>2. PICK a : a = req[p].app
  OBVIOUS
<1>3. <<req[p].copy.jwt, req[p].copy.secret>> # <<app[a].jwt, app[a].secret>>
  BY <1>2 DEF SameSigning
<1>4. a \in Live \intersect DOMAIN app'
  BY <1>2 DEF Live
<1>5. \E x \in Requests : /\ req'[x] # req[x] /\ req[x].app = a
                          /\ req[x].pc \in {"updateInfo", "resetSecret", "flush"}
                          /\ <<req[x].copy.jwt, req[x].copy.secret>> # <<app[a].jwt, app[a].secret>>
  BY <1>1, <1>2, <1>3
<1> QED BY <1>2, <1>4, <1>5 DEF ApplicationHistory

LEMMA JwtUpdating ==
  ASSUME TypeInv, JwtHasSecret, NEW p \in Requests, Updating(p), ApplicationHistory
  PROVE  JwtHasSecret'
<1>1. PICK a : a = req[p].app
  OBVIOUS
<1>2. PICK copy : copy = req[p].copy
  OBVIOUS
<1>3. PICK now : now = Now(p)
  OBVIOUS
<1>4. a \in Live => now = app[a]
  BY <1>1, <1>3 DEF Now
<1>5. ASSUME req[p].pc \in UpdatePcs  PROVE now \in AppRow /\ copy \in AppRow
  BY <1>2, <1>3, <1>5, NowType
<1>6. SUFFICES JwtKept \/ JwtHasSecret'
  BY JwtFrame
<1>7. CASE app' = app
  BY <1>7, JwtSame
<1>8. ASSUME app' # app
      PROVE  \/ UpdateInfo(p) \/ ChangeTokenType(p)
             \/ ResetJwtSecret(p) /\ req[p].copy.jwt
             \/ FlushUpdate(p) /\ req[p].valid
  BY <1>8 DEF Updating, ApplicationRequest, ResetJwtSecret, Update, FlushUpdate
\* Written from a copy that is outdated, or from one that is not.
<1>9. ASSUME NEW row, Write(a, row), Finish(p),
             SameSigning(copy, now) => SameSigning(row, now) \/ MaySign(row),
             req[p].pc \in {"updateInfo", "resetSecret", "flush"}
      PROVE  JwtKept
  <2>1. Live' = Live
    BY <1>9 DEF Write, Live
  <2>2. CASE a \in Live /\ ~SameSigning(copy, now)
    <3>1. a \in stale'
      BY <1>1, <1>2, <1>4, <1>9, <2>1, <2>2, OutdatedIsStale
    <3> QED BY <1>9, <3>1, JwtWritten
  <2>3. CASE ~(a \in Live /\ ~SameSigning(copy, now))
    BY <1>4, <1>9, <2>3, JwtWritten
  <2> QED BY <2>2, <2>3
<1>10. ASSUME UpdateInfo(p)  PROVE JwtKept
  <2>1. req[p].pc = "updateInfo" /\ req[p].pc \in UpdatePcs /\ Finish(p)
    BY <1>10 DEF UpdateInfo, At, UpdatePcs, ApplicationKinds
  <2>2. PICK t \in FreshSecret(copy.secret) : Write(a, [now EXCEPT
            !.secret = IF req[p].choice = "jwt" /\ copy.secret = None THEN t ELSE copy.secret])
    BY <1>1, <1>2, <1>3, <1>10 DEF UpdateInfo
  <2>3. PICK s : s = IF req[p].choice = "jwt" /\ copy.secret = None THEN t ELSE copy.secret
    OBVIOUS
  <2>4. PICK row : row = [now EXCEPT !.secret = s]
    OBVIOUS
  <2>5. row.jwt = now.jwt /\ row.secret = s
    BY <1>5, <2>1, <2>4 DEF AppRow
  <2>6. t # None
    BY FreshAssumption DEF FreshSecret
  <2>7. SameSigning(copy, now) => SameSigning(row, now) \/ MaySign(row)
    BY <2>3, <2>5, <2>6 DEF SameSigning, MaySign
  <2>8. Write(a, row)
    BY <2>2, <2>3, <2>4
  <2> QED BY <1>9, <2>1, <2>7, <2>8
<1>11. ASSUME ChangeTokenType(p)  PROVE JwtKept
  <2>1. req[p].pc \in UpdatePcs
    BY <1>11 DEF ChangeTokenType, At, UpdatePcs, ApplicationKinds
  <2>2. PICK t \in FreshSecret(now.secret) : Write(a, [now EXCEPT
            !.jwt = req[p].choice = "jwt", !.secret = IF req[p].choice = "jwt" THEN t ELSE None])
    BY <1>1, <1>3, <1>11 DEF ChangeTokenType
  <2>3. PICK row : row = [now EXCEPT
            !.jwt = req[p].choice = "jwt", !.secret = IF req[p].choice = "jwt" THEN t ELSE None]
    OBVIOUS
  <2>4. PICK s : s = IF req[p].choice = "jwt" THEN t ELSE None
    OBVIOUS
  <2>5. PICK b : b = (req[p].choice = "jwt")
    OBVIOUS
  <2>6. row = [now EXCEPT !.jwt = b, !.secret = s]
    BY <2>3, <2>4, <2>5, Zenon
  <2>7. row.jwt = b /\ row.secret = s
    BY <1>5, <2>1, <2>6 DEF AppRow
  <2>8. b => s = t
    BY <2>4, <2>5
  <2>9. t # None
    BY FreshAssumption DEF FreshSecret
  <2>10. MaySign(row)
    BY <2>7, <2>8, <2>9 DEF MaySign
  <2> QED BY <2>2, <2>3, <2>10, JwtWritten
<1>12. ASSUME ResetJwtSecret(p), req[p].copy.jwt  PROVE JwtKept
  <2>1. req[p].pc \in UpdatePcs
    BY <1>12 DEF ResetJwtSecret, At, UpdatePcs, ApplicationKinds
  <2>2. PICK s \in FreshSecret(now.secret) : Write(a, [now EXCEPT !.secret = s])
    BY <1>1, <1>3, <1>12 DEF ResetJwtSecret
  <2>3. PICK row : row = [now EXCEPT !.secret = s]
    OBVIOUS
  <2>4. row.secret = s
    BY <1>5, <2>1, <2>3 DEF AppRow
  <2>5. s # None
    BY FreshAssumption DEF FreshSecret
  <2> QED BY <2>2, <2>3, <2>4, <2>5, JwtWritten DEF MaySign
<1>13. ASSUME FlushUpdate(p), req[p].valid  PROVE JwtKept
  <2>1. req[p].pc = "flush" /\ req[p].pc \in UpdatePcs /\ Finish(p)
    BY <1>13 DEF FlushUpdate, At, UpdatePcs
  <2>2. PICK asked : asked = (req[p].choice = "jwt")
    OBVIOUS
  <2>3. PICK s \in FreshSecret(copy.secret), same \in BOOLEAN :
          Write(a,
            [jwt |-> IF req[p].choice = "none" \/ (asked = copy.jwt /\ same)
                     THEN now.jwt ELSE asked,
             secret |-> IF req[p].choice = "none" THEN now.secret
                        ELSE IF asked THEN s
                        ELSE IF copy.secret = None THEN now.secret ELSE None,
             image |-> IF copy.image = "default" THEN now.image ELSE "default"])
    BY <1>1, <1>2, <1>3, <1>13, <2>2 DEF FlushUpdate
  <2>4. PICK row :
          row = [jwt |-> IF req[p].choice = "none" \/ (asked = copy.jwt /\ same)
                     THEN now.jwt ELSE asked,
             secret |-> IF req[p].choice = "none" THEN now.secret
                        ELSE IF asked THEN s
                        ELSE IF copy.secret = None THEN now.secret ELSE None,
             image |-> IF copy.image = "default" THEN now.image ELSE "default"]
    OBVIOUS
  <2>5. s # None
    BY FreshAssumption DEF FreshSecret
  <2>6. asked \in BOOLEAN /\ now.jwt \in BOOLEAN /\ copy.jwt \in BOOLEAN
    BY <1>5, <2>1, <2>2 DEF AppRow
  <2>7. SameSigning(copy, now) => SameSigning(row, now) \/ MaySign(row)
    <3>1. CASE req[p].choice = "none"
      <4>1. row.jwt = now.jwt
        BY <2>4, <3>1, Zenon
      <4>2. row.secret = now.secret
        BY <2>4, <3>1
      <4> QED BY <4>1, <4>2 DEF SameSigning
    <3>2. CASE req[p].choice # "none" /\ asked
      <4>1. row.secret = s
        BY <2>4, <3>2
      <4> QED BY <2>5, <4>1 DEF MaySign
    <3>3. CASE req[p].choice # "none" /\ ~asked
      <4>1. SUFFICES ASSUME SameSigning(copy, now)  PROVE ~row.jwt
        BY DEF MaySign
      <4>2. row.jwt = IF asked = copy.jwt /\ same THEN now.jwt ELSE asked
        BY <2>4, <3>3, Zenon
      <4>3. now.jwt = copy.jwt
        BY <4>1 DEF SameSigning
      <4> QED BY <2>6, <3>3, <4>2, <4>3
    <3> QED BY <3>1, <3>2, <3>3
  <2>8. Write(a, row)
    BY <2>3, <2>4
  <2> QED BY <1>9, <2>1, <2>7, <2>8
<1> QED BY <1>7, <1>8, <1>10, <1>11, <1>12, <1>13

LEMMA JwtCreating ==
  ASSUME TypeInv, NEW p \in Requests, Creating(p)
  PROVE  JwtKept
<1>1. CASE app' = app
  BY <1>1, JwtSame
<1>2. CASE UndoCreation(p)
  BY <1>2, JwtDestroyed DEF UndoCreation
<1>3. CASE app' # app /\ ~UndoCreation(p)
  <2>1. SaveApplication(p)
    BY <1>3 DEF Creating, WebCreate, ApiCreate, SaveResolves, FindProvider, CreateProviderRow,
       AssignProvider
  <2>2. PICK s \in FreshSecret(None) :
           app' = [x \in Live \union {req[p].app} |->
                     IF x = req[p].app THEN NewRow(req[p].choice, s) ELSE app[x]]
    BY <1>3, <2>1 DEF SaveApplication
  <2>3. PICK row : row = NewRow(req[p].choice, s)
    OBVIOUS
  <2>4. s # None
    BY DEF FreshSecret
  <2>5. MaySign(row)
    <3>1. PICK jwt : jwt = (req[p].choice = "jwt")
      OBVIOUS
    <3>2. row = [jwt |-> jwt, secret |-> IF req[p].choice = "none" THEN None ELSE s,
                 image |-> "default"]
      BY <2>3, <3>1, Zenon DEF NewRow
    <3>3. row.jwt = jwt /\ row.secret = IF req[p].choice = "none" THEN None ELSE s
      BY <3>2
    <3> QED BY <2>4, <3>1, <3>3 DEF MaySign
  <2>6. \A x \in DOMAIN app' : (x \in Live /\ app'[x] = app[x]) \/ app'[x] = row
    BY <2>2, <2>3
  <2> QED BY <2>5, <2>6 DEF JwtKept, SameSigning
<1> QED BY <1>1, <1>2, <1>3

LEMMA JwtPicturing ==
  ASSUME TypeInv, NEW p \in Requests, Picturing(p)
  PROVE  JwtKept
<1>1. CASE app' = app
  BY <1>1, JwtSame
<1>2. CASE WebDestroy(p) \/ ApiDestroy(p)
  BY <1>2, JwtDestroyed DEF WebDestroy, ApiDestroy
<1>3. CASE SetImage(p) \/ ClearImage(p)
  <2>1. PICK image, a : a = req[p].app /\ Write(a, [Now(p) EXCEPT !.image = image])
    BY <1>3 DEF SetImage, ClearImage
  <2>2. PICK row : row = [Now(p) EXCEPT !.image = image]
    OBVIOUS
  <2>3. ASSUME a \in Live  PROVE SameSigning(row, app[a])
    <3>1. Now(p) = app[a] /\ app[a] \in AppRow
      BY <2>1, <2>3 DEF Now, TypeInv
    <3>2. row = [app[a] EXCEPT !.image = image]
      BY <2>2, <3>1
    <3> QED BY <3>1, <3>2 DEF SameSigning, AppRow
  <2> QED BY <2>1, <2>2, <2>3, JwtWritten
<1> QED BY <1>1, <1>2, <1>3 DEF Picturing, Upload, CheckImage, DeleteImage, DeleteAvatar,
    UnlinkOfApplication

\* The other parts leave the applications' rows alone.
LEMMA AppsLeft ==
  ASSUME TypeInv
  PROVE  /\ \A p \in Requests : Equipping(p) \/ Authenticating(p) \/ Trusting(p) \/ Reviving(p)
                                   => app' = app
         /\ DeleteAccount \/ LoseOrganization => app' = app
<1>1. ASSUME NEW p \in Requests, Equipping(p)  PROVE app' = app
  BY <1>1, EquippingIs DEF Beside
<1>2. ASSUME NEW p \in Requests, Authenticating(p)  PROVE app' = app
  BY <1>2, AuthenticatingIs DEF Aside
<1>3. ASSUME NEW p \in Requests, Trusting(p)  PROVE app' = app
  BY <1>3 DEF Trusting, TrustRequest, DestroyTrusts, BulkCreateTrusts, AddTrusted, RemoveTrusted,
     Apart
<1>4. ASSUME NEW p \in Requests, Reviving(p)  PROVE app' = app
  BY <1>4 DEF Reviving
<1>5. ASSUME DeleteAccount \/ LoseOrganization  PROVE app' = app
  BY <1>5 DEF DeleteAccount, LoseOrganization
<1> QED BY <1>1, <1>2, <1>3, <1>4, <1>5

LEMMA JwtStep ==
  TypeInv /\ JwtHasSecret /\ [ApplicationStep /\ ApplicationHistory]_applicationVars
     => JwtHasSecret'
<1>1. ASSUME TypeInv, JwtHasSecret, ApplicationStep, ApplicationHistory  PROVE JwtHasSecret'
  <2>1. ASSUME NEW p \in Requests, Creating(p)  PROVE JwtHasSecret'
    BY <1>1, <2>1, JwtCreating, JwtFrame
  <2>2. ASSUME NEW p \in Requests, Updating(p)  PROVE JwtHasSecret'
    BY <1>1, <2>2, JwtUpdating
  <2>3. ASSUME NEW p \in Requests, Picturing(p)  PROVE JwtHasSecret'
    BY <1>1, <2>3, JwtPicturing, JwtFrame
  <2>4. ASSUME app' = app  PROVE JwtHasSecret'
    BY <1>1, <2>4, JwtSame, JwtFrame
  <2> QED BY <1>1, <2>1, <2>2, <2>3, <2>4, AppsLeft DEF ApplicationStep
<1>2. ASSUME JwtHasSecret, UNCHANGED applicationVars  PROVE JwtHasSecret'
  BY <1>2 DEF applicationVars, JwtHasSecret, Live
<1> QED BY <1>1, <1>2

\* An application whose tokens are JWTs has a secret to sign them with, unless a request
\* wrote a secret from a copy that another had made outdated.
THEOREM JwtsHaveASecret == ApplicationSpec => []JwtHasSecret
<1>1. ApplicationInit => JwtHasSecret
  <2> SUFFICES ASSUME ApplicationInit  PROVE JwtHasSecret
    OBVIOUS
  <2>1. PICK s \in Starts[group] : app = s.app
    BY DEF ApplicationInit
  <2>2. SoundStart(s)
    BY <2>1, StartsAssumption DEF ApplicationInit
  <2> QED BY <2>1, <2>2 DEF SoundStart, JwtHasSecret, Live
<1> QED BY <1>1, TypeInitially, TypeStep, JwtStep, PTL DEF ApplicationSpec

(***************************************************************************)
(* PEP proxies.  A request that is about to add one has found none, and    *)
(* none has been added since unless another request was about to, too.     *)
(***************************************************************************)
Peps(a) == MachinesOf(a, "pep")
ProxyInv ==
    /\ \A a \in Live : a \in raced \/ \A m, n \in Peps(a) : m = n
    /\ \A p \in Requests, a \in Live :
          At(p, "savePep") /\ req[p].app = a => Peps(a) = {} \/ a \in raced

NoNewPep == /\ \A m \in DOMAIN machine' : m \in DOMAIN machine /\ machine'[m].kind = machine[m].kind
                                           /\ machine'[m].app = machine[m].app

LEMMA RacedStays ==
  ASSUME ApplicationHistory, NEW a \in DOMAIN app', a \in raced
  PROVE  a \in raced'
  BY DEF ApplicationHistory

LEMMA PepsNone ==
  ASSUME TypeInv, NEW a, a \notin Live
  PROVE  Peps(a) = {}
  BY DEF TypeInv, ApplicationsTypeOK, Peps, MachinesOf

LEMMA PepsFewer ==
  ASSUME NoNewPep, NEW a
  PROVE  Peps(a)' \subseteq Peps(a)
  BY DEF NoNewPep, Peps, MachinesOf

LEMMA ProxyFrame ==
  ASSUME TypeInv, ProxyInv, ApplicationHistory, NoNewPep, StaysAt({"savePep"})
  PROVE  ProxyInv'
<1>1. ASSUME NEW a \in Live', a \notin raced'  PROVE a \notin raced
  BY <1>1, RacedStays DEF Live
<1>2. ASSUME NEW a \in Live', a \notin raced', NEW m \in Peps(a)', NEW n \in Peps(a)'
      PROVE  m = n
  <2>1. m \in Peps(a) /\ n \in Peps(a)
    BY PepsFewer
  <2>2. a \in Live
    BY <2>1, PepsNone
  <2> QED BY <1>1, <1>2, <2>1, <2>2 DEF ProxyInv
<1>3. ASSUME NEW p \in Requests, NEW a \in Live', req'[p].pc = "savePep", req'[p].app = a,
             a \notin raced'
      PROVE  Peps(a)' = {}
  <2>1. req[p].pc = "savePep" /\ req[p].app = a
    BY <1>3 DEF StaysAt
  <2>2. a \notin raced
    BY <1>1, <1>3
  <2>3. Peps(a) = {}
    BY <2>1, <2>2, PepsNone DEF ProxyInv, At
  <2> QED BY <2>3, PepsFewer
<1> QED BY <1>2, <1>3 DEF ProxyInv, At

LEMMA PepsGo ==
  ASSUME TypeInv, NEW p \in Requests,
         Creating(p) \/ Updating(p) \/ Picturing(p) \/ Authenticating(p) \/ Trusting(p) \/ Reviving(p)
  PROVE  NoNewPep
<1>1. ASSUME machine' = machine  PROVE NoNewPep
  BY <1>1 DEF NoNewPep
<1>2. ASSUME NEW a, Destroy(a)  PROVE NoNewPep
  BY <1>2, DestroyIs, TypeTables DEF NoNewPep
<1>3. ASSUME Authenticating(p)  PROVE NoNewPep
  BY <1>1, <1>3, AuthenticatingIs DEF Aside
<1>4. ASSUME Creating(p)  PROVE NoNewPep
  <2>1. CASE UndoCreation(p)
    BY <1>2, <2>1 DEF UndoCreation
  <2>2. CASE ~UndoCreation(p)
    <3>1. machine' = machine
      BY <1>4, <2>2 DEF Creating, WebCreate, ApiCreate, SaveApplication, SaveResolves,
         FindProvider, CreateProviderRow, AssignProvider, Untouched, machinery
    <3> QED BY <1>1, <3>1
  <2> QED BY <2>1, <2>2
<1>5. ASSUME Updating(p) \/ Trusting(p) \/ Reviving(p)  PROVE NoNewPep
  <2>1. machine' = machine
    BY <1>5 DEF Updating, ApplicationRequest, UpdateInfo, ChangeTokenType, ResetJwtSecret, Update,
       FlushUpdate, Untouched, machinery, Trusting, TrustRequest, DestroyTrusts,
       BulkCreateTrusts, AddTrusted, RemoveTrusted, Apart, Reviving
  <2> QED BY <1>1, <2>1
<1>6. ASSUME Picturing(p)  PROVE NoNewPep
  <2>1. CASE WebDestroy(p) \/ ApiDestroy(p)
    BY <1>2, <2>1 DEF WebDestroy, ApiDestroy
  <2>2. CASE ~(WebDestroy(p) \/ ApiDestroy(p))
    <3>1. machine' = machine
      BY <1>6, <2>2 DEF Picturing, Upload, CheckImage, SetImage, DeleteImage, DeleteAvatar,
         ClearImage, UnlinkOfApplication, Elsewhere, machinery
    <3> QED BY <1>1, <3>1
  <2> QED BY <2>1, <2>2
<1> QED BY <1>3, <1>4, <1>5, <1>6

\* Two requests that are about to add a proxy to an application race for it.
LEMMA TwoRace ==
  ASSUME TypeInv, ApplicationHistory, NEW p \in Requests, NEW o \in Requests, p # o,
         At(p, "savePep"), At(o, "savePep"), NEW a \in Live, a \in DOMAIN app',
         req[p].app = a, req[o].app = a
  PROVE  a \in raced'
<1>1. PICK both : both = {x \in Requests : At(x, "savePep") /\ req[x].app = a}
  OBVIOUS
<1>2. IsFiniteSet(both)
  BY <1>1, FreshAssumption, FS_Subset
<1>3. PICK two : two = {p, o}
  OBVIOUS
<1>4. two \subseteq both
  BY <1>1, <1>3
<1>5. Cardinality(two) = 2
  <2>1. IsFiniteSet({}) /\ Cardinality({}) = 0
    BY FS_EmptySet
  <2>2. IsFiniteSet({p}) /\ Cardinality({p}) = 1
    BY FS_Singleton
  <2>3. two = {p} \union {o} /\ o \notin {p}
    BY <1>3
  <2> QED BY <2>2, <2>3, FS_AddElement
<1>6. Cardinality(both) \in Nat /\ Cardinality(two) <= Cardinality(both)
  BY <1>2, <1>4, FS_Subset, FS_CardinalityType
<1>7. Cardinality(both) > 1
  BY <1>5, <1>6
<1>8. Cardinality({x \in Requests : At(x, "savePep") /\ req[x].app = a}) > 1
  BY <1>1, <1>7
<1> QED BY <1>8 DEF ApplicationHistory

LEMMA ProxyEquipping ==
  ASSUME TypeInv, ProxyInv, NEW p \in Requests, Equipping(p), ApplicationHistory
  PROVE  ProxyInv'
<1>1. Live' = Live /\ app' = app
  BY EquippingIs DEF Beside, Live
<1>2. ASSUME NEW a \in Live, a \notin raced'  PROVE a \notin raced
  BY <1>1, <1>2, RacedStays DEF Live
\* Where no proxy is added: a request that begins to add one has found none.
<1>3. ASSUME NoNewPep,
             \A a \in Live, o \in Requests : req'[o].pc = "savePep" /\ req'[o].app = a =>
                (req[o].pc = "savePep" /\ req[o].app = a) \/ Peps(a) = {}
      PROVE  ProxyInv'
  <2>1. ASSUME NEW a \in Live, a \notin raced', NEW m \in Peps(a)', NEW n \in Peps(a)'
        PROVE  m = n
    BY <1>2, <1>3, <2>1, PepsFewer DEF ProxyInv
  <2>2. ASSUME NEW o \in Requests, NEW a \in Live, req'[o].pc = "savePep", req'[o].app = a,
               a \notin raced'
        PROVE  Peps(a)' = {}
    <3>1. Peps(a) = {}
      BY <1>2, <1>3, <2>2 DEF ProxyInv, At
    <3> QED BY <1>3, <3>1, PepsFewer
  <2> QED BY <1>1, <2>1, <2>2 DEF ProxyInv, At
<1>4. ASSUME NoNewPep, Finish(p)  PROVE ProxyInv'
  <2>1. \A o \in Requests : req'[o].pc = "savePep" => req'[o] = req[o]
    BY <1>4, FinishLeaves DEF StaysAt
  <2> QED BY <1>3, <1>4, <2>1
<1>5. ASSUME machine' = machine, MachineRequest(p) \/ RegisterPep(p) \/ CreatePep(p)
      PROVE  ProxyInv'
  <2>1. NoNewPep
    BY <1>5 DEF NoNewPep
  <2>2. CASE Die
    BY <1>3, <2>1, <2>2, DieLeaves
  <2>3. CASE Finish(p)
    BY <1>4, <2>1, <2>3
  <2>4. CASE MachineRequest(p)
    <3>1. Comes(p, MachineKinds)
      BY <2>4, MachineRequestComes
    <3>2. "savePep" \notin MachineKinds
      BY DEF MachineKinds, AddKinds, WebMachineKinds, ApiMachineKinds
    <3>3. StaysAt({"savePep"})
      BY <3>1, <3>2, OthersRemain
    <3> QED BY <1>3, <2>1, <3>3 DEF StaysAt
  <2>5. CASE (RegisterPep(p) \/ CreatePep(p)) /\ Goto(p, "savePep")
    <3>1. Peps(req[p].app) = {}
      <4>1. req[p].pc \in {"registerPep", "createPep"}
        BY <2>5 DEF RegisterPep, CreatePep, At
      <4>2. ~Finish(p) /\ ~Die
        <5>1. PICK n : n = [req[p] EXCEPT !.pc = "savePep"]
          OBVIOUS
        <5>2. n.pc = "savePep"
          BY <5>1 DEF TypeInv, ReqType
        <5>3. req'[p].pc = "savePep"
          BY <2>5, <5>1, <5>2, OnlyOne DEF Goto
        <5> QED BY <5>3, QuietType, OnlyOne, DieLeaves DEF Finish
      <4> QED BY <2>5, <4>2 DEF RegisterPep, CreatePep, Peps
    <3>2. "savePep" \in Pcs
      BY DEF Pcs, MachinePcs
    <3>3. PICK n \in ReqType : Become(p, n) /\ n = [req[p] EXCEPT !.pc = "savePep"]
      BY <2>5, <3>2, GotoIs
    <3>4. n.app = req[p].app
      BY <3>3, GotoKeeps DEF TypeInv
    <3>5. req'[p] = n /\ \A o \in Requests \ {p} : req'[o] = req[o]
      BY <3>3, OnlyOne
    <3> QED BY <1>3, <2>1, <3>1, <3>4, <3>5
  <2> QED BY <1>5, <2>2, <2>3, <2>4, <2>5 DEF RegisterPep, CreatePep
<1>6. ASSUME NEW m \in Machines, NEW s \in Secrets, Adds(p, m, "pep", s), At(p, "savePep"), Finish(p)
      PROVE  ProxyInv'
  <2>1. PICK b \in Live : b = req[p].app
    BY <1>6 DEF Adds
  <2>2. /\ m \notin DOMAIN machine /\ DOMAIN machine' = DOMAIN machine \union {m}
        /\ machine'[m].app = b /\ \A x \in DOMAIN machine : machine'[x] = machine[x]
    BY <1>6, <2>1 DEF Adds
  <2>3. /\ \A a \in Live : a # b => Peps(a)' \subseteq Peps(a)
        /\ Peps(b)' \subseteq Peps(b) \union {m}
    BY <2>2 DEF Peps, MachinesOf
  <2>4. req'[p] = Quiet /\ \A o \in Requests \ {p} : req'[o] = req[o]
    BY <1>6, OnlyOne DEF Finish
  <2>5. ASSUME NEW a \in Live, a \notin raced', NEW x \in Peps(a)', NEW y \in Peps(a)'
        PROVE  x = y
    <3>1. a \notin raced
      BY <1>2, <2>5
    <3>2. CASE a = b
      <4>1. Peps(b) = {}
        BY <1>6, <2>1, <3>1, <3>2 DEF ProxyInv
      <4> QED BY <2>3, <2>5, <3>2, <4>1
    <3>3. CASE a # b
      BY <2>3, <2>5, <3>1, <3>3 DEF ProxyInv
    <3> QED BY <3>2, <3>3
  <2>6. ASSUME NEW o \in Requests, NEW a \in Live, req'[o].pc = "savePep", req'[o].app = a,
               a \notin raced'
        PROVE  Peps(a)' = {}
    <3>1. o # p /\ req'[o] = req[o] /\ a \notin raced
      BY <1>2, <2>4, <2>6, QuietType
    <3>2. At(o, "savePep") /\ req[o].app = a
      BY <2>6, <3>1 DEF At
    <3>3. a # b
      BY <1>1, <1>6, <2>1, <2>6, <3>1, <3>2, TwoRace DEF Live
    <3>4. Peps(a) = {}
      BY <3>1, <3>2 DEF ProxyInv
    <3> QED BY <2>3, <3>3, <3>4
  <2> QED BY <1>1, <2>5, <2>6 DEF ProxyInv, At
<1>7. ASSUME Finish(p), \A a \in Live : Peps(a)' \subseteq Peps(a)  PROVE ProxyInv'
  <2>1. \A o \in Requests : req'[o].pc = "savePep" => req'[o] = req[o]
    BY <1>7, FinishLeaves DEF StaysAt
  <2>2. ASSUME NEW a \in Live, a \notin raced', NEW m \in Peps(a)', NEW n \in Peps(a)'
        PROVE  m = n
    BY <1>2, <1>7, <2>2 DEF ProxyInv
  <2>3. ASSUME NEW o \in Requests, NEW a \in Live, req'[o].pc = "savePep", req'[o].app = a,
               a \notin raced'
        PROVE  Peps(a)' = {}
    BY <1>2, <1>7, <2>1, <2>3 DEF ProxyInv, At
  <2> QED BY <1>1, <2>2, <2>3 DEF ProxyInv, At
<1>8. ASSUME NEW m \in Machines, NEW s \in Secrets, Adds(p, m, "iot", s), Finish(p)
      PROVE  ProxyInv'
  <2>1. /\ m \notin DOMAIN machine /\ DOMAIN machine' = DOMAIN machine \union {m}
        /\ machine'[m].kind = "iot" /\ \A x \in DOMAIN machine : machine'[x] = machine[x]
    BY <1>8 DEF Adds
  <2>2. \A a \in Live : Peps(a)' \subseteq Peps(a)
    BY <2>1 DEF Peps, MachinesOf
  <2> QED BY <1>7, <1>8, <2>2
<1>9. ASSUME NEW m \in Machines, NEW s \in Secrets, Resets(m, s), Finish(p)
      PROVE  ProxyInv'
  <2>1. /\ DOMAIN machine' = DOMAIN machine
        /\ \A x \in DOMAIN machine : /\ machine'[x].app = machine[x].app
                                     /\ machine'[x].kind = machine[x].kind
    BY <1>9 DEF Resets, TypeInv, Machine
  <2>2. NoNewPep
    BY <2>1 DEF NoNewPep
  <2> QED BY <1>4, <1>9, <2>2
<1>10. ASSUME DOMAIN machine' \subseteq DOMAIN machine,
              machine' = [m \in DOMAIN machine' |-> machine[m]], Finish(p)
       PROVE  ProxyInv'
  <2>1. NoNewPep
    BY <1>10 DEF NoNewPep
  <2> QED BY <1>4, <1>10, <2>1
<1>11. \/ MachineRequest(p) \/ RegisterPep(p) \/ CreatePep(p)
       \/ Finish(p)
  BY DEF Equipping, SavePep, RegisterIot, CreateIot, ResetPasswordPep, ResetPasswordIot,
     UpdatePep, UpdateIot, DeletePep, DeleteIot, DestroyPep, DestroyIot, Add, ResetPassword,
     Remove
<1>12. CASE MachineRequest(p) \/ RegisterPep(p) \/ CreatePep(p)
  <2>1. machine' = machine
    BY <1>12 DEF MachineRequest, RegisterPep, CreatePep, machinery
  <2> QED BY <1>5, <1>12, <2>1
<1>13. CASE Finish(p)
  <2>1. CASE machine' = machine
    <3>1. NoNewPep
      BY <2>1 DEF NoNewPep
    <3> QED BY <1>4, <1>13, <3>1
  <2> QED BY <1>6, <1>8, <1>9, <1>10, <1>13, <2>1, EquippingIs
<1> QED BY <1>11, <1>12, <1>13

LEMMA ProxyStep ==
  TypeInv /\ ProxyInv /\ [ApplicationStep /\ ApplicationHistory]_applicationVars => ProxyInv'
<1>1. ASSUME TypeInv, ProxyInv, ApplicationStep, ApplicationHistory  PROVE ProxyInv'
  <2>1. PICK others : others = {"savePep"}
    OBVIOUS
  <2>2. \A pc \in others : /\ pc \notin CreationPcs /\ pc \notin UpdatePcs
                           /\ pc \notin PicturePcs /\ pc \notin TokenPcs
                           /\ pc \notin TrustPcs /\ pc # "idle" /\ pc # "lost" /\ pc # "check"
    BY <2>1, PartsApart DEF TrustPcs, MachinePcs
  <2>3. ASSUME NoNewPep, StaysAt(others)  PROVE ProxyInv'
    BY <1>1, <2>1, <2>3, ProxyFrame
  <2>4. ASSUME NEW p \in Requests, Creating(p)  PROVE ProxyInv'
    BY <1>1, <2>2, <2>3, <2>4, PepsGo, CreatingLeaves
  <2>5. ASSUME NEW p \in Requests, Updating(p)  PROVE ProxyInv'
    BY <1>1, <2>2, <2>3, <2>5, PepsGo, UpdatingComes, OthersRemain
  <2>6. ASSUME NEW p \in Requests, Picturing(p)  PROVE ProxyInv'
    BY <1>1, <2>2, <2>3, <2>6, PepsGo, PicturingLeaves
  <2>7. ASSUME NEW p \in Requests, Equipping(p)  PROVE ProxyInv'
    BY <1>1, <2>7, ProxyEquipping
  <2>8. ASSUME NEW p \in Requests, Trusting(p)  PROVE ProxyInv'
    BY <1>1, <2>2, <2>3, <2>8, PepsGo, TrustingComes, OthersRemain
  <2>9. ASSUME NEW p \in Requests, Reviving(p)  PROVE ProxyInv'
    <3>1. "idle" \notin others
      BY <2>1
    <3> QED BY <1>1, <2>3, <2>9, <3>1, PepsGo, RevivingLeaves
  <2>10. ASSUME NEW p \in Requests, Authenticating(p)  PROVE ProxyInv'
    BY <1>1, <2>2, <2>3, <2>10, PepsGo, AuthenticatingComes, OthersRemain
  <2>11. ASSUME DeleteAccount \/ LoseOrganization  PROVE ProxyInv'
    <3>1. StaysAt(others)
      BY <2>11 DEF DeleteAccount, LoseOrganization, StaysAt
    <3>2. machine' = machine
      BY <2>11 DEF DeleteAccount, LoseOrganization, machinery
    <3> QED BY <2>3, <3>1, <3>2 DEF NoNewPep
  <2> QED BY <1>1, <2>4, <2>5, <2>6, <2>7, <2>8, <2>9, <2>10, <2>11 DEF ApplicationStep
<1>2. ASSUME ProxyInv, UNCHANGED applicationVars  PROVE ProxyInv'
  BY <1>2 DEF applicationVars, machinery, ProxyInv, Peps, MachinesOf, At, Live
<1> QED BY <1>1, <1>2

\* A set whose members are all the same has at most one.
LEMMA AtMostOne ==
  ASSUME NEW S, \A m, n \in S : m = n
  PROVE  Cardinality(S) <= 1
<1>1. CASE S = {}
  BY <1>1, FS_EmptySet
<1>2. CASE S # {}
  <2>1. PICK m : S = {m}
    BY <1>2
  <2>2. Cardinality({m}) = 1
    BY FS_Singleton
  <2>3. Cardinality(S) = 1
    BY <2>1, <2>2
  <2> QED BY <2>3
<1> QED BY <1>1, <1>2

\* An application has at most one PEP proxy, unless two requests looked for it before
\* either had added it.
THEOREM ProxiesAreSingle == ApplicationSpec => []OneProxyPerApplication
<1>1. ApplicationInit => ProxyInv
  <2> SUFFICES ASSUME ApplicationInit  PROVE ProxyInv
    OBVIOUS
  <2>1. PICK s \in Starts[group] : machine = s.machine
    BY DEF ApplicationInit
  <2>2. SoundStart(s)
    BY <2>1, StartsAssumption DEF ApplicationInit
  <2>3. \A p \in Requests : req[p].pc = "idle"
    BY QuietType DEF ApplicationInit
  <2>4. \A m, n \in DOMAIN machine : /\ machine[m].app = machine[n].app
                                     /\ machine[m].kind = "pep" /\ machine[n].kind = "pep"
                                     => m = n
    BY <2>1, <2>2 DEF SoundStart
  <2> QED BY <2>3, <2>4 DEF ProxyInv, Peps, MachinesOf, At
<1>2. ProxyInv => OneProxyPerApplication
  BY AtMostOne DEF ProxyInv, OneProxyPerApplication, Peps
<1> QED BY <1>1, <1>2, TypeInitially, TypeStep, ProxyStep, PTL DEF ApplicationSpec

(***************************************************************************)
(* Creation.  Until its row is saved an application belongs to the request *)
(* that creates it; an assignment that was made stays as long as the       *)
(* application does.                                                       *)
(***************************************************************************)
CreationInv ==
    /\ \A p \in Requests : At(p, "save") =>
          /\ req[p].app \notin Live /\ req[p].row # "made"
          /\ \A o \in Requests \ {p} : req[o].app # req[p].app
    /\ \A p \in Requests : req[p].row = "made" /\ req[p].app \in Live =>
          <<req[p].app, "organization">> \in provided
    /\ \A p \in Requests : req[p].pc \in CreationPcs => req[p].kind \in {"webCreate", "apiCreate"}

Backed(a) == \/ a \in Participants
             \/ \E w \in provided : w[1] = a
             \/ a \in excused
             \/ \E p \in Requests : req[p].app = a /\ req[p].pc \in CreationSteps

\* Every request keeps its application, or begins with one that is there.
AppsHeld == \A o \in Requests : \/ req'[o].app \in Live \union {None}
                                \/ req'[o].app = req[o].app

LEMMA HeldByComes ==
  ASSUME TypeInv, NEW p \in Requests, NEW pcs, Comes(p, pcs) \/ Upload(p) \/ Finish(p) \/ Die
  PROVE  AppsHeld
<1>1. CASE Die
  BY <1>1, DieLeaves DEF AppsHeld
<1>2. CASE Finish(p)
  BY <1>2, QuietType, OnlyOne DEF Finish, AppsHeld
<1>3. CASE Comes(p, pcs)
  <2>1. PICK n \in ReqType : Become(p, n) /\ (Begun(n) \/ GoesOn(req[p], n))
    BY <1>3 DEF Comes
  <2> QED BY <2>1, OnlyOne DEF AppsHeld, Begun, GoesOn
<1>4. CASE Upload(p)
  <2>1. PICK a \in Live, n \in ReqType : Become(p, n) /\ n.app = a
    BY <1>4, UploadIs
  <2> QED BY <2>1, OnlyOne DEF AppsHeld
<1> QED BY <1>1, <1>2, <1>3, <1>4

\* A step that creates nothing.
LEMMA CreationFrame ==
  ASSUME TypeInv, RequestsOK', CreationInv, StaysAt(CreationPcs), AppsHeld, Live' \subseteq Live,
         \A a \in Live' : <<a, "organization">> \in provided => <<a, "organization">> \in provided'
  PROVE  CreationInv'
<1>1. "save" \in CreationPcs
  BY DEF CreationPcs
<1>2. \A o \in Requests : req'[o].row # "none" => req'[o].pc \in CreationPcs
  BY DEF RequestsOK, WellFormed
<1>3. ASSUME NEW p \in Requests, req'[p].pc = "save"
      PROVE  /\ req'[p].app \notin Live' /\ req'[p].row # "made"
             /\ \A o \in Requests \ {p} : req'[o].app # req'[p].app
  <2>1. req'[p] = req[p]
    BY <1>1, <1>3 DEF StaysAt
  <2>2. /\ req[p].app \notin Live /\ req[p].row # "made" /\ req[p].app # None
        /\ \A o \in Requests \ {p} : req[o].app # req[p].app
    BY <1>1, <1>3, <2>1, FreshAssumption DEF CreationInv, At, TypeInv, WellFormed
  <2> QED BY <2>1, <2>2 DEF AppsHeld
<1>4. ASSUME NEW p \in Requests, req'[p].row = "made", req'[p].app \in Live'
      PROVE  <<req'[p].app, "organization">> \in provided'
  <2>1. req'[p] = req[p]
    BY <1>2, <1>4 DEF StaysAt
  <2> QED BY <1>4, <2>1 DEF CreationInv
<1>5. ASSUME NEW p \in Requests, req'[p].pc \in CreationPcs
      PROVE  req'[p].kind \in {"webCreate", "apiCreate"}
  BY <1>5 DEF StaysAt, CreationInv
<1> QED BY <1>3, <1>4, <1>5 DEF CreationInv, At, CreationPcs

\* A creation that begins or goes on.
LEMMA CreationGoesOn ==
  ASSUME TypeInv, CreationInv, NEW p \in Requests, NEW n, Become(p, n), Live' = Live,
         \/ Founds(n) /\ n.kind \in {"webCreate", "apiCreate"}
         \/ Unwinds(req[p], n),
         provided \subseteq provided',
         n.row = "made" => \/ req[p].row = "made"
                           \/ n.app \in Live /\ <<n.app, "organization">> \in provided'
  PROVE  CreationInv'
<1>1. req'[p] = n /\ \A o \in Requests \ {p} : req'[o] = req[o]
  BY OnlyOne
<1>2. PICK q : q = req[p]
  OBVIOUS
<1>3. ASSUME n.pc = "save"
      PROVE  n.app \notin Live /\ n.row # "made" /\ \A o \in Requests \ {p} : req[o].app # n.app
  <2>1. CASE Founds(n)
    BY <2>1 DEF Founds, NewApps, Held
  <2>2. CASE Unwinds(q, n)
    BY <1>2, <1>3, <2>2 DEF Unwinds, CreationInv, At
  <2> QED BY <1>2, <2>1, <2>2
<1>4. \A o \in Requests \ {p} : req[o].pc = "save" => req[o].app # n.app
  BY <1>2 DEF Founds, Unwinds, NewApps, Held, CreationInv, At
<1>5. \A o \in Requests : At(o, "save")' =>
          /\ req'[o].app \notin Live /\ req'[o].row # "made"
          /\ \A x \in Requests \ {o} : req'[x].app # req'[o].app
  BY <1>1, <1>3, <1>4 DEF CreationInv, At
<1>6. ASSUME n.row = "made", n.app \in Live  PROVE <<n.app, "organization">> \in provided'
  BY <1>2, <1>6 DEF Founds, Unwinds, CreationInv
<1>7. \A o \in Requests : req'[o].row = "made" /\ req'[o].app \in Live =>
          <<req'[o].app, "organization">> \in provided'
  BY <1>1, <1>6 DEF CreationInv
<1>8. n.kind \in {"webCreate", "apiCreate"}
  BY <1>2 DEF Unwinds, CreationInv
<1>9. \A o \in Requests : req'[o].pc \in CreationPcs => req'[o].kind \in {"webCreate", "apiCreate"}
  BY <1>1, <1>8 DEF CreationInv
<1> QED BY <1>5, <1>7, <1>9 DEF CreationInv, At, CreationPcs

\* The step that adds the row.
LEMMA CreationSaves ==
  ASSUME TypeInv, CreationInv, NEW p \in Requests, SaveApplication(p), req[p].valid
  PROVE  /\ CreationInv' /\ provided' = provided /\ Live' = Live \union {req[p].app}
         /\ req'[p].pc = "inserted" /\ req'[p].app = req[p].app
         /\ \A o \in Requests \ {p} : req'[o] = req[o]
<1>1. "inserted" \in Pcs /\ "save" \in CreationPcs
  BY DEF Pcs, CreationPcs
<1>2. PICK q : q = req[p]
  OBVIOUS
<1>3. q.pc = "save" /\ Goto(p, "inserted") /\ provided' = provided
  BY <1>2 DEF SaveApplication, At
<1>4. PICK n \in ReqType : Become(p, n) /\ n = [q EXCEPT !.pc = "inserted"]
  BY <1>1, <1>2, <1>3, GotoIs
<1>5. n.pc = "inserted" /\ n.app = q.app /\ n.row = q.row /\ n.kind = q.kind
  BY <1>2, <1>4, GotoKeeps DEF TypeInv
<1>6. req'[p] = n /\ \A o \in Requests \ {p} : req'[o] = req[o]
  BY <1>4, OnlyOne
<1>7. Live' = Live \union {q.app}
  BY <1>2 DEF SaveApplication, Live
<1>8. /\ q.app \notin Live /\ q.row # "made" /\ q.kind \in {"webCreate", "apiCreate"}
      /\ \A o \in Requests \ {p} : req[o].app # q.app
  BY <1>1, <1>2, <1>3 DEF CreationInv, At
<1>9. \A o \in Requests : req'[o].pc = "save" =>
          /\ req'[o].app \notin Live' /\ req'[o].row # "made"
          /\ \A x \in Requests \ {o} : req'[x].app # req'[o].app
  BY <1>2, <1>5, <1>6, <1>7, <1>8 DEF CreationInv, At
<1>10. \A o \in Requests : req'[o].row = "made" /\ req'[o].app \in Live' =>
          <<req'[o].app, "organization">> \in provided'
  BY <1>3, <1>5, <1>6, <1>7, <1>8 DEF CreationInv
<1>11. \A o \in Requests : req'[o].pc \in CreationPcs => req'[o].kind \in {"webCreate", "apiCreate"}
  BY <1>5, <1>6, <1>8 DEF CreationInv
<1> QED BY <1>2, <1>3, <1>5, <1>6, <1>7, <1>9, <1>10, <1>11 DEF CreationInv, At, CreationPcs

LEMMA CreationCreating ==
  ASSUME TypeInv, CreationInv, NEW p \in Requests, Creating(p), RequestsOK'
  PROVE  CreationInv'
<1>1. PICK q : q = req[p]
  OBVIOUS
<1>2. q \in ReqType
  BY <1>1 DEF TypeInv
<1>3. ASSUME Live' \subseteq Live, Finish(p) \/ Die,
             \A a \in Live' : <<a, "organization">> \in provided => <<a, "organization">> \in provided'
      PROVE  CreationInv'
  <2>1. StaysAt(CreationPcs)
    <3>1. "idle" \notin CreationPcs /\ "lost" \notin CreationPcs
      BY DEF CreationPcs
    <3> QED BY <1>3, <3>1, FinishLeaves, DieLeaves DEF StaysAt
  <2>2. AppsHeld
    BY <1>3, QuietType, OnlyOne, DieLeaves DEF AppsHeld, Finish
  <2> QED BY <1>3, <2>1, <2>2, CreationFrame
<1>4. CASE UndoCreation(p)
  <2>1. Live' = Live \ {q.app} /\ Finish(p)
    BY <1>1, <1>4, DestroyIs, TypeTables DEF UndoCreation
  <2>2. \A a \in Live' : <<a, "organization">> \in provided => <<a, "organization">> \in provided'
    BY <1>1, <1>4, <2>1 DEF UndoCreation, Destroy
  <2> QED BY <1>3, <2>1, <2>2
<1>5. CASE SaveApplication(p) /\ req[p].valid
  BY <1>5, CreationSaves
<1>6. CASE ~UndoCreation(p) /\ ~(SaveApplication(p) /\ req[p].valid)
  <2>1. app' = app /\ Live' = Live
    BY <1>6 DEF Creating, WebCreate, ApiCreate, SaveApplication, SaveResolves, FindProvider,
       CreateProviderRow, AssignProvider, Live
  <2>2. provided \subseteq provided'
    BY <1>6 DEF Creating, WebCreate, ApiCreate, SaveApplication, SaveResolves, FindProvider,
       CreateProviderRow, AssignProvider
  <2>3. CASE Finish(p) \/ Die
    BY <1>3, <2>1, <2>2, <2>3
  <2>4. CASE Creates(p) /\ ~Finish(p) /\ ~Die
    <3>1. PICK n \in ReqType : /\ Become(p, n)
                               /\ \/ Founds(n) /\ n.kind \in {"webCreate", "apiCreate"}
                                  \/ Unwinds(q, n)
      BY <1>1, <2>4 DEF Creates
    <3>2. CASE Founds(n)
      <4>1. n.row # "made"
        BY <3>2 DEF Founds
      <4> QED BY <1>1, <2>1, <2>2, <3>1, <4>1, CreationGoesOn
    <3>3. req'[p] = n
      BY <3>1, OnlyOne
    <3>4. CASE Unwinds(q, n) /\ ~Founds(n)
      <4>1. ~WebCreate(p) /\ ~ApiCreate(p)
        <5>1. WebCreate(p) \/ ApiCreate(p) => At(p, "idle")
          BY DEF WebCreate, ApiCreate, Start
        <5>2. "idle" \notin CreationPcs
          BY DEF CreationPcs
        <5> QED BY <1>1, <3>4, <5>1, <5>2 DEF Unwinds, At
      <4>2. ASSUME NEW pc \in CreationPcs, Goto(p, pc)  PROVE n.row = q.row
        <5>1. PICK m : m = [q EXCEPT !.pc = pc]
          OBVIOUS
        <5>2. m.row = q.row /\ Become(p, m)
          BY <1>1, <1>2, <4>2, <5>1, GotoKeeps DEF Goto
        <5> QED BY <3>3, <5>2, OnlyOne
      <4>3. ASSUME NoOrganization(p)  PROVE n.row = "none"
        <5>1. PICK m : m = [q EXCEPT !.pc = "undo", !.row = "none"]
          OBVIOUS
        <5>2. m.row = "none" /\ Become(p, m)
          BY <1>1, <1>2, <2>4, <4>3, <5>1 DEF NoOrganization, ReqType
        <5> QED BY <3>3, <5>2, OnlyOne
      <4>4. {"inserted", "assign", "abandoned"} \subseteq CreationPcs
        BY DEF CreationPcs
      <4>5. CASE SaveApplication(p) \/ SaveResolves(p)
        <5>1. n.row = q.row
          BY <1>6, <2>4, <4>2, <4>4, <4>5 DEF SaveApplication, SaveResolves
        <5> QED BY <1>1, <2>1, <2>2, <3>1, <5>1, CreationGoesOn
      <4>6. CASE FindProvider(p)
        <5>1. CASE Become(p, [q EXCEPT !.row = "create"])
          <6>1. PICK m : m = [q EXCEPT !.row = "create"]
            OBVIOUS
          <6>2. m.row = "create" /\ Become(p, m)
            BY <1>2, <5>1, <6>1 DEF ReqType
          <6>3. n.row # "made"
            BY <3>3, <6>2, OnlyOne
          <6> QED BY <1>1, <2>1, <2>2, <3>1, <6>3, CreationGoesOn
        <5>2. CASE NoOrganization(p)
          BY <1>1, <2>1, <2>2, <3>1, <4>3, <5>2, CreationGoesOn
        <5> QED BY <1>1, <4>6, <5>1, <5>2 DEF FindProvider
      <4>7. CASE CreateProviderRow(p)
        <5>1. CASE q.app \in Live
          <6>1. n.app = q.app
            BY <3>4 DEF Unwinds
          <6>2. <<q.app, "organization">> \in provided'
            BY <1>1, <4>7, <5>1 DEF CreateProviderRow
          <6> QED BY <1>1, <2>1, <2>2, <3>1, <5>1, <6>1, <6>2, CreationGoesOn
        <5>2. CASE q.app \notin Live
          BY <1>1, <2>1, <2>2, <3>1, <4>3, <4>7, <5>2, CreationGoesOn DEF CreateProviderRow
        <5> QED BY <5>1, <5>2
      <4> QED BY <1>6, <2>4, <4>1, <4>5, <4>6, <4>7 DEF Creating, AssignProvider
    <3> QED BY <3>1, <3>2, <3>4
  <2> QED BY <2>3, <2>4, CreatingComes
<1> QED BY <1>4, <1>5, <1>6

\* What every other request leaves of creation.
Onlooker(p) == \/ Updating(p) \/ Picturing(p) \/ Equipping(p) \/ Authenticating(p)
               \/ Trusting(p) \/ Reviving(p)
ProvidersKept == \A w \in provided : w[1] \in Live' => w \in provided'

LEMMA WriteKeepsRows ==
  ASSUME NEW a, NEW row, Write(a, row)
  PROVE  Live' = Live
  BY DEF Write, Live

LEMMA OnlookersActElsewhere ==
  ASSUME TypeInv, NEW p \in Requests, Onlooker(p)
  PROVE  req[p].pc \notin CreationPcs
<1>1. "idle" \notin CreationPcs /\ "lost" \notin CreationPcs
  BY DEF CreationPcs
<1>2. CASE Updating(p)
  BY <1>2 DEF Updating, ApplicationRequest, UpdateInfo, ChangeTokenType, ResetJwtSecret, Update,
     FlushUpdate, Start, At, CreationPcs
<1>3. CASE Picturing(p)
  BY <1>3 DEF Picturing, Upload, CheckImage, SetImage, DeleteImage, DeleteAvatar, ClearImage,
     WebDestroy, UnlinkOfApplication, ApiDestroy, Start, At, CreationPcs
<1>4. CASE Equipping(p)
  <2>1. CASE MachineRequest(p)
    BY <1>1, <2>1 DEF MachineRequest, Start, At
  <2>2. CASE ~MachineRequest(p)
    BY <1>4, <2>2 DEF Equipping, RegisterPep, CreatePep, SavePep, RegisterIot, CreateIot,
       ResetPasswordPep, ResetPasswordIot, UpdatePep, UpdateIot, DeletePep, DeleteIot,
       DestroyPep, DestroyIot, At, CreationPcs
  <2> QED BY <2>1, <2>2
<1>5. CASE Authenticating(p)
  <2>1. CASE CreateTokenRequest(p)
    BY <1>1, <2>1 DEF CreateTokenRequest, Start, At
  <2>2. CASE DeleteTokenRequest(p)
    BY <1>1, <2>2 DEF DeleteTokenRequest, Start, At
  <2>3. CASE SearchIdentity(p) \/ SearchTokenOwner(p) \/ CreateToken(p) \/ DeleteToken(p)
    <3>1. req[p].pc \in {"createToken", "deleteToken"}
      BY <2>3 DEF SearchIdentity, SearchTokenOwner, CreateToken, DeleteToken, At
    <3> QED BY <3>1 DEF CreationPcs
  <2> QED BY <1>5, <2>1, <2>2, <2>3 DEF Authenticating
<1>6. CASE Trusting(p)
  BY <1>6 DEF Trusting, TrustRequest, DestroyTrusts, BulkCreateTrusts, AddTrusted, RemoveTrusted,
     Start, At, CreationPcs
<1>7. CASE Reviving(p)
  BY <1>1, <1>7 DEF Reviving, Restart, At
<1> QED BY <1>2, <1>3, <1>4, <1>5, <1>6, <1>7 DEF Onlooker

LEMMA OnlookersKeepRows ==
  ASSUME TypeInv, NEW p \in Requests, Onlooker(p)
  PROVE  Live' \subseteq Live /\ ProvidersKept
<1>1. ASSUME NEW a, Destroy(a)  PROVE Live' \subseteq Live /\ ProvidersKept
  <2>1. Live' = Live \ {a}
    BY <1>1, DestroyIs, TypeTables
  <2>2. provided' = {w \in provided : w[1] # a}
    BY <1>1 DEF Destroy
  <2> QED BY <2>1, <2>2 DEF ProvidersKept
<1>2. CASE Updating(p)
  <2>1. provided' = provided
    BY <1>2 DEF Updating, ApplicationRequest, UpdateInfo, ChangeTokenType, ResetJwtSecret, Update,
       FlushUpdate
  <2>2. app' = app \/ \E a, row : Write(a, row)
    BY <1>2 DEF Updating, ApplicationRequest, UpdateInfo, ChangeTokenType, ResetJwtSecret, Update,
       FlushUpdate
  <2> QED BY <2>1, <2>2, WriteKeepsRows DEF ProvidersKept, Live
<1>3. CASE Picturing(p)
  <2>1. CASE WebDestroy(p) \/ ApiDestroy(p)
    BY <1>1, <2>1 DEF WebDestroy, ApiDestroy
  <2>2. CASE ~(WebDestroy(p) \/ ApiDestroy(p))
    <3>1. provided' = provided
      BY <1>3, <2>2 DEF Picturing, Upload, CheckImage, SetImage, DeleteImage, DeleteAvatar,
         ClearImage, UnlinkOfApplication, Elsewhere, creation
    <3>2. app' = app \/ \E a, row : Write(a, row)
      BY <1>3, <2>2 DEF Picturing, Upload, CheckImage, SetImage, DeleteImage, DeleteAvatar,
         ClearImage, UnlinkOfApplication
    <3> QED BY <3>1, <3>2, WriteKeepsRows DEF ProvidersKept, Live
  <2> QED BY <2>1, <2>2
<1>4. ASSUME app' = app, provided' = provided  PROVE Live' \subseteq Live /\ ProvidersKept
  BY <1>4 DEF Live, ProvidersKept
<1>5. CASE Equipping(p)
  BY <1>4, <1>5, EquippingIs DEF Beside, creation
<1>6. CASE Authenticating(p)
  BY <1>4, <1>6, AuthenticatingIs DEF Aside, creation
<1>7. CASE Trusting(p)
  BY <1>4, <1>7 DEF Trusting, TrustRequest, DestroyTrusts, BulkCreateTrusts, AddTrusted,
     RemoveTrusted, Apart, creation
<1>8. CASE Reviving(p)
  BY <1>4, <1>8 DEF Reviving
<1> QED BY <1>2, <1>3, <1>5, <1>6, <1>7, <1>8 DEF Onlooker

LEMMA OnlookersKeepRequests ==
  ASSUME TypeInv, NEW p \in Requests, Onlooker(p)
  PROVE  StaysAt(CreationPcs) /\ AppsHeld /\ (Die \/ \A o \in Requests \ {p} : req'[o] = req[o])
<1>1. \A pc \in CreationPcs : /\ pc \notin UpdatePcs /\ pc \notin PicturePcs /\ pc \notin MachinePcs
                              /\ pc \notin TokenPcs /\ pc \notin TrustPcs
                              /\ pc # "idle" /\ pc # "lost" /\ pc # "check"
  BY PartsApart DEF CreationPcs, TrustPcs, MachinePcs, AddKinds, WebMachineKinds, ApiMachineKinds
<1>2. "idle" \notin CreationPcs /\ "check" \notin CreationPcs
  BY <1>1
<1>3. ASSUME NEW pcs, Comes(p, pcs) \/ Finish(p) \/ Die, \A pc \in CreationPcs : pc \notin pcs
      PROVE  /\ StaysAt(CreationPcs) /\ AppsHeld
             /\ Die \/ \A o \in Requests \ {p} : req'[o] = req[o]
  <2>1. StaysAt(CreationPcs)
    BY <1>1, <1>3, OthersRemain
  <2>2. AppsHeld
    BY <1>3, HeldByComes
  <2>3. Die \/ \E n : Become(p, n)
    BY <1>3 DEF Comes, Finish
  <2> QED BY <2>1, <2>2, <2>3, OnlyOne
<1>4. CASE Updating(p)
  BY <1>1, <1>3, <1>4, UpdatingComes
<1>5. CASE Picturing(p) /\ ~Upload(p)
  BY <1>1, <1>3, <1>5, PicturingComes
<1>6. CASE Upload(p)
  <2>1. \E n : Become(p, n)
    BY <1>6, UploadIs
  <2> QED BY <1>2, <1>6, <2>1, UploadLeaves, HeldByComes, OnlyOne
<1>7. CASE Equipping(p)
  BY <1>1, <1>3, <1>7, EquippingComes
<1>8. CASE Authenticating(p)
  BY <1>1, <1>3, <1>8, AuthenticatingComes
<1>9. CASE Trusting(p)
  BY <1>1, <1>3, <1>9, TrustingComes
<1>10. CASE Reviving(p)
  <2>1. Finish(p)
    BY <1>10 DEF Reviving, Restart
  <2> QED BY <1>1, <1>3, <2>1
<1> QED BY <1>4, <1>5, <1>6, <1>7, <1>8, <1>9, <1>10 DEF Onlooker

LEMMA CreationStep ==
  TypeInv /\ CreationInv /\ [ApplicationStep /\ ApplicationHistory]_applicationVars
     => CreationInv'
<1>1. ASSUME TypeInv, CreationInv, ApplicationStep, ApplicationHistory  PROVE CreationInv'
  <2>1. RequestsOK'
    BY <1>1, RequestsKeepTheirType
  <2>2. ASSUME NEW p \in Requests, Creating(p)  PROVE CreationInv'
    BY <1>1, <2>1, <2>2, CreationCreating
  <2>3. ASSUME NEW p \in Requests, Onlooker(p)  PROVE CreationInv'
    <3>1. \A a \in Live' : <<a, "organization">> \in provided => <<a, "organization">> \in provided'
      BY <1>1, <2>3, OnlookersKeepRows DEF ProvidersKept
    <3> QED BY <1>1, <2>1, <2>3, <3>1, OnlookersKeepRows, OnlookersKeepRequests, CreationFrame
  <2>4. ASSUME DeleteAccount \/ LoseOrganization  PROVE CreationInv'
    <3>1. req' = req /\ Live' = Live
      BY <2>4 DEF DeleteAccount, LoseOrganization, Live
    <3>2. StaysAt(CreationPcs) /\ AppsHeld
      BY <3>1 DEF StaysAt, AppsHeld
    <3>3. \A a \in Live' : <<a, "organization">> \in provided => <<a, "organization">> \in provided'
      <4>1. CASE DeleteAccount
        <5>1. PICK u \in users : provided' = {w \in provided : w[2] # u}
          BY <1>1, <4>1, DeleteAccountIs
        <5>2. u # "organization"
          BY <1>1, FreshAssumption DEF TypeInv, ApplicationsTypeOK
        <5> QED BY <5>1, <5>2
      <4>2. CASE LoseOrganization
        BY <4>2 DEF LoseOrganization
      <4> QED BY <2>4, <4>1, <4>2
    <3> QED BY <1>1, <2>1, <3>1, <3>2, <3>3, CreationFrame
  <2> QED BY <1>1, <2>2, <2>3, <2>4 DEF ApplicationStep, Onlooker
<1>2. ASSUME CreationInv, UNCHANGED applicationVars  PROVE CreationInv'
  BY <1>2 DEF applicationVars, creation, CreationInv, At, Live
<1> QED BY <1>1, <1>2

(***************************************************************************)
(* Providers.  No application loses the last thing that stands for its     *)
(* provider: an assignment goes with its user only, who is remembered, and *)
(* a creation ends with an assignment, without its row, or is remembered.  *)
(***************************************************************************)
Steps(q) == q.pc \in CreationSteps

\* What stood for the provider of an application that is left still does.
BackingKept == \A a \in Live' :
    /\ a \in Live \/ \E p \in Requests : req'[p].app = a /\ Steps(req'[p])
    /\ \A w \in provided : w[1] = a => w \in provided' \/ a \in excused'
    /\ \A o \in Requests : req[o].app = a /\ Steps(req[o]) =>
          \/ \E w \in provided' : w[1] = a
          \/ a \in excused'
          \/ \E p \in Requests : req'[p].app = a /\ Steps(req'[p])

LEMMA ProviderFrame ==
  ASSUME TypeInv, ApplicationsHaveAProvider, ApplicationHistory, BackingKept
  PROVE  ApplicationsHaveAProvider'
<1>1. SUFFICES ASSUME NEW a \in Live' \ Participants
               PROVE  \/ \E w \in provided' : w[1] = a
                      \/ a \in excused'
                      \/ \E p \in Requests : req'[p].app = a /\ Steps(req'[p])
  BY DEF ApplicationsHaveAProvider, Steps
<1>2. a \in excused => a \in excused'
  BY DEF ApplicationHistory, Live
<1>3. CASE a \in Live
  <2>1. \/ \E w \in provided : w[1] = a
        \/ a \in excused
        \/ \E p \in Requests : req[p].app = a /\ Steps(req[p])
    BY <1>3 DEF ApplicationsHaveAProvider, Steps
  <2> QED BY <1>2, <2>1 DEF BackingKept
<1> QED BY <1>3 DEF BackingKept

\* The end of the process is remembered of every creation that it cut short.
LEMMA DyingExcuses ==
  ASSUME Die, ApplicationHistory, NEW o \in Requests, Steps(req[o]), req[o].app \in Live'
  PROVE  req[o].app \in excused'
<1>1. PICK lost : lost = {p \in Requests : ~At(p, "lost") /\ req'[p].pc = "lost"}
  OBVIOUS
<1>2. req[o].pc # "idle" /\ req[o].pc # "lost"
  BY DEF Steps, CreationSteps
<1>3. o \in lost
  BY <1>1, <1>2, DieLeaves DEF At
<1>4. \A a \in DOMAIN app' :
         (\E p \in Requests : req[p].app = a /\ p \in lost /\ req[p].pc \in CreationSteps \union {"clearImage"})
            => a \in excused'
  BY <1>1 DEF ApplicationHistory
<1> QED BY <1>3, <1>4 DEF Steps, Live

\* The API has answered already when its application's provider turns out to be gone.
LEMMA LateAssignmentExcuses ==
  ASSUME ApplicationHistory, NEW o \in Requests, req'[o] # req[o], At(o, "assign"),
         req[o].kind = "apiCreate", req[o].who \notin users, req[o].app \in Live'
  PROVE  req[o].app \in excused'
  BY DEF ApplicationHistory, Live

LEMMA OnlookersKeepBacking ==
  ASSUME TypeInv, ApplicationHistory, NEW p \in Requests, Onlooker(p)
  PROVE  BackingKept
<1>1. Live' \subseteq Live /\ ProvidersKept
  BY OnlookersKeepRows
<1>2. ~Steps(req[p])
  BY OnlookersActElsewhere DEF Steps, CreationSteps, CreationPcs
<1>3. ASSUME NEW a \in Live', NEW o \in Requests, req[o].app = a, Steps(req[o])
      PROVE  a \in excused' \/ \E b \in Requests : req'[b].app = a /\ Steps(req'[b])
  <2>1. CASE Die
    BY <1>3, <2>1, DyingExcuses
  <2>2. CASE \A b \in Requests \ {p} : req'[b] = req[b]
    BY <1>2, <1>3, <2>2
  <2> QED BY <2>1, <2>2, OnlookersKeepRequests
<1> QED BY <1>1, <1>3 DEF BackingKept, ProvidersKept

\* A creation whose record stays among the steps keeps the application's place.
LEMMA StepsGoOn ==
  ASSUME TypeInv, NEW p \in Requests, NEW n, Become(p, n), Steps(n), n.app = req[p].app,
         Live' \subseteq Live, provided \subseteq provided'
  PROVE  BackingKept
<1>1. req'[p] = n /\ \A o \in Requests \ {p} : req'[o] = req[o]
  BY OnlyOne
<1>2. ASSUME NEW a \in Live', NEW o \in Requests, req[o].app = a, Steps(req[o])
      PROVE  \E b \in Requests : req'[b].app = a /\ Steps(req'[b])
  BY <1>1, <1>2
<1> QED BY <1>2 DEF BackingKept

\* One that is over, or not among the steps, must leave an assignment or a memory.
LEMMA StepsOver ==
  ASSUME TypeInv, NEW p \in Requests, \A o \in Requests \ {p} : req'[o] = req[o],
         Live' \subseteq Live, ProvidersKept,
         Steps(req[p]) /\ req[p].app \in Live' =>
            (\E w \in provided' : w[1] = req[p].app) \/ req[p].app \in excused'
  PROVE  BackingKept
<1>1. ASSUME NEW a \in Live', NEW o \in Requests, req[o].app = a, Steps(req[o])
      PROVE  \/ \E w \in provided' : w[1] = a
             \/ a \in excused'
             \/ \E b \in Requests : req'[b].app = a /\ Steps(req'[b])
  BY <1>1
<1> QED BY <1>1 DEF BackingKept, ProvidersKept

LEMMA DyingKeepsBacking ==
  ASSUME Die, ApplicationHistory, Live' = Live, provided' = provided
  PROVE  BackingKept
  BY DyingExcuses DEF BackingKept

\* What a creation without an organization makes of itself.
LEMMA NoOrganizationKeepsBacking ==
  ASSUME TypeInv, ApplicationHistory, NEW p \in Requests, NoOrganization(p), req[p].row # "none",
         Live' = Live, provided' = provided
  PROVE  BackingKept
<1>1. CASE At(p, "assign")
  <2>1. PICK q : q = req[p]
    OBVIOUS
  <2>2. PICK n : n = [q EXCEPT !.pc = "undo", !.row = "none"]
    OBVIOUS
  <2>3. q \in ReqType
    BY <2>1 DEF TypeInv
  <2>4. n.pc = "undo" /\ n.app = q.app
    BY <2>2, <2>3 DEF ReqType
  <2>5. Become(p, n) /\ Steps(n)
    BY <1>1, <2>1, <2>2, <2>4 DEF NoOrganization, Steps, CreationSteps
  <2> QED BY <2>1, <2>4, <2>5, StepsGoOn
<1>2. CASE ~At(p, "assign")
  BY <1>2, DyingKeepsBacking DEF NoOrganization
<1> QED BY <1>1, <1>2

\* A new stage of the assignment: the step the creation is at stays the same.
LEMMA NextStageKeepsBacking ==
  ASSUME TypeInv, ApplicationHistory, NEW p \in Requests, NEW row,
         Become(p, [req[p] EXCEPT !.row = row]), Live' = Live, provided \subseteq provided'
  PROVE  BackingKept
<1>1. PICK q : q = req[p]
  OBVIOUS
<1>2. PICK n : n = [q EXCEPT !.row = row]
  OBVIOUS
<1>3. q \in ReqType
  BY <1>1 DEF TypeInv
<1>4. n.pc = q.pc /\ n.app = q.app /\ Become(p, n)
  BY <1>1, <1>2, <1>3 DEF ReqType
<1>5. CASE Steps(q)
  BY <1>1, <1>4, <1>5, StepsGoOn DEF Steps
<1>6. CASE ~Steps(q)
  <2>1. ProvidersKept
    BY DEF ProvidersKept
  <2> QED BY <1>1, <1>4, <1>6, <2>1, OnlyOne, StepsOver
<1> QED BY <1>5, <1>6

LEMMA AssignKeepsBacking ==
  ASSUME TypeInv, CreationInv, ApplicationHistory, NEW p \in Requests, AssignProvider(p)
  PROVE  BackingKept
<1>1. PICK q : q = req[p]
  OBVIOUS
<1>2. /\ q.pc = "assign" /\ Live' = Live /\ provided \subseteq provided'
      /\ \/ q.row = "made" /\ Finish(p)
         \/ q.who \in users /\ q.app \in Live /\ <<q.app, q.who>> \in provided' /\ Finish(p)
         \/ /\ q.who \notin users \/ q.app \notin Live
            /\ IF q.kind = "webCreate" THEN Die ELSE Finish(p)
            /\ provided' = provided
  BY <1>1 DEF AssignProvider, At, Live
<1>3. ProvidersKept
  BY <1>2 DEF ProvidersKept
<1>4. q.kind \in {"webCreate", "apiCreate"}
  BY <1>1, <1>2 DEF CreationInv, CreationPcs
<1>5. CASE Die
  <2>1. Quiet \in ReqType
    BY QuietType
  <2>2. ~Finish(p)
    BY <1>1, <1>2, <1>5, <2>1, DieLeaves, QuietType, OnlyOne DEF Finish
  <2> QED BY <1>2, <1>5, <2>2, DyingKeepsBacking
<1>6. CASE Finish(p)
  <2>1. req'[p] = Quiet /\ \A o \in Requests \ {p} : req'[o] = req[o]
    BY <1>6, OnlyOne DEF Finish
  <2>2. req'[p] # req[p]
    BY <1>1, <1>2, <2>1, QuietType
  <2>3. ASSUME q.app \in Live'
        PROVE  (\E w \in provided' : w[1] = q.app) \/ q.app \in excused'
    <3>1. CASE q.row = "made"
      <4>1. <<q.app, "organization">> \in provided'
        BY <1>1, <1>2, <2>3, <3>1 DEF CreationInv
      <4> QED BY <4>1
    <3>2. CASE <<q.app, q.who>> \in provided'
      BY <3>2
    <3>3. CASE /\ q.who \notin users \/ q.app \notin Live
               /\ IF q.kind = "webCreate" THEN Die ELSE Finish(p)
      <4>1. ~Die
        BY <1>1, <1>2, <2>1, DieLeaves, QuietType
      <4>2. q.kind = "apiCreate" /\ q.who \notin users
        BY <1>2, <1>4, <2>3, <3>3, <4>1
      <4> QED BY <1>1, <1>2, <2>2, <2>3, <4>2, LateAssignmentExcuses DEF At
    <3> QED BY <1>2, <2>3, <3>1, <3>2, <3>3
  <2> QED BY <1>1, <1>2, <1>3, <2>1, <2>3, StepsOver
<1> QED BY <1>2, <1>5, <1>6

LEMMA CreatingKeepsBacking ==
  ASSUME TypeInv, CreationInv, ApplicationHistory, NEW p \in Requests, Creating(p)
  PROVE  BackingKept
<1>1. PICK q : q = req[p]
  OBVIOUS
<1>2. q \in ReqType
  BY <1>1 DEF TypeInv
<1>3. ASSUME NEW n, Become(p, n), ~Steps(q), Live' = Live, provided' = provided
      PROVE  BackingKept
  <2>1. ProvidersKept
    BY <1>3 DEF ProvidersKept
  <2> QED BY <1>1, <1>3, <2>1, OnlyOne, StepsOver
<1>4. ASSUME WebCreate(p) \/ ApiCreate(p)  PROVE BackingKept
  <2>1. q.pc = "idle" /\ app' = app /\ provided' = provided /\ \E n : Become(p, n)
    <3>1. \E kind, r : Start(p, kind, r)
      BY <1>4 DEF WebCreate, ApiCreate
    <3>2. At(p, "idle") /\ \E n : Become(p, n)
      BY <3>1 DEF Start
    <3> QED BY <1>1, <1>4, <3>2 DEF WebCreate, ApiCreate, At
  <2>2. ~Steps(q)
    BY <2>1 DEF Steps, CreationSteps
  <2> QED BY <1>3, <2>1, <2>2 DEF Live
<1>5. ASSUME SaveApplication(p)  PROVE BackingKept
  <2>1. q.pc = "save"
    BY <1>1, <1>5 DEF SaveApplication, At
  <2>2. ~Steps(q)
    BY <2>1 DEF Steps, CreationSteps
  <2>3. CASE q.valid
    <3>1. /\ provided' = provided /\ Live' = Live \union {q.app}
          /\ req'[p].pc = "inserted" /\ req'[p].app = q.app
          /\ \A o \in Requests \ {p} : req'[o] = req[o]
      BY <1>1, <1>5, <2>3, CreationSaves
    <3>2. Steps(req'[p])
      BY <3>1 DEF Steps, CreationSteps
    <3>3. \A a \in Live' : a \in Live \/ \E o \in Requests : req'[o].app = a /\ Steps(req'[o])
      BY <3>1, <3>2
    <3>4. \A a \in Live', o \in Requests : req[o].app = a /\ Steps(req[o])
             => \E b \in Requests : req'[b].app = a /\ Steps(req'[b])
      BY <1>1, <2>2, <3>1
    <3> QED BY <3>1, <3>3, <3>4 DEF BackingKept
  <2>4. CASE ~q.valid
    <3>1. app' = app /\ provided' = provided /\ \E n : Become(p, n)
      BY <1>1, <1>5, <2>4 DEF SaveApplication, Finish, Goto
    <3> QED BY <1>3, <2>2, <3>1 DEF Live
  <2> QED BY <2>3, <2>4
<1>6. ASSUME SaveResolves(p)  PROVE BackingKept
  <2>1. PICK n : n = [q EXCEPT !.pc = "assign"]
    OBVIOUS
  <2>2. n.pc = "assign" /\ n.app = q.app
    BY <1>2, <2>1 DEF ReqType
  <2>3. Become(p, n) /\ Steps(n)
    BY <1>1, <1>6, <2>1, <2>2 DEF SaveResolves, Goto, Steps, CreationSteps
  <2>4. Live' = Live /\ provided' = provided
    BY <1>6 DEF SaveResolves, Live
  <2> QED BY <1>1, <2>2, <2>3, <2>4, StepsGoOn
<1>7. ASSUME FindProvider(p)  PROVE BackingKept
  <2>1. Live' = Live /\ provided' = provided /\ req[p].row # "none"
    BY <1>7 DEF FindProvider, Live
  <2>2. NoOrganization(p) \/ Become(p, [req[p] EXCEPT !.row = "create"])
    BY <1>7 DEF FindProvider
  <2> QED BY <2>1, <2>2, NoOrganizationKeepsBacking, NextStageKeepsBacking
<1>8. ASSUME CreateProviderRow(p)  PROVE BackingKept
  <2>1. Live' = Live /\ provided \subseteq provided' /\ req[p].row # "none"
    BY <1>8 DEF CreateProviderRow, Live
  <2>2. \/ NoOrganization(p) /\ provided' = provided
        \/ Become(p, [req[p] EXCEPT !.row = "made"])
    BY <1>8 DEF CreateProviderRow
  <2> QED BY <2>1, <2>2, NoOrganizationKeepsBacking, NextStageKeepsBacking
<1>9. ASSUME UndoCreation(p)  PROVE BackingKept
  <2>1. Live' = Live \ {q.app} /\ provided' = {w \in provided : w[1] # q.app}
    BY <1>1, <1>9, DestroyIs, TypeTables DEF UndoCreation, Destroy
  <2>2. \A o \in Requests \ {p} : req'[o] = req[o]
    BY <1>9, OnlyOne DEF UndoCreation, Finish
  <2>3. ProvidersKept
    BY <2>1 DEF ProvidersKept
  <2> QED BY <1>1, <2>1, <2>2, <2>3, StepsOver
<1> QED BY <1>4, <1>5, <1>6, <1>7, <1>8, <1>9, AssignKeepsBacking DEF Creating

LEMMA AccountsKeepBacking ==
  ASSUME TypeInv, ApplicationHistory, DeleteAccount \/ LoseOrganization
  PROVE  BackingKept
<1>1. req' = req /\ Live' = Live
  BY DEF DeleteAccount, LoseOrganization, Live
<1>2. ASSUME NEW w \in provided, w[1] \in Live'  PROVE w \in provided' \/ w[1] \in excused'
  <2>1. CASE DeleteAccount
    <3>1. PICK u \in users : users' = users \ {u} /\ provided' = {x \in provided : x[2] # u}
      BY <2>1, DeleteAccountIs
    <3>2. CASE w[2] = u
      <4>1. w = <<w[1], u>>
        BY <3>2 DEF TypeInv, ApplicationsTypeOK
      <4>2. u \in users \ users' /\ <<w[1], u>> \in provided
        BY <3>1, <4>1
      <4>3. \A a \in DOMAIN app' : (\E x \in users \ users' : <<a, x>> \in provided) => a \in excused'
        BY DEF ApplicationHistory
      <4> QED BY <1>2, <4>2, <4>3 DEF Live
    <3> QED BY <3>1, <3>2
  <2>2. CASE LoseOrganization
    BY <2>2 DEF LoseOrganization
  <2> QED BY <2>1, <2>2
<1>3. \A a \in Live', o \in Requests : req[o].app = a /\ Steps(req[o])
         => \E b \in Requests : req'[b].app = a /\ Steps(req'[b])
  BY <1>1
<1> QED BY <1>1, <1>2, <1>3 DEF BackingKept

LEMMA ProviderStep ==
  TypeInv /\ CreationInv /\ ApplicationsHaveAProvider
     /\ [ApplicationStep /\ ApplicationHistory]_applicationVars => ApplicationsHaveAProvider'
<1>1. ASSUME TypeInv, CreationInv, ApplicationsHaveAProvider, ApplicationStep, ApplicationHistory
      PROVE  ApplicationsHaveAProvider'
  <2>1. BackingKept
    BY <1>1, CreatingKeepsBacking, OnlookersKeepBacking, AccountsKeepBacking
       DEF ApplicationStep, Onlooker
  <2> QED BY <1>1, <2>1, ProviderFrame
<1>2. ASSUME ApplicationsHaveAProvider, UNCHANGED applicationVars
      PROVE  ApplicationsHaveAProvider'
  BY <1>2 DEF applicationVars, creation, ApplicationsHaveAProvider, Live
<1> QED BY <1>1, <1>2

\* An application has a provider, whatever fails between its row and the assignment; left
\* over are those whose provider's account was deleted, or turned out to be gone when the
\* API had answered already, and those whose creation the end of the process cut short.
THEOREM ProvidersAreKept == ApplicationSpec => []ApplicationsHaveAProvider
<1>1. ASSUME ApplicationInit  PROVE CreationInv /\ ApplicationsHaveAProvider
  <2>1. PICK s \in Starts[group] : app = s.app /\ provided = s.provided
    BY <1>1 DEF ApplicationInit
  <2>2. SoundStart(s)
    BY <1>1, <2>1, StartsAssumption DEF ApplicationInit
  <2>3. ApplicationsHaveAProvider
    BY <2>1, <2>2 DEF SoundStart, ApplicationsHaveAProvider, Live
  <2>4. \A p \in Requests : req[p].pc = "idle" /\ req[p].row = "none"
    BY <1>1, QuietType DEF ApplicationInit
  <2>5. "idle" \notin CreationPcs
    BY DEF CreationPcs
  <2>6. CreationInv
    BY <2>4, <2>5 DEF CreationInv, At
  <2> QED BY <2>3, <2>6
<1> QED BY <1>1, TypeInitially, TypeStep, CreationStep, ProviderStep, PTL DEF ApplicationSpec

(***************************************************************************)
(* Images.  No two rows name the same uploaded image; an upload's name is  *)
(* its own until a row takes it; and an image that some handler has loaded *)
(* is named by no row but the one it was loaded from, and by none at all   *)
(* once the handler is about to unlink it.                                 *)
(***************************************************************************)
Unlinks == {"unlinkOld", "unlinkOfApplication"}

RowsApart == \A a, b \in Live : app[a].image = app[b].image /\ app[a].image \in Images => a = b
UploadsApart == \A p \in Requests : req[p].pc \in UploadPcs =>
    /\ req[p].pc # "unlinkNew" => req[p].file \in files
    /\ \A a \in Live : app[a].image # req[p].file
    /\ \A o \in Requests : req[o].copy # None => req[o].copy.image # req[p].file
    /\ \A o \in Requests \ {p} : req[o].pc \in UploadPcs => req[o].file # req[p].file
CopiesApart == \A p \in Requests, a \in Live :
    req[p].copy # None /\ app[a].image = req[p].copy.image /\ app[a].image \in Images =>
        a = req[p].app /\ req[p].pc \notin Unlinks
ImagesInv == RowsApart /\ UploadsApart /\ CopiesApart

\* What most steps do to the rows' images, and to the requests that have loaded some.
NoNewImage == \A a \in Live' : \/ app'[a].image = "default"
                               \/ a \in Live /\ app'[a].image = app[a].image
CopyKept(o) == req'[o].copy # None =>
    \/ /\ req'[o].copy = req[o].copy /\ req'[o].app = req[o].app
       /\ req'[o].pc \in Unlinks => req[o].pc \in Unlinks
    \/ /\ req'[o].app \in Live /\ req'[o].copy = app[req'[o].app]
       /\ req'[o].pc \notin Unlinks
UploadKept(o) == req'[o].pc \in UploadPcs =>
    /\ req[o].pc \in UploadPcs /\ req'[o].file = req[o].file
    /\ req'[o].pc # "unlinkNew" => req[o].pc # "unlinkNew" /\ (req[o].file \in files => req[o].file \in files')

LEMMA ImagesFrame ==
  ASSUME TypeInv, ImagesInv, NoNewImage, \A o \in Requests : CopyKept(o) /\ UploadKept(o)
  PROVE  ImagesInv'
<1>1. "default" \notin Images
  BY FreshAssumption
<1>2. \A a \in Live' : app'[a].image \in Images => a \in Live /\ app'[a].image = app[a].image
  BY <1>1 DEF NoNewImage
<1>3. RowsApart'
  BY <1>2 DEF ImagesInv, RowsApart
<1>4. ASSUME NEW p \in Requests, req'[p].pc \in UploadPcs
      PROVE  /\ req'[p].pc # "unlinkNew" => req'[p].file \in files'
             /\ \A a \in Live' : app'[a].image # req'[p].file
             /\ \A o \in Requests : req'[o].copy # None => req'[o].copy.image # req'[p].file
             /\ \A o \in Requests \ {p} : req'[o].pc \in UploadPcs => req'[o].file # req'[p].file
  <2>1. req[p].pc \in UploadPcs /\ req'[p].file = req[p].file
    BY <1>4 DEF UploadKept
  <2>2. req[p].file \in Images
    BY <2>1 DEF TypeInv, WellFormed
  <2>3. req'[p].pc # "unlinkNew" => req'[p].file \in files'
    BY <1>4, <2>1 DEF UploadKept, ImagesInv, UploadsApart
  <2>4. \A a \in Live' : app'[a].image # req'[p].file
    BY <1>2, <2>1, <2>2 DEF ImagesInv, UploadsApart
  <2>5. ASSUME NEW o \in Requests, req'[o].copy # None  PROVE req'[o].copy.image # req'[p].file
    BY <2>1, <2>5 DEF CopyKept, ImagesInv, UploadsApart
  <2>6. ASSUME NEW o \in Requests \ {p}, req'[o].pc \in UploadPcs
        PROVE  req'[o].file # req'[p].file
    BY <2>1, <2>6 DEF UploadKept, ImagesInv, UploadsApart
  <2> QED BY <2>3, <2>4, <2>5, <2>6
<1>5. ASSUME NEW p \in Requests, NEW a \in Live', req'[p].copy # None,
             app'[a].image = req'[p].copy.image, app'[a].image \in Images
      PROVE  a = req'[p].app /\ req'[p].pc \notin Unlinks
  <2>1. a \in Live /\ app'[a].image = app[a].image
    BY <1>2, <1>5
  <2> QED BY <1>5, <2>1 DEF CopyKept, ImagesInv, CopiesApart, RowsApart
<1> QED BY <1>3, <1>4, <1>5 DEF ImagesInv, UploadsApart, CopiesApart

\* A request that is left as it was keeps what it had, and so does the end of them all.
LEMMA SameKept ==
  ASSUME NEW o \in Requests, req'[o] = req[o], files \subseteq files'
  PROVE  CopyKept(o) /\ UploadKept(o)
  BY DEF CopyKept, UploadKept

LEMMA QuietKept ==
  ASSUME NEW o \in Requests, req'[o].copy = None, req'[o].pc \notin UploadPcs
  PROVE  CopyKept(o) /\ UploadKept(o)
  BY DEF CopyKept, UploadKept

LEMMA DieKept ==
  ASSUME Die, NEW o \in Requests
  PROVE  CopyKept(o) /\ UploadKept(o)
<1>1. "idle" \notin UploadPcs /\ "lost" \notin UploadPcs
  BY DEF UploadPcs
<1> QED BY <1>1, DieLeaves, QuietKept

LEMMA FinishKept ==
  ASSUME TypeInv, NEW p \in Requests, Finish(p), NEW o \in Requests, files \subseteq files'
  PROVE  CopyKept(o) /\ UploadKept(o)
<1>1. Quiet.copy = None /\ Quiet.pc \notin UploadPcs
  <2>1. "idle" \notin UploadPcs
    BY DEF UploadPcs
  <2> QED BY <2>1, QuietType
<1>2. req'[p] = Quiet /\ \A x \in Requests \ {p} : req'[x] = req[x]
  BY OnlyOne DEF Finish
<1>3. CASE o = p
  BY <1>1, <1>2, <1>3, QuietKept
<1> QED BY <1>2, <1>3, SameKept

LEMMA ComesKept ==
  ASSUME TypeInv, NEW p \in Requests, NEW pcs, Comes(p, pcs), files \subseteq files',
         \A pc \in pcs : pc \notin PicturePcs,
         NEW o \in Requests
  PROVE  CopyKept(o) /\ UploadKept(o)
<1>1. PICK n \in ReqType : /\ Become(p, n) /\ n.pc \in pcs \union {"idle"}
                           /\ Begun(n) \/ GoesOn(req[p], n)
  BY DEF Comes
<1>2. n.pc \notin Unlinks /\ n.pc \notin UploadPcs
  BY <1>1, PartsApart DEF Unlinks, PicturePcs
<1>3. req'[p] = n /\ \A x \in Requests \ {p} : req'[x] = req[x]
  BY <1>1, OnlyOne
<1>4. CASE o = p
  BY <1>1, <1>2, <1>3, <1>4 DEF CopyKept, UploadKept, Begun, GoesOn
<1> QED BY <1>3, <1>4, SameKept

LEMMA CreatesKept ==
  ASSUME TypeInv, NEW p \in Requests, Creating(p), files \subseteq files', NEW o \in Requests
  PROVE  CopyKept(o) /\ UploadKept(o)
<1>1. CASE Creates(p)
  <2>1. PICK n \in ReqType : /\ Become(p, n) /\ n.pc \in CreationPcs
                             /\ Founds(n) \/ Unwinds(req[p], n)
    BY <1>1 DEF Creates
  <2>2. n.pc \notin Unlinks /\ n.pc \notin UploadPcs
    BY <2>1, PartsApart DEF Unlinks, PicturePcs
  <2>3. req'[p] = n /\ \A x \in Requests \ {p} : req'[x] = req[x]
    BY <2>1, OnlyOne
  <2>4. CASE o = p
    BY <2>1, <2>2, <2>3, <2>4 DEF CopyKept, UploadKept, Founds, Unwinds
  <2> QED BY <2>3, <2>4, SameKept
<1> QED BY <1>1, CreatingComes, FinishKept, DieKept

\* No step but that of an upload gives a row an image that it did not name before.
LEMMA ImageWritten ==
  ASSUME TypeInv, NEW a, NEW row, Write(a, row),
         a \in Live => row.image = app[a].image \/ row.image = "default"
  PROVE  NoNewImage
<1>1. \A x \in Live' : x \in Live /\ (app'[x] = app[x] \/ (x = a /\ app'[x] = row))
  BY DEF Write, Live, TypeInv
<1> QED BY <1>1 DEF NoNewImage

LEMMA ImageSame ==
  ASSUME app' = app
  PROVE  NoNewImage
  BY DEF NoNewImage, Live

LEMMA ImageDestroyed ==
  ASSUME TypeInv, NEW a, Destroy(a)
  PROVE  NoNewImage
<1>1. \A x \in Live' : x \in Live /\ app'[x] = app[x]
  BY DestroyIs, TypeTables
<1> QED BY <1>1 DEF NoNewImage

LEMMA CreatingImages ==
  ASSUME TypeInv, NEW p \in Requests, Creating(p)
  PROVE  NoNewImage
<1>1. CASE app' = app
  BY <1>1, ImageSame
<1>2. CASE UndoCreation(p)
  BY <1>2, ImageDestroyed DEF UndoCreation
<1>3. CASE app' # app /\ ~UndoCreation(p)
  <2>1. SaveApplication(p)
    BY <1>3 DEF Creating, WebCreate, ApiCreate, SaveResolves, FindProvider, CreateProviderRow,
       AssignProvider
  <2>2. PICK s \in FreshSecret(None) :
           app' = [x \in Live \union {req[p].app} |->
                     IF x = req[p].app THEN NewRow(req[p].choice, s) ELSE app[x]]
    BY <1>3, <2>1 DEF SaveApplication
  <2>3. PICK row : row = NewRow(req[p].choice, s)
    OBVIOUS
  <2>4. row.image = "default"
    BY <2>3 DEF NewRow
  <2>5. \A x \in Live' : (x \in Live /\ app'[x] = app[x]) \/ app'[x] = row
    BY <2>2, <2>3 DEF Live
  <2> QED BY <2>4, <2>5 DEF NoNewImage
<1> QED BY <1>1, <1>2, <1>3

LEMMA UpdatingImages ==
  ASSUME TypeInv, NEW p \in Requests, Updating(p)
  PROVE  NoNewImage
<1>1. PICK a : a = req[p].app
  OBVIOUS
<1>2. PICK now : now = Now(p)
  OBVIOUS
<1>3. a \in Live => now = app[a] /\ now \in AppRow
  BY <1>1, <1>2 DEF Now, TypeInv
<1>4. ASSUME NEW row, Write(a, row), now \in AppRow => row.image \in {now.image, "default"}
      PROVE  NoNewImage
  BY <1>3, <1>4, ImageWritten
<1>5. CASE app' = app
  BY <1>5, ImageSame
<1>6. ASSUME app' # app
      PROVE  \/ UpdateInfo(p) \/ ChangeTokenType(p)
             \/ ResetJwtSecret(p) /\ req[p].copy.jwt
             \/ FlushUpdate(p) /\ req[p].valid
  BY <1>6 DEF Updating, ApplicationRequest, ResetJwtSecret, Update, FlushUpdate
<1>7. ASSUME UpdateInfo(p) \/ (ResetJwtSecret(p) /\ req[p].copy.jwt)  PROVE NoNewImage
  <2>1. PICK s : Write(a, [now EXCEPT !.secret = s])
    BY <1>1, <1>2, <1>7 DEF UpdateInfo, ResetJwtSecret
  <2>2. PICK row : row = [now EXCEPT !.secret = s]
    OBVIOUS
  <2>3. now \in AppRow => row.image = now.image
    BY <2>2 DEF AppRow
  <2> QED BY <1>4, <2>1, <2>2, <2>3
<1>8. ASSUME ChangeTokenType(p)  PROVE NoNewImage
  <2>1. PICK b, s : Write(a, [now EXCEPT !.jwt = b, !.secret = s])
    <3>1. PICK t \in FreshSecret(now.secret) : Write(a, [now EXCEPT
              !.jwt = req[p].choice = "jwt", !.secret = IF req[p].choice = "jwt" THEN t ELSE None])
      BY <1>1, <1>2, <1>8 DEF ChangeTokenType
    <3>2. PICK s : s = IF req[p].choice = "jwt" THEN t ELSE None
      OBVIOUS
    <3>3. PICK b : b = (req[p].choice = "jwt")
      OBVIOUS
    <3>4. Write(a, [now EXCEPT !.jwt = b, !.secret = s])
      BY <3>1, <3>2, <3>3, Zenon
    <3> QED BY <3>4
  <2>2. PICK row : row = [now EXCEPT !.jwt = b, !.secret = s]
    OBVIOUS
  <2>3. now \in AppRow => row.image = now.image
    BY <2>2 DEF AppRow
  <2> QED BY <1>4, <2>1, <2>2, <2>3
<1>9. ASSUME FlushUpdate(p), req[p].valid  PROVE NoNewImage
  <2>1. PICK jwt, secret : Write(a, [jwt |-> jwt, secret |-> secret,
              image |-> IF req[p].copy.image = "default" THEN now.image ELSE "default"])
    BY <1>1, <1>2, <1>9, Zenon DEF FlushUpdate
  <2>2. PICK row : row = [jwt |-> jwt, secret |-> secret,
              image |-> IF req[p].copy.image = "default" THEN now.image ELSE "default"]
    OBVIOUS
  <2>3. row.image \in {now.image, "default"}
    BY <2>2
  <2> QED BY <1>4, <2>1, <2>2, <2>3
<1> QED BY <1>5, <1>6, <1>7, <1>8, <1>9

\* The parts that have nothing to do with images.
Aloof(p) == Creating(p) \/ Updating(p) \/ Equipping(p) \/ Authenticating(p) \/ Trusting(p) \/ Reviving(p)

LEMMA AloofImages ==
  ASSUME TypeInv, NEW p \in Requests, Aloof(p)
  PROVE  NoNewImage /\ files' = files
<1>1. NoNewImage
  BY CreatingImages, UpdatingImages, AppsLeft, ImageSame DEF Aloof
<1>2. files' = files
  <2>1. CASE Creating(p)
    BY <2>1 DEF Creating, WebCreate, ApiCreate, SaveApplication, SaveResolves, FindProvider,
       CreateProviderRow, AssignProvider, UndoCreation, Untouched
  <2>2. CASE Updating(p)
    BY <2>2 DEF Updating, ApplicationRequest, UpdateInfo, ChangeTokenType, ResetJwtSecret, Update,
       FlushUpdate, Untouched
  <2>3. CASE Equipping(p)
    BY <2>3, EquippingIs DEF Beside
  <2>4. CASE Authenticating(p)
    BY <2>4, AuthenticatingIs DEF Aside
  <2>5. CASE Trusting(p)
    BY <2>5 DEF Trusting, TrustRequest, DestroyTrusts, BulkCreateTrusts, AddTrusted, RemoveTrusted,
       Apart
  <2>6. CASE Reviving(p)
    BY <2>6 DEF Reviving, Untouched
  <2> QED BY <2>1, <2>2, <2>3, <2>4, <2>5, <2>6 DEF Aloof
<1> QED BY <1>1, <1>2

LEMMA AloofRequests ==
  ASSUME TypeInv, NEW p \in Requests, Aloof(p)
  PROVE  \A o \in Requests : CopyKept(o) /\ UploadKept(o)
<1>1. files \subseteq files'
  BY AloofImages
<1>2. ASSUME NEW pcs, Comes(p, pcs) \/ Finish(p) \/ Die, \A pc \in pcs : pc \notin PicturePcs
      PROVE  \A o \in Requests : CopyKept(o) /\ UploadKept(o)
  BY <1>1, <1>2, ComesKept, FinishKept, DieKept
<1>3. /\ \A pc \in UpdatePcs : pc \notin PicturePcs
      /\ \A pc \in TokenPcs \union TrustPcs : pc \notin PicturePcs
      /\ \A pc \in MachinePcs : pc \notin PicturePcs
  BY PartsApart DEF MachinePcs
<1>4. CASE Creating(p)
  BY <1>1, <1>4, CreatesKept
<1>5. CASE Updating(p)
  BY <1>2, <1>3, <1>5, UpdatingComes
<1>6. CASE Equipping(p)
  BY <1>2, <1>3, <1>6, EquippingComes
<1>7. CASE Authenticating(p)
  BY <1>2, <1>3, <1>7, AuthenticatingComes
<1>8. CASE Trusting(p)
  BY <1>2, <1>3, <1>8, TrustingComes
<1>9. CASE Reviving(p)
  <2>1. Finish(p)
    BY <1>9 DEF Reviving, Restart
  <2> QED BY <1>1, <2>1, FinishKept
<1> QED BY <1>4, <1>5, <1>6, <1>7, <1>8, <1>9 DEF Aloof

(***************************************************************************)
(* The steps of uploads and removals.                                      *)
(***************************************************************************)
\* What the step unlinks is no upload that the others wait for.
UploadsLeft(p) == \A o \in Requests \ {p} :
    req[o].pc \in UploadPcs /\ req[o].file \in files => req[o].file \in files'

LEMMA OthersKept ==
  ASSUME NEW p \in Requests, NEW o \in Requests \ {p}, UploadsLeft(p), req'[o] = req[o]
  PROVE  CopyKept(o) /\ UploadKept(o)
  BY DEF CopyKept, UploadKept, UploadsLeft

LEMMA FinishRemoves ==
  ASSUME TypeInv, NEW p \in Requests, Finish(p), UploadsLeft(p)
  PROVE  \A o \in Requests : CopyKept(o) /\ UploadKept(o)
<1>1. Quiet.copy = None /\ Quiet.pc \notin UploadPcs
  <2>1. "idle" \notin UploadPcs
    BY DEF UploadPcs
  <2> QED BY <2>1, QuietType
<1>2. req'[p] = Quiet /\ \A x \in Requests \ {p} : req'[x] = req[x]
  BY OnlyOne DEF Finish
<1>3. CopyKept(p) /\ UploadKept(p)
  BY <1>1, <1>2, QuietKept
<1> QED BY <1>2, <1>3, OthersKept

\* A request that goes on to another program counter.
Moves(p, pc) ==
    /\ req'[p].pc = pc /\ req'[p].app = req[p].app /\ req'[p].copy = req[p].copy
    /\ req'[p].file = req[p].file
    /\ \A o \in Requests \ {p} : req'[o] = req[o]

LEMMA GotoMoves ==
  ASSUME TypeInv, NEW p \in Requests, NEW pc \in PicturePcs, Goto(p, pc)
  PROVE  Moves(p, pc)
<1>1. PICK q : q = req[p]
  OBVIOUS
<1>2. pc \in Pcs /\ q \in ReqType
  BY <1>1 DEF Pcs, TypeInv
<1>3. PICK n \in ReqType : Become(p, n) /\ n = [q EXCEPT !.pc = pc]
  BY <1>1, <1>2, GotoIs
<1>4. n.pc = pc /\ n.app = q.app /\ n.copy = q.copy /\ n.file = q.file
  BY <1>2, <1>3, GotoKeeps
<1>5. req'[p] = n /\ \A o \in Requests \ {p} : req'[o] = req[o]
  BY <1>3, OnlyOne
<1> QED BY <1>1, <1>4, <1>5 DEF Moves

LEMMA MovesKept ==
  ASSUME TypeInv, NEW p \in Requests, NEW pc, Moves(p, pc), UploadsLeft(p),
         pc \notin Unlinks,
         pc \in UploadPcs =>
            /\ req[p].pc \in UploadPcs /\ files \subseteq files'
            /\ pc # "unlinkNew" => req[p].pc # "unlinkNew"
  PROVE  \A o \in Requests : CopyKept(o) /\ UploadKept(o)
<1>1. CopyKept(p) /\ UploadKept(p)
  BY DEF Moves, CopyKept, UploadKept
<1> QED BY <1>1, OthersKept DEF Moves

\* A name that is loaded, or another upload's, is nothing that an upload waits for.
LEMMA LoadedIsNoUpload ==
  ASSUME TypeInv, ImagesInv, NEW p \in Requests, NEW image, files' = files \ {image},
         \/ req[p].copy # None /\ image \in {req[p].copy.image, FileOf(req[p].copy.image)}
         \/ req[p].pc \in UploadPcs /\ image = req[p].file
  PROVE  UploadsLeft(p)
<1>1. SUFFICES ASSUME NEW o \in Requests \ {p}, req[o].pc \in UploadPcs
               PROVE  req[o].file # image
  BY DEF UploadsLeft
<1>2. req[o].file \in Images /\ "logo" \notin Images
  BY <1>1, FreshAssumption DEF TypeInv, WellFormed
<1> QED BY <1>1, <1>2 DEF ImagesInv, UploadsApart, FileOf

LEMMA UploadImages ==
  ASSUME TypeInv, ImagesInv, NEW p \in Requests, Upload(p)
  PROVE  ImagesInv'
<1>1. PICK a \in Live, f \in FreshImages, n \in ReqType :
            /\ Become(p, n) /\ WellFormed(n)
            /\ n.pc = "check" /\ n.app = a /\ n.copy = app[a] /\ n.file = f /\ n.row = "none"
            /\ files' = files \union {f}
  BY UploadIs
<1>2. req'[p] = n /\ \A x \in Requests \ {p} : req'[x] = req[x]
  BY <1>1, OnlyOne
<1>3. app' = app /\ Live' = Live
  BY DEF Upload, Live
<1>4. /\ f \in Images /\ \A x \in Requests : req[x].file # f
      /\ \A b \in Live : app[b].image # f
      /\ \A x \in Requests : req[x].copy # None => req[x].copy.image # f
  BY DEF FreshImages, Held
<1>5. "check" \in UploadPcs /\ "check" \notin Unlinks
  BY DEF UploadPcs, Unlinks
<1>6. RowsApart'
  BY <1>3 DEF ImagesInv, RowsApart
<1>7. ASSUME NEW x \in Requests, req'[x].pc \in UploadPcs
      PROVE  /\ req'[x].pc # "unlinkNew" => req'[x].file \in files'
             /\ \A b \in Live' : app'[b].image # req'[x].file
             /\ \A o \in Requests : req'[o].copy # None => req'[o].copy.image # req'[x].file
             /\ \A o \in Requests \ {x} : req'[o].pc \in UploadPcs => req'[o].file # req'[x].file
  <2>1. CASE x = p
    BY <1>1, <1>2, <1>3, <1>4, <2>1
  <2>2. CASE x # p
    <3>1. req'[x] = req[x] /\ req[x].pc \in UploadPcs
      BY <1>2, <1>7, <2>2
    <3>2. /\ req[x].pc # "unlinkNew" => req[x].file \in files'
          /\ \A b \in Live' : app'[b].image # req[x].file
      BY <1>1, <1>3, <3>1 DEF ImagesInv, UploadsApart
    <3>3. \A o \in Requests : req'[o].copy # None => req'[o].copy.image # req[x].file
      BY <1>1, <1>2, <3>1 DEF ImagesInv, UploadsApart
    <3>4. \A o \in Requests \ {x} : req'[o].pc \in UploadPcs => req'[o].file # req[x].file
      BY <1>1, <1>2, <1>4, <3>1 DEF ImagesInv, UploadsApart
    <3> QED BY <3>1, <3>2, <3>3, <3>4
  <2> QED BY <2>1, <2>2
<1>8. ASSUME NEW x \in Requests, NEW b \in Live', req'[x].copy # None,
             app'[b].image = req'[x].copy.image, app'[b].image \in Images
      PROVE  b = req'[x].app /\ req'[x].pc \notin Unlinks
  BY <1>1, <1>2, <1>3, <1>5, <1>8 DEF ImagesInv, CopiesApart, RowsApart
<1> QED BY <1>6, <1>7, <1>8 DEF ImagesInv, UploadsApart, CopiesApart

\* The row takes the upload.
SetsImage(p) == LET a == req[p].app IN
    /\ a \in Live /\ Live' = Live /\ app'[a].image = req[p].file
    /\ \A b \in Live \ {a} : app'[b] = app[b]
    /\ UNCHANGED <<files, creation, machinery, trusts>>

LEMMA SetImageIs ==
  ASSUME TypeInv, NEW p \in Requests, SetImage(p), req[p].app \in Live
  PROVE  SetsImage(p) /\ (Finish(p) \/ Moves(p, "unlinkOld"))
<1>1. PICK a \in Live : a = req[p].app
  OBVIOUS
<1>2. PICK row : row = [app[a] EXCEPT !.image = req[p].file]
  OBVIOUS
<1>3. app' = [app EXCEPT ![a] = row]
  BY <1>1, <1>2 DEF SetImage, Write, Now
<1>4. app[a] \in AppRow
  BY DEF TypeInv
<1>5. row.image = req[p].file
  BY <1>2, <1>4 DEF AppRow
<1>6. Live' = Live /\ app'[a] = row /\ \A b \in Live \ {a} : app'[b] = app[b]
  BY <1>3 DEF Live, TypeInv
<1>7. "unlinkOld" \in PicturePcs
  BY DEF PicturePcs
<1>8. Finish(p) \/ Moves(p, "unlinkOld")
  BY <1>1, <1>7, GotoMoves DEF SetImage
<1> QED BY <1>1, <1>5, <1>6, <1>8 DEF SetsImage, SetImage, Elsewhere

LEMMA SetImageImages ==
  ASSUME TypeInv, ImagesInv, NEW p \in Requests, SetImage(p), req[p].app \in Live
  PROVE  ImagesInv'
<1>1. PICK a \in Live : a = req[p].app
  OBVIOUS
<1>2. PICK f : f = req[p].file
  OBVIOUS
<1>3. /\ Live' = Live /\ app'[a].image = f /\ files' = files
      /\ \A b \in Live \ {a} : app'[b] = app[b]
  BY <1>1, <1>2, SetImageIs DEF SetsImage
<1>4. req[p].pc \in UploadPcs /\ req[p].pc # "unlinkNew"
  BY DEF SetImage, At, UploadPcs
<1>5. /\ f \in files
      /\ \A b \in Live : app[b].image # f
      /\ \A o \in Requests : req[o].copy # None => req[o].copy.image # f
      /\ \A o \in Requests \ {p} : req[o].pc \in UploadPcs => req[o].file # f
  BY <1>2, <1>4 DEF ImagesInv, UploadsApart
<1>6. /\ req'[p].pc \notin UploadPcs
      /\ req'[p].copy # None => req'[p].copy = req[p].copy
      /\ \A x \in Requests \ {p} : req'[x] = req[x]
  <2>1. "idle" \notin UploadPcs /\ "unlinkOld" \notin UploadPcs
    BY DEF UploadPcs
  <2>2. CASE Finish(p)
    BY <2>1, <2>2, QuietType, OnlyOne DEF Finish
  <2>3. CASE Moves(p, "unlinkOld")
    BY <2>1, <2>3 DEF Moves
  <2> QED BY <1>1, <2>2, <2>3, SetImageIs
<1>7. RowsApart'
  BY <1>3, <1>5 DEF ImagesInv, RowsApart
<1>8. ASSUME NEW x \in Requests, req'[x].pc \in UploadPcs
      PROVE  /\ req'[x].pc # "unlinkNew" => req'[x].file \in files'
             /\ \A b \in Live' : app'[b].image # req'[x].file
             /\ \A o \in Requests : req'[o].copy # None => req'[o].copy.image # req'[x].file
             /\ \A o \in Requests \ {x} : req'[o].pc \in UploadPcs => req'[o].file # req'[x].file
  <2>1. x # p /\ req'[x] = req[x] /\ req[x].pc \in UploadPcs
    BY <1>6, <1>8
  <2>2. /\ req[x].pc # "unlinkNew" => req[x].file \in files'
        /\ \A b \in Live' : app'[b].image # req[x].file
    BY <1>3, <1>5, <2>1 DEF ImagesInv, UploadsApart
  <2>3. \A o \in Requests : req'[o].copy # None => req'[o].copy.image # req[x].file
    BY <1>6, <2>1 DEF ImagesInv, UploadsApart
  <2>4. \A o \in Requests \ {x} : req'[o].pc \in UploadPcs => req'[o].file # req[x].file
    BY <1>6, <2>1 DEF ImagesInv, UploadsApart
  <2> QED BY <2>1, <2>2, <2>3, <2>4
<1>9. ASSUME NEW x \in Requests, NEW b \in Live', req'[x].copy # None,
             app'[b].image = req'[x].copy.image, app'[b].image \in Images
      PROVE  b = req'[x].app /\ req'[x].pc \notin Unlinks
  <2>1. req[x].copy = req'[x].copy
    BY <1>6, <1>9
  <2>2. b # a
    BY <1>3, <1>5, <1>9, <2>1
  <2>3. b = req[x].app /\ req[x].pc \notin Unlinks
    BY <1>3, <1>9, <2>1, <2>2 DEF ImagesInv, CopiesApart
  <2>4. x # p
    BY <1>1, <2>2, <2>3
  <2> QED BY <1>6, <2>3, <2>4
<1> QED BY <1>7, <1>8, <1>9 DEF ImagesInv, UploadsApart, CopiesApart

LEMMA WebDestroyImages ==
  ASSUME TypeInv, ImagesInv, NEW p \in Requests, WebDestroy(p)
  PROVE  ImagesInv'
<1>1. PICK a : a = req[p].app
  OBVIOUS
<1>2. Live' = Live \ {a} /\ (\A b \in Live' : app'[b] = app[b]) /\ files' = files
  BY <1>1, DestroyIs, TypeTables DEF WebDestroy
<1>3. "unlinkOfApplication" \in PicturePcs /\ "unlinkOfApplication" \notin UploadPcs
  BY DEF PicturePcs, UploadPcs
<1>4. Moves(p, "unlinkOfApplication")
  BY <1>3, GotoMoves DEF WebDestroy
<1>5. /\ req'[p].pc \notin UploadPcs /\ req'[p].copy = req[p].copy /\ req'[p].app = a
      /\ \A x \in Requests \ {p} : req'[x] = req[x]
  BY <1>1, <1>3, <1>4 DEF Moves
<1>6. RowsApart'
  BY <1>2 DEF ImagesInv, RowsApart
<1>7. ASSUME NEW x \in Requests, req'[x].pc \in UploadPcs
      PROVE  /\ req'[x].pc # "unlinkNew" => req'[x].file \in files'
             /\ \A b \in Live' : app'[b].image # req'[x].file
             /\ \A o \in Requests : req'[o].copy # None => req'[o].copy.image # req'[x].file
             /\ \A o \in Requests \ {x} : req'[o].pc \in UploadPcs => req'[o].file # req'[x].file
  <2>1. x # p /\ req'[x] = req[x] /\ req[x].pc \in UploadPcs
    BY <1>5, <1>7
  <2>2. /\ req[x].pc # "unlinkNew" => req[x].file \in files'
        /\ \A b \in Live' : app'[b].image # req[x].file
    BY <1>2, <2>1 DEF ImagesInv, UploadsApart
  <2>3. \A o \in Requests : req'[o].copy # None => req'[o].copy.image # req[x].file
    BY <1>5, <2>1 DEF ImagesInv, UploadsApart
  <2>4. \A o \in Requests \ {x} : req'[o].pc \in UploadPcs => req'[o].file # req[x].file
    BY <1>5, <2>1 DEF ImagesInv, UploadsApart
  <2> QED BY <2>1, <2>2, <2>3, <2>4
<1>8. ASSUME NEW x \in Requests, NEW b \in Live', req'[x].copy # None,
             app'[b].image = req'[x].copy.image, app'[b].image \in Images
      PROVE  b = req'[x].app /\ req'[x].pc \notin Unlinks
  <2>1. b = req[x].app /\ req[x].pc \notin Unlinks
    BY <1>2, <1>5, <1>8 DEF ImagesInv, CopiesApart
  <2>2. x # p
    BY <1>1, <1>2, <2>1
  <2> QED BY <1>5, <2>1, <2>2
<1> QED BY <1>6, <1>7, <1>8 DEF ImagesInv, UploadsApart, CopiesApart

\* An image that a row is about to be told of.
LEMMA ClearImageIs ==
  ASSUME TypeInv, NEW p \in Requests, ClearImage(p)
  PROVE  /\ NoNewImage /\ Finish(p) /\ files' = files /\ At(p, "clearImage")
         /\ req[p].app \in Live' => app'[req[p].app].image = "default"
<1>1. PICK a : a = req[p].app
  OBVIOUS
<1>2. PICK row : row = [Now(p) EXCEPT !.image = "default"]
  OBVIOUS
<1>3. "clearImage" \in PicturePcs
  BY DEF PicturePcs
<1>4. Now(p) \in AppRow
  BY <1>3, NowType DEF ClearImage, At
<1>5. row.image = "default"
  BY <1>2, <1>4 DEF AppRow
<1>6. Write(a, row)
  BY <1>1, <1>2 DEF ClearImage
<1>7. NoNewImage
  BY <1>5, <1>6, ImageWritten
<1>8. a \in Live' => app'[a] = row
  BY <1>6 DEF Write, Live, TypeInv
<1> QED BY <1>1, <1>5, <1>7, <1>8 DEF ClearImage

LEMMA PicturingImages ==
  ASSUME TypeInv, ImagesInv, NEW p \in Requests, Picturing(p)
  PROVE  ImagesInv'
<1>1. ASSUME files' = files  PROVE UploadsLeft(p)
  BY <1>1 DEF UploadsLeft
<1>2. CASE Upload(p)
  BY <1>2, UploadImages
<1>3. CASE CheckImage(p)
  <2>1. /\ {"setImage", "unlinkNew", "check"} \subseteq UploadPcs
        /\ {"setImage", "unlinkNew"} \subseteq PicturePcs
        /\ "setImage" \notin Unlinks /\ "unlinkNew" \notin Unlinks
    BY DEF UploadPcs, PicturePcs, Unlinks
  <2>2. files' = files /\ app' = app /\ req[p].pc = "check"
    BY <1>3 DEF CheckImage, At
  <2>3. Moves(p, "setImage") \/ Moves(p, "unlinkNew")
    BY <1>3, <2>1, GotoMoves DEF CheckImage
  <2>4. \A o \in Requests : CopyKept(o) /\ UploadKept(o)
    BY <1>1, <2>1, <2>2, <2>3, MovesKept
  <2> QED BY <2>2, <2>4, ImageSame, ImagesFrame
<1>4. CASE SetImage(p) /\ req[p].app \in Live
  BY <1>4, SetImageImages
<1>5. CASE SetImage(p) /\ req[p].app \notin Live
  <2>1. {"setImage", "unlinkNew"} \subseteq UploadPcs /\ "unlinkNew" \in PicturePcs
        /\ "unlinkNew" \notin Unlinks
    BY DEF UploadPcs, PicturePcs, Unlinks
  <2>2. files' = files /\ app' = app /\ req[p].pc = "setImage"
    BY <1>5 DEF SetImage, Write, At
  <2>3. Moves(p, "unlinkNew")
    BY <1>5, <2>1, GotoMoves DEF SetImage
  <2>4. \A o \in Requests : CopyKept(o) /\ UploadKept(o)
    BY <1>1, <2>1, <2>2, <2>3, MovesKept
  <2> QED BY <2>2, <2>4, ImageSame, ImagesFrame
<1>6. CASE DeleteImage(p)
  <2>1. app' = app /\ Finish(p)
    BY <1>6 DEF DeleteImage
  <2>2. UploadsLeft(p)
    <3>1. "unlinkOld" \in PicturePcs /\ "unlinkNew" \in UploadPcs
      BY DEF PicturePcs, UploadPcs
    <3>2. req[p].pc = "unlinkOld" => req[p].copy # None
      BY <3>1, RowAssumption DEF TypeInv, WellFormed
    <3>3. CASE At(p, "unlinkOld") /\ files' = files \ {req[p].copy.image}
      BY <3>2, <3>3, LoadedIsNoUpload DEF At
    <3>4. CASE At(p, "unlinkNew") /\ files' = files \ {req[p].file}
      BY <3>1, <3>4, LoadedIsNoUpload DEF At
    <3> QED BY <1>6, <3>3, <3>4 DEF DeleteImage
  <2> QED BY <2>1, <2>2, FinishRemoves, ImageSame, ImagesFrame
<1>7. CASE DeleteAvatar(p)
  <2>1. req[p].copy # None
    <3>1. req[p].pc \in UpdatePcs
      BY <1>7 DEF DeleteAvatar, At, UpdatePcs, ApplicationKinds
    <3> QED BY <3>1, RowAssumption DEF TypeInv, WellFormed
  <2>2. UploadsLeft(p) /\ app' = app
    BY <1>7, <2>1, LoadedIsNoUpload DEF DeleteAvatar
  <2>3. /\ "clearImage" \notin UploadPcs /\ "clearImage" \in PicturePcs
        /\ "clearImage" \notin Unlinks
    BY DEF UploadPcs, PicturePcs, Unlinks
  <2>4. CASE Finish(p)
    BY <2>2, <2>4, FinishRemoves, ImageSame, ImagesFrame
  <2>5. CASE Goto(p, "clearImage")
    <3>1. Moves(p, "clearImage")
      BY <2>3, <2>5, GotoMoves
    <3>2. \A o \in Requests : CopyKept(o) /\ UploadKept(o)
      BY <2>2, <2>3, <3>1, MovesKept
    <3> QED BY <2>2, <3>2, ImageSame, ImagesFrame
  <2> QED BY <1>7, <2>4, <2>5 DEF DeleteAvatar
<1>8. CASE ClearImage(p)
  BY <1>1, <1>8, ClearImageIs, FinishRemoves, ImagesFrame
<1>9. CASE WebDestroy(p)
  BY <1>9, WebDestroyImages
<1>10. CASE UnlinkOfApplication(p)
  <2>1. req[p].copy # None
    <3>1. req[p].pc \in PicturePcs
      BY <1>10 DEF UnlinkOfApplication, At, PicturePcs
    <3> QED BY <3>1, RowAssumption DEF TypeInv, WellFormed
  <2>2. UploadsLeft(p) /\ app' = app /\ Finish(p)
    BY <1>10, <2>1, LoadedIsNoUpload DEF UnlinkOfApplication
  <2> QED BY <2>2, FinishRemoves, ImageSame, ImagesFrame
<1>11. CASE ApiDestroy(p)
  <2>1. NoNewImage
    BY <1>11, ImageDestroyed DEF ApiDestroy
  <2> QED BY <1>1, <1>11, <2>1, FinishRemoves, ImagesFrame DEF ApiDestroy
<1> QED BY <1>2, <1>3, <1>4, <1>5, <1>6, <1>7, <1>8, <1>9, <1>10, <1>11 DEF Picturing

LEMMA ImagesStep ==
  TypeInv /\ ImagesInv /\ [ApplicationStep /\ ApplicationHistory]_applicationVars => ImagesInv'
<1>1. ASSUME TypeInv, ImagesInv, ApplicationStep  PROVE ImagesInv'
  <2>1. ASSUME NEW p \in Requests, Aloof(p)  PROVE ImagesInv'
    BY <1>1, <2>1, AloofImages, AloofRequests, ImagesFrame
  <2>2. ASSUME NEW p \in Requests, Picturing(p)  PROVE ImagesInv'
    BY <1>1, <2>2, PicturingImages
  <2>3. ASSUME DeleteAccount \/ LoseOrganization  PROVE ImagesInv'
    <3>1. req' = req /\ files' = files /\ app' = app
      BY <2>3 DEF DeleteAccount, LoseOrganization
    <3>2. \A o \in Requests : CopyKept(o) /\ UploadKept(o)
      BY <3>1, SameKept
    <3> QED BY <1>1, <3>1, <3>2, ImageSame, ImagesFrame
  <2> QED BY <1>1, <2>1, <2>2, <2>3 DEF ApplicationStep, Aloof
<1>2. ASSUME ImagesInv, UNCHANGED applicationVars  PROVE ImagesInv'
  BY <1>2 DEF applicationVars, ImagesInv, RowsApart, UploadsApart, CopiesApart, Live
<1> QED BY <1>1, <1>2

(***************************************************************************)
(* What the rows name is on disk.                                          *)
(***************************************************************************)
\* The request that is about to tell a row that its image is gone.
Clears(o, image) == At(o, "clearImage") /\ req[o].copy.image = image
ClearsNext(o, image) == req'[o].pc = "clearImage" /\ req'[o].copy.image = image
OnDisk(a) == \/ app[a].image \in files \union {"default", "party"}
             \/ a \in excused
             \/ \E o \in Requests : Clears(o, app[a].image)

\* An image that a row goes on naming stays on disk, or somebody is about to clear it.
DiskKept == \A a \in Live' :
    \/ app'[a].image = "default"
    \/ app'[a].image \in files'
    \/ /\ a \in Live /\ app'[a].image = app[a].image
       /\ app[a].image \in Images /\ app[a].image \in files =>
             app[a].image \in files' \/ \E o \in Requests : ClearsNext(o, app[a].image)
       /\ \A o \in Requests : Clears(o, app[a].image) /\ app[a].image \in Images =>
             ClearsNext(o, app[a].image) \/ a \in excused'

LEMMA DiskFrame ==
  ASSUME TypeInv, ImageIsOnDisk, ApplicationHistory, DiskKept
  PROVE  ImageIsOnDisk'
<1>1. SUFFICES ASSUME NEW a \in Live'
               PROVE  \/ app'[a].image \in files' \union {"default", "party"}
                      \/ a \in excused'
                      \/ \E o \in Requests : ClearsNext(o, app'[a].image)
  BY DEF ImageIsOnDisk, ClearsNext, At
<1>2. CASE /\ a \in Live /\ app'[a].image = app[a].image
           /\ app[a].image \in Images /\ app[a].image \in files =>
                 app[a].image \in files' \/ \E o \in Requests : ClearsNext(o, app[a].image)
           /\ \A o \in Requests : Clears(o, app[a].image) /\ app[a].image \in Images =>
                 ClearsNext(o, app[a].image) \/ a \in excused'
  <2>1. PICK image : image = app[a].image
    OBVIOUS
  <2>2. image \in Images \union {"default", "party"}
    BY <1>2, <2>1 DEF TypeInv, AppRow
  <2>3. a \in excused => a \in excused'
    BY DEF ApplicationHistory, Live
  <2>4. OnDisk(a)
    BY <1>2 DEF ImageIsOnDisk, OnDisk, Clears
  <2>5. CASE image \in Images
    BY <1>2, <2>1, <2>3, <2>4, <2>5, FreshAssumption DEF OnDisk
  <2>6. CASE image \notin Images
    BY <1>2, <2>1, <2>2, <2>6
  <2> QED BY <2>5, <2>6
<1> QED BY <1>2 DEF DiskKept

\* The request that clears an image is at the row that names it.
LEMMA ClearsItsOwn ==
  ASSUME TypeInv, ImagesInv, NEW a \in Live, app[a].image \in Images, NEW o \in Requests,
         Clears(o, app[a].image)
  PROVE  req[o].app = a
<1>1. "clearImage" \in PicturePcs
  BY DEF PicturePcs
<1>2. req[o].copy # None
  BY <1>1, RowAssumption DEF Clears, At, TypeInv, WellFormed
<1> QED BY <1>2 DEF Clears, ImagesInv, CopiesApart

LEMMA DyingClears ==
  ASSUME TypeInv, ImagesInv, ApplicationHistory, Die, NEW a \in Live', a \in Live,
         app[a].image \in Images, NEW o \in Requests, Clears(o, app[a].image)
  PROVE  a \in excused'
<1>1. req[o].app = a /\ req[o].pc = "clearImage"
  BY ClearsItsOwn DEF Clears, At
<1>2. ~At(o, "lost") /\ req'[o].pc = "lost"
  BY <1>1, DieLeaves DEF At
<1>3. PICK lost : lost = {p \in Requests : ~At(p, "lost") /\ req'[p].pc = "lost"}
  OBVIOUS
<1>4. \A b \in DOMAIN app' :
         (\E p \in Requests : req[p].app = b /\ p \in lost /\ req[p].pc \in CreationSteps \union {"clearImage"})
            => b \in excused'
  BY <1>3 DEF ApplicationHistory
<1> QED BY <1>1, <1>2, <1>3, <1>4 DEF Live

\* The others leave a request that is about to clear an image where it is.
ClearingLeft(p) == \A o \in Requests \ {p} : req'[o] = req[o]

LEMMA DiskUnlinked ==
  ASSUME TypeInv, ImagesInv, ApplicationHistory, NEW p \in Requests, NoNewImage,
         Die \/ (ClearingLeft(p) /\ ~At(p, "clearImage")),
         \A a \in Live : app[a].image \in Images /\ app[a].image \in files /\ a \in Live' =>
            app[a].image \in files' \/ \E o \in Requests : ClearsNext(o, app[a].image)
  PROVE  DiskKept
<1>1. SUFFICES ASSUME NEW a \in Live', a \in Live
               PROVE  \A o \in Requests : Clears(o, app[a].image) /\ app[a].image \in Images =>
                         ClearsNext(o, app[a].image) \/ a \in excused'
  BY DEF DiskKept, NoNewImage
<1>2. SUFFICES ASSUME NEW o \in Requests, Clears(o, app[a].image), app[a].image \in Images
               PROVE  ClearsNext(o, app[a].image) \/ a \in excused'
  OBVIOUS
<1>3. CASE Die
  BY <1>1, <1>2, <1>3, DyingClears
<1>4. CASE ClearingLeft(p) /\ ~At(p, "clearImage")
  BY <1>2, <1>4 DEF ClearingLeft, Clears, ClearsNext, At
<1> QED BY <1>3, <1>4

LEMMA AloofActElsewhere ==
  ASSUME TypeInv, NEW p \in Requests, Aloof(p)
  PROVE  ~At(p, "clearImage") /\ (Die \/ ClearingLeft(p))
<1>1. CASE Creating(p)
  <2>1. Die \/ \E n : Become(p, n)
    BY <1>1, CreatingComes DEF Creates, Finish
  <2>2. ~At(p, "clearImage")
    <3>1. "clearImage" \notin CreationPcs
      BY DEF CreationPcs
    <3>2. req[p].row # "none" => req[p].pc \in CreationPcs
      BY DEF TypeInv, WellFormed
    <3>3. CASE WebCreate(p) \/ ApiCreate(p)
      <4>1. \E kind, r : Start(p, kind, r)
        BY <3>3 DEF WebCreate, ApiCreate
      <4> QED BY <4>1 DEF Start, At
    <3>4. CASE FindProvider(p) \/ CreateProviderRow(p)
      BY <3>1, <3>2, <3>4 DEF FindProvider, CreateProviderRow, At
    <3>5. CASE SaveApplication(p) \/ SaveResolves(p) \/ AssignProvider(p) \/ UndoCreation(p)
      BY <3>5 DEF SaveApplication, SaveResolves, AssignProvider, UndoCreation, At
    <3> QED BY <1>1, <3>3, <3>4, <3>5 DEF Creating
  <2> QED BY <2>1, <2>2, OnlyOne DEF ClearingLeft
<1>2. CASE ~Creating(p)
  <2>1. Onlooker(p)
    BY <1>2 DEF Aloof, Onlooker
  <2>2. Die \/ ClearingLeft(p)
    BY <2>1, OnlookersKeepRequests DEF ClearingLeft
  <2>3. CASE Updating(p)
    BY <2>2, <2>3 DEF Updating, ApplicationRequest, UpdateInfo, ChangeTokenType, ResetJwtSecret,
       Update, FlushUpdate, Start, At
  <2>4. CASE Equipping(p)
    <3>1. CASE MachineRequest(p)
      BY <2>2, <3>1 DEF MachineRequest, Start, At
    <3>2. CASE ~MachineRequest(p)
      BY <2>2, <2>4, <3>2 DEF Equipping, RegisterPep, CreatePep, SavePep, RegisterIot, CreateIot,
         ResetPasswordPep, ResetPasswordIot, UpdatePep, UpdateIot, DeletePep, DeleteIot,
         DestroyPep, DestroyIot, At
    <3> QED BY <3>1, <3>2
  <2>5. CASE Authenticating(p)
    <3>1. CASE CreateTokenRequest(p)
      BY <2>2, <3>1 DEF CreateTokenRequest, Start, At
    <3>2. CASE DeleteTokenRequest(p)
      BY <2>2, <3>2 DEF DeleteTokenRequest, Start, At
    <3>3. CASE SearchIdentity(p) \/ SearchTokenOwner(p) \/ CreateToken(p) \/ DeleteToken(p)
      <4>1. req[p].pc \in {"createToken", "deleteToken"}
        BY <3>3 DEF SearchIdentity, SearchTokenOwner, CreateToken, DeleteToken, At
      <4> QED BY <2>2, <4>1 DEF At
    <3> QED BY <2>5, <3>1, <3>2, <3>3 DEF Authenticating
  <2>6. CASE Trusting(p)
    BY <2>2, <2>6 DEF Trusting, TrustRequest, DestroyTrusts, BulkCreateTrusts, AddTrusted,
       RemoveTrusted, Start, At
  <2>7. CASE Reviving(p)
    BY <2>2, <2>7 DEF Reviving, Restart, At
  <2> QED BY <1>2, <2>3, <2>4, <2>5, <2>6, <2>7 DEF Aloof
<1> QED BY <1>1, <1>2

\* No row names what a handler is about to unlink.
LEMMA UnlinksNothingNamed ==
  ASSUME TypeInv, ImagesInv, NEW p \in Requests, NEW a \in Live, app[a].image \in Images,
         \/ req[p].pc \in Unlinks /\ app[a].image = req[p].copy.image
         \/ req[p].pc \in UploadPcs /\ app[a].image = req[p].file
  PROVE  FALSE
<1>1. CASE req[p].pc \in Unlinks /\ app[a].image = req[p].copy.image
  <2>1. req[p].pc \in PicturePcs
    BY <1>1 DEF Unlinks, PicturePcs
  <2>2. req[p].copy # None
    BY <2>1, RowAssumption DEF TypeInv, WellFormed
  <2> QED BY <1>1, <2>2 DEF ImagesInv, CopiesApart
<1> QED BY <1>1 DEF ImagesInv, UploadsApart

LEMMA PicturingDisk ==
  ASSUME TypeInv, ImagesInv, ApplicationHistory, NEW p \in Requests, Picturing(p)
  PROVE  DiskKept
<1>1. ASSUME NEW n, Become(p, n)  PROVE ClearingLeft(p)
  BY <1>1, OnlyOne DEF ClearingLeft
<1>2. ASSUME NoNewImage, \E n : Become(p, n), ~At(p, "clearImage"), files \subseteq files'
      PROVE  DiskKept
  BY <1>1, <1>2, DiskUnlinked
<1>3. CASE Upload(p)
  <2>1. app' = app /\ files \subseteq files' /\ \E kind, r : Start(p, kind, r)
    BY <1>3 DEF Upload
  <2>2. ~At(p, "clearImage") /\ \E n : Become(p, n)
    BY <2>1 DEF Start, At
  <2> QED BY <1>2, <2>1, <2>2, ImageSame
<1>4. CASE CheckImage(p)
  <2>1. app' = app /\ files' = files /\ ~At(p, "clearImage") /\ \E n : Become(p, n)
    BY <1>4 DEF CheckImage, Goto, At
  <2> QED BY <1>2, <2>1, ImageSame
<1>5. CASE SetImage(p) /\ req[p].app \notin Live
  <2>1. app' = app /\ files' = files /\ ~At(p, "clearImage") /\ \E n : Become(p, n)
    BY <1>5 DEF SetImage, Write, Goto, At
  <2> QED BY <1>2, <2>1, ImageSame
<1>6. CASE SetImage(p) /\ req[p].app \in Live
  <2>1. PICK a \in Live : a = req[p].app
    BY <1>6
  <2>2. /\ Live' = Live /\ app'[a].image = req[p].file /\ files' = files
        /\ \A b \in Live \ {a} : app'[b] = app[b]
    BY <1>6, <2>1, SetImageIs DEF SetsImage
  <2>3. req[p].pc \in UploadPcs /\ req[p].pc # "unlinkNew" /\ req[p].pc # "clearImage"
    BY <1>6 DEF SetImage, At, UploadPcs
  <2>4. app'[a].image \in files'
    BY <2>2, <2>3 DEF ImagesInv, UploadsApart
  <2>5. ClearingLeft(p)
    BY <1>6, SetImageIs, OnlyOne DEF ClearingLeft, Finish, Moves
  <2>6. ASSUME NEW b \in Live \ {a}, NEW o \in Requests, Clears(o, app[b].image)
        PROVE  ClearsNext(o, app[b].image)
    BY <2>3, <2>5, <2>6 DEF ClearingLeft, Clears, ClearsNext, At
  <2> QED BY <2>2, <2>4, <2>6 DEF DiskKept
<1>7. CASE DeleteImage(p)
  <2>1. app' = app /\ ~At(p, "clearImage") /\ \E n : Become(p, n)
    BY <1>7 DEF DeleteImage, Finish, At
  <2>2. "unlinkOld" \in Unlinks /\ "unlinkNew" \in UploadPcs
    BY DEF Unlinks, UploadPcs
  <2>3. \A a \in Live : app[a].image \in Images /\ app[a].image \in files => app[a].image \in files'
    BY <1>7, <2>2, UnlinksNothingNamed DEF DeleteImage, At
  <2> QED BY <1>1, <2>1, <2>3, ImageSame, DiskUnlinked
<1>8. CASE DeleteAvatar(p)
  <2>1. app' = app /\ ~At(p, "clearImage") /\ \E n : Become(p, n)
    BY <1>8 DEF DeleteAvatar, Finish, Goto, At
  <2>2. PICK image : image = req[p].copy.image
    OBVIOUS
  <2>3. ASSUME NEW a \in Live, app[a].image \in Images, app[a].image \in files,
               app[a].image \notin files'
        PROVE  \E o \in Requests : ClearsNext(o, app[a].image)
    <3>1. app[a].image = FileOf(image) /\ "logo" \notin Images
      BY <1>8, <2>2, <2>3, FreshAssumption DEF DeleteAvatar
    <3>2. app[a].image = image
      BY <2>3, <3>1 DEF FileOf
    <3>3. Goto(p, "clearImage")
      BY <1>8, <2>2, <2>3, <3>1 DEF DeleteAvatar
    <3>4. "clearImage" \in PicturePcs
      BY DEF PicturePcs
    <3>5. Moves(p, "clearImage")
      BY <3>3, <3>4, GotoMoves
    <3>6. ClearsNext(p, app[a].image)
      BY <2>2, <3>2, <3>5 DEF Moves, ClearsNext
    <3> QED BY <3>6
  <2> QED BY <1>1, <2>1, <2>3, ImageSame, DiskUnlinked
<1>9. CASE ClearImage(p)
  <2>1. /\ NoNewImage /\ Finish(p) /\ files' = files /\ At(p, "clearImage")
        /\ req[p].app \in Live' => app'[req[p].app].image = "default"
    BY <1>9, ClearImageIs
  <2>2. ClearingLeft(p)
    BY <1>1, <2>1 DEF Finish
  <2>3. ASSUME NEW a \in Live', app'[a].image # "default", a \in Live, app'[a].image = app[a].image,
               NEW o \in Requests, Clears(o, app[a].image), app[a].image \in Images
        PROVE  ClearsNext(o, app[a].image)
    <3>1. req[o].app = a
      BY <2>3, ClearsItsOwn
    <3>2. o # p
      BY <2>1, <2>3, <3>1
    <3> QED BY <2>2, <2>3, <3>2 DEF ClearingLeft, Clears, ClearsNext, At
  <2> QED BY <2>1, <2>3 DEF DiskKept, NoNewImage
<1>10. CASE WebDestroy(p) \/ ApiDestroy(p)
  <2>1. NoNewImage /\ files' = files /\ ~At(p, "clearImage") /\ \E n : Become(p, n)
    BY <1>10, ImageDestroyed DEF WebDestroy, ApiDestroy, Finish, Goto, At
  <2> QED BY <1>2, <2>1
<1>11. CASE UnlinkOfApplication(p)
  <2>1. app' = app /\ ~At(p, "clearImage") /\ \E n : Become(p, n)
    BY <1>11 DEF UnlinkOfApplication, Finish, At
  <2>2. "unlinkOfApplication" \in Unlinks
    BY DEF Unlinks
  <2>3. \A a \in Live : app[a].image \in Images /\ app[a].image \in files => app[a].image \in files'
    BY <1>11, <2>2, UnlinksNothingNamed DEF UnlinkOfApplication, At
  <2> QED BY <1>1, <2>1, <2>3, ImageSame, DiskUnlinked
<1> QED BY <1>3, <1>4, <1>5, <1>6, <1>7, <1>8, <1>9, <1>10, <1>11 DEF Picturing

LEMMA DiskStep ==
  TypeInv /\ ImagesInv /\ ImageIsOnDisk /\ [ApplicationStep /\ ApplicationHistory]_applicationVars
     => ImageIsOnDisk'
<1>1. ASSUME TypeInv, ImagesInv, ImageIsOnDisk, ApplicationStep, ApplicationHistory
      PROVE  ImageIsOnDisk'
  <2>1. ASSUME NEW p \in Requests, Aloof(p)  PROVE ImageIsOnDisk'
    <3>1. NoNewImage /\ files' = files
      BY <1>1, <2>1, AloofImages
    <3>2. Die \/ (ClearingLeft(p) /\ ~At(p, "clearImage"))
      BY <1>1, <2>1, AloofActElsewhere
    <3>3. DiskKept
      BY <1>1, <3>1, <3>2, DiskUnlinked
    <3> QED BY <1>1, <3>3, DiskFrame
  <2>2. ASSUME NEW p \in Requests, Picturing(p)  PROVE ImageIsOnDisk'
    BY <1>1, <2>2, PicturingDisk, DiskFrame
  <2>3. ASSUME DeleteAccount \/ LoseOrganization  PROVE ImageIsOnDisk'
    <3>1. req' = req /\ files' = files /\ app' = app
      BY <2>3 DEF DeleteAccount, LoseOrganization
    <3>2. DiskKept
      BY <3>1 DEF DiskKept, Live, Clears, ClearsNext, At
    <3> QED BY <1>1, <3>2, DiskFrame
  <2> QED BY <1>1, <2>1, <2>2, <2>3 DEF ApplicationStep, Aloof
<1>2. ASSUME ImageIsOnDisk, UNCHANGED applicationVars  PROVE ImageIsOnDisk'
  BY <1>2 DEF applicationVars, ImageIsOnDisk, At, Live
<1> QED BY <1>1, <1>2

\* The image a row names is on disk, however uploads, removals and updates overlap; only
\* a removal in flight has unlinked it before the row is told, and one that the end of
\* the process cut short.
THEOREM ImagesAreOnDisk == ApplicationSpec => []ImageIsOnDisk
<1>1. ASSUME ApplicationInit  PROVE ImagesInv /\ ImageIsOnDisk
  <2>1. PICK s \in Starts[group] : app = s.app /\ files = s.files
    BY <1>1 DEF ApplicationInit
  <2>2. SoundStart(s)
    BY <1>1, <2>1, StartsAssumption DEF ApplicationInit
  <2>3. \A p \in Requests : req[p].pc = "idle" /\ req[p].copy = None
    BY <1>1, QuietType DEF ApplicationInit
  <2>4. "idle" \notin UploadPcs
    BY DEF UploadPcs
  <2>5. RowsApart
    BY <2>1, <2>2 DEF SoundStart, RowsApart, Live
  <2>6. UploadsApart /\ CopiesApart
    BY <2>3, <2>4 DEF UploadsApart, CopiesApart
  <2>7. ImageIsOnDisk
    BY <2>1, <2>2 DEF SoundStart, ImageIsOnDisk, Live
  <2> QED BY <2>5, <2>6, <2>7 DEF ImagesInv
<1> QED BY <1>1, TypeInitially, TypeStep, ImagesStep, DiskStep, PTL DEF ApplicationSpec
=============================================================================
