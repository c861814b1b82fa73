----------------------------- MODULE IndexerProofs -----------------------------
EXTENDS IndexerInv, TLAPS, FiniteSetTheorems, SequenceTheorems

LEMMA ActiveOnCount ==
  ASSUME NEW p
  PROVE  Cardinality(ActiveOn(p)) \in Nat
<1>1. ActiveOn(p) \subseteq Subs
  BY DEF ActiveOn
<1>2. IsFiniteSet(ActiveOn(p))
  BY <1>1, FS_Subset, ConstantsAssumption DEF ConstantsAssumption
<1> QED
  BY <1>2, FS_CardinalityType

LEMMA InitStateOK == Init => StateOK
<1> SUFFICES ASSUME Init PROVE StateOK
  OBVIOUS
<1> USE ConstantsAssumption DEF ConstantsAssumption, Init
<1>1. TypeOK
  BY DEF TypeOK, Account, NoAccount, Transaction, Session, NoSession, PlanRow,
         NoPlanRow, SubRow, NoSubRow, Handler, HandlerPCs, IdleHandler, Syncer,
         IdleSync, Tx
<1>2. AccountsOK /\ RowsOK
  BY DEF AccountsOK, RowsOK, Opened, NoAccount, NoSubRow
<1>3. LogOK /\ PageOK /\ SnapshotOK
  BY DEF LogOK, PageOK, SnapshotOK, IdleSync
<1>4. HandlersOK
  BY DEF HandlersOK, HandlerOK, IdleHandler
<1> QED
  BY <1>1, <1>2, <1>3, <1>4 DEF StateOK

LEMMA LogFacts ==
  ASSUME StateOK
  PROVE  /\ log \in Seq(Transaction)
         /\ Len(log) \in Nat /\ Len(log) <= MaxTx /\ MaxTx \in Nat
         /\ \A i \in 1..Len(log) : log[i] \in Transaction
<1>1. log \in Seq(Transaction) /\ Len(log) <= MaxTx
  BY DEF StateOK, TypeOK
<1>2. MaxTx \in Nat
  BY ConstantsAssumption DEF ConstantsAssumption
<1> QED
  BY <1>1, <1>2, LenProperties

LEMMA CurrentSlotNat == StateOK => CurrentSlot \in Nat
<1> SUFFICES ASSUME StateOK PROVE CurrentSlot \in Nat
  OBVIOUS
<1>1. CASE log = <<>>
  BY <1>1 DEF CurrentSlot
<1>2. CASE log # <<>>
  <2>1. Len(log) \in 1..Len(log)
    BY <1>2, LogFacts, EmptySeq
  <2>2. log[Len(log)] \in Transaction
    BY <2>1, LogFacts
  <2> QED
    BY <1>2, <2>2 DEF CurrentSlot, Transaction
<1> QED
  BY <1>1, <1>2

\* What every chain transaction does to the log and to the handlers.
LEMMA EmitFacts ==
  ASSUME StateOK, NEW kind \in {"plan", "wallet", "subscribe", "pay", "cancel"},
         NEW of \in Subs \union Plans \union Wallets, NEW n \in Nat,
         Emit(kind, of, n)
  PROVE  /\ log' \in Seq(Transaction)
         /\ Len(log') = Len(log) + 1 /\ Len(log') <= MaxTx
         /\ \A i \in 1..Len(log) : log'[i] = log[i]
         /\ log'[Len(log) + 1].kind = kind /\ log'[Len(log) + 1].of = of
         /\ hs' \in [Tx -> Handler]
         /\ \A i \in Tx : \/ hs'[i] = hs[i]
                          \/ i = Len(log) + 1 /\ hs'[i] = Started(kind)
<1>1. CurrentSlot \in Nat
  BY CurrentSlotNat
<1>2. PICK d \in SlotSteps :
        log' = Append(log, [kind |-> kind, of |-> of, n |-> n,
                            slot |-> CurrentSlot + d])
  BY DEF Emit
<1> DEFINE tx == [kind |-> kind, of |-> of, n |-> n, slot |-> CurrentSlot + d]
<1>3. tx \in Transaction
  <2>1. d \in Nat
    BY ConstantsAssumption DEF ConstantsAssumption
  <2> QED
    BY <1>1, <2>1 DEF Transaction
<1>4. tx.kind = kind /\ tx.of = of
  OBVIOUS
<1>5. log' = Append(log, tx)
  BY <1>2
<1> HIDE DEF tx
<1>6. /\ log' \in Seq(Transaction)
      /\ Len(log') = Len(log) + 1
      /\ \A i \in 1..Len(log) : log'[i] = log[i]
      /\ log'[Len(log) + 1] = tx
  BY <1>5, <1>3, LogFacts, AppendProperties
<1>7. Started(kind) \in Handler
  BY DEF Started, FirstStep, IdleHandler, Handler, HandlerPCs
<1>8. Len(log) < MaxTx /\ Len(log) + 1 <= MaxTx
  BY LogFacts DEF Emit
<1>9. hs \in [Tx -> Handler]
  BY DEF StateOK, TypeOK
<1>10. /\ hs' \in [Tx -> Handler]
       /\ \A i \in Tx : \/ hs'[i] = hs[i]
                        \/ i = Len(log) + 1 /\ hs'[i] = Started(kind)
  BY <1>7, <1>9 DEF Emit
<1> QED
  BY <1>4, <1>6, <1>8, <1>10

\* A transaction preserves well-formedness if the accounts only move forward.
LEMMA ChainOK ==
  ASSUME StateOK, NEW kind \in {"plan", "wallet", "subscribe", "pay", "cancel"},
         NEW of \in Subs \union Plans \union Wallets, NEW n \in Nat,
         Emit(kind, of, n),
         chain' \in [Subs -> Account], chainPlans' \subseteq Plans,
         chainWallets' \subseteq Wallets, AccountsOK',
         \A s \in Subs : Opened(s) => Opened(s)',
         kind = "wallet" => of \in Wallets,
         kind \in SubKinds => of \in Subs /\ Opened(of)'
  PROVE  StateOK'
<1>1. /\ log' \in Seq(Transaction)
      /\ Len(log') = Len(log) + 1 /\ Len(log') <= MaxTx
      /\ \A i \in 1..Len(log) : log'[i] = log[i]
      /\ log'[Len(log) + 1].kind = kind /\ log'[Len(log) + 1].of = of
      /\ hs' \in [Tx -> Handler]
      /\ \A i \in Tx : \/ hs'[i] = hs[i]
                       \/ i = Len(log) + 1 /\ hs'[i] = Started(kind)
  BY EmitFacts
<1>2. UNCHANGED <<session, planRow, walletRows, subRow, recorded, checkpoint,
                  boot, lastSlot, page, sync, submitted, sends, crashes, faults>>
  BY DEF Emit
<1>3. TypeOK'
  BY <1>1, <1>2 DEF StateOK, TypeOK
<1>4. RowsOK' /\ SnapshotOK'
  <2>1. \A x \in sync.subs : x.sub \in Subs
    BY DEF StateOK, TypeOK, Syncer, SubSnap
  <2> QED
    BY <1>2, <2>1 DEF StateOK, RowsOK, SnapshotOK
<1>5. LogOK'
  <2> SUFFICES ASSUME NEW i \in 1..Len(log') PROVE TxOK(i)'
    BY DEF LogOK
  <2>1. CASE i = Len(log) + 1
    BY <1>1, <2>1 DEF TxOK, Opened
  <2>2. CASE i # Len(log) + 1
    <3>1. i \in 1..Len(log)
      BY <1>1, <2>2, LogFacts
    <3> QED
      <4>1. TxOK(i) /\ log'[i] = log[i]
        BY <1>1, <3>1 DEF StateOK, LogOK
      <4> QED
        BY <4>1 DEF TxOK
  <2> QED
    BY <2>1, <2>2
<1>6. PageOK'
  <2>1. page \in Seq(Tx)
    BY DEF StateOK, TypeOK
  <2>2. \A j \in DOMAIN page : page[j] \in Nat
    <3>1. page \in [1..Len(page) -> Tx] /\ DOMAIN page = 1..Len(page)
      BY <2>1, LenProperties
    <3>2. \A x \in Tx : x \in Nat
      BY LogFacts DEF Tx
    <3> QED
      BY <3>1, <3>2
  <2>3. \A j \in DOMAIN page : page[j] <= Len(log)
    BY DEF StateOK, PageOK
  <2> SUFFICES ASSUME NEW j \in DOMAIN page PROVE page[j] <= Len(log')
    BY <1>2 DEF PageOK
  <2> QED
    BY <1>1, <2>2, <2>3, LogFacts
<1>7. HandlersOK'
  <2> SUFFICES ASSUME NEW i \in Tx PROVE HandlerOK(i, hs[i])'
    BY DEF HandlersOK
  <2>1. CASE hs'[i] = hs[i]
    <3>1. i \in Nat /\ i > 0
      BY DEF Tx
    <3>2. HandlerOK(i, hs[i])
      BY DEF StateOK, HandlersOK
    <3>3. CASE hs[i].pc = "idle"
      BY <2>1, <3>3 DEF HandlerOK
    <3>4. CASE hs[i].pc # "idle"
      <4>1. i \in 1..Len(log) /\ i <= Len(log')
        BY <1>1, <3>1, <3>2, <3>4, LogFacts DEF HandlerOK
      <4> QED
        BY <1>1, <1>2, <2>1, <3>2, <4>1 DEF HandlerOK
    <3> QED
      BY <3>3, <3>4
  <2>2. CASE i = Len(log) + 1 /\ hs'[i] = Started(kind)
    <3>1. Started(kind).pc = FirstStep(kind)
      BY DEF Started, IdleHandler
    <3>2. i <= Len(log')
      BY <1>1, <2>2, LogFacts
    <3> QED
      BY <1>1, <2>2, <3>1, <3>2 DEF HandlerOK, FirstStep, SubKinds, LinkPCs,
         CreatePCs, PayPCs, CancelPCs, SharedPCs, RowPCs
  <2> QED
    BY <1>1, <2>1, <2>2
<1> QED
  BY <1>3, <1>4, <1>5, <1>6, <1>7 DEF StateOK

LEMMA ChainStepOK == StateOK /\ Chain => StateOK'
<1> SUFFICES ASSUME StateOK, Chain PROVE StateOK'
  OBVIOUS
<1> USE DEF Account, Opened, SubKinds
<1>0. /\ chain \in [Subs -> Account] /\ chainPlans \subseteq Plans
      /\ chainWallets \subseteq Wallets /\ AccountsOK
  BY DEF StateOK, TypeOK
<1>1. ASSUME NEW p \in Plans, ChainRegisterPlan(p) PROVE StateOK'
  <2>1. Emit("plan", p, 0) /\ UNCHANGED <<chain, chainWallets>>
        /\ chainPlans' = chainPlans \union {p}
    BY <1>1 DEF ChainRegisterPlan
  <2>2. AccountsOK'
    BY <1>0, <2>1 DEF AccountsOK
  <2> QED
    BY <1>0, <2>1, <2>2, ChainOK
<1>2. ASSUME NEW w \in Wallets, ChainCreateWallet(w) PROVE StateOK'
  <2>1. Emit("wallet", w, 0) /\ UNCHANGED <<chain, chainPlans>>
        /\ chainWallets' = chainWallets \union {w}
    BY <1>2 DEF ChainCreateWallet
  <2>2. AccountsOK'
    BY <1>0, <2>1 DEF AccountsOK
  <2> QED
    BY <1>0, <2>1, <2>2, ChainOK
<1>3. ASSUME NEW s \in Subs, NEW p \in Plans, NEW k \in Tokens,
             ChainSubscribe(s, p, k)
      PROVE  StateOK'
  <2>1. /\ Emit("subscribe", s, 0) /\ UNCHANGED <<chainPlans, chainWallets>>
        /\ chain' = [chain EXCEPT ![s] = [status |-> "active", plan |-> p,
                                          token |-> k, pays |-> 0]]
    BY <1>3 DEF ChainSubscribe
  <2>2. chain' \in [Subs -> Account] /\ AccountsOK' /\ Opened(s)'
        /\ \A t \in Subs : Opened(t) => Opened(t)'
    BY <1>0, <2>1 DEF AccountsOK
  <2> QED
    BY <1>0, <2>1, <2>2, ChainOK
<1>4. ASSUME NEW s \in Subs, ChainPay(s) PROVE StateOK'
  <2>1. /\ Emit("pay", s, chain[s].pays + 1) /\ UNCHANGED <<chainPlans, chainWallets>>
        /\ chain' = [chain EXCEPT ![s].pays = @ + 1] /\ Opened(s)
        /\ chain[s].pays + 1 \in Nat
    BY <1>0, <1>4 DEF ChainPay
  <2>2. chain' \in [Subs -> Account] /\ AccountsOK' /\ Opened(s)'
        /\ \A t \in Subs : Opened(t) => Opened(t)'
    BY <1>0, <2>1 DEF AccountsOK
  <2> QED
    BY <1>0, <2>1, <2>2, ChainOK
<1>5. ASSUME NEW s \in Subs, ChainCancel(s) PROVE StateOK'
  <2>1. /\ Emit("cancel", s, 0) /\ UNCHANGED <<chainPlans, chainWallets>>
        /\ chain' = [chain EXCEPT ![s].status = "cancelled"] /\ Opened(s)
    BY <1>5 DEF ChainCancel
  <2>2. chain' \in [Subs -> Account] /\ AccountsOK' /\ Opened(s)'
        /\ \A t \in Subs : Opened(t) => Opened(t)'
    BY <1>0, <2>1 DEF AccountsOK
  <2> QED
    BY <1>0, <2>1, <2>2, ChainOK
<1> QED
  BY <1>1, <1>2, <1>3, <1>4, <1>5 DEF Chain
--------------------------------------------------------------------------------
(* The handlers.                                                            *)

\* A handler that moves to a state fit for its transaction, whatever it writes,
\* leaves the state well-formed as long as it deletes no subscription row.
LEMMA MoveOK ==
  ASSUME StateOK, NEW i \in Tx, NEW h \in Handler, hs' = [hs EXCEPT ![i] = h],
         UNCHANGED <<chain, chainPlans, chainWallets, log, boot, lastSlot, page,
                     sync, submitted, crashes>>,
         session' \in [Tokens -> Session], planRow' \in [Plans -> PlanRow],
         walletRows' \subseteq Wallets, subRow' \in [Subs -> SubRow],
         recorded' \subseteq Tx, checkpoint' \in Nat, sends' \in [Tx -> Nat],
         faults' \in Nat, RowsOK',
         \A s \in Subs : subRow[s].here => subRow'[s].here,
         HandlerOK(i, h)'
  PROVE  StateOK'
<1>1. hs \in [Tx -> Handler]
  BY DEF StateOK, TypeOK
<1>2. hs' \in [Tx -> Handler]
  BY <1>1
<1>3. TypeOK'
  BY <1>2 DEF StateOK, TypeOK
<1>4. AccountsOK' /\ LogOK' /\ PageOK' /\ SnapshotOK'
  BY DEF StateOK, AccountsOK, LogOK, TxOK, PageOK, SnapshotOK, Opened
<1>5. HandlersOK'
  <2> SUFFICES ASSUME NEW j \in Tx PROVE HandlerOK(j, hs[j])'
    BY DEF HandlersOK
  <2>1. CASE j = i
    BY <1>1, <2>1
  <2>2. CASE j # i
    <3>1. hs'[j] = hs[j] /\ HandlerOK(j, hs[j])
      BY <1>1, <2>2 DEF StateOK, HandlersOK
    <3>2. CASE hs[j].pc \in RowPCs
      <4>1. log[j].kind \in SubKinds /\ j <= Len(log)
        BY <3>1, <3>2 DEF HandlerOK, RowPCs, CreatePCs, PayPCs, CancelPCs,
           SharedPCs, SubKinds
      <4>2. j \in 1..Len(log)
        BY <4>1, LogFacts DEF Tx
      <4>3. log[j].of \in Subs
        BY <4>1, <4>2 DEF StateOK, LogOK, TxOK
      <4> QED
        BY <3>1, <3>2, <4>3 DEF HandlerOK
    <3>3. CASE hs[j].pc \notin RowPCs
      BY <3>1, <3>3 DEF HandlerOK
    <3> QED
      BY <3>2, <3>3
  <2> QED
    BY <2>1, <2>2
<1> QED
  BY <1>3, <1>4, <1>5 DEF StateOK

LEMMA GoToFacts ==
  ASSUME StateOK, NEW i \in Tx, NEW pc \in HandlerPCs, GoTo(i, pc)
  PROVE  \E h \in Handler : /\ hs' = [hs EXCEPT ![i] = h]
                            /\ h.pc = pc
                            /\ pc # "idle" => h.plan = hs[i].plan
<1>1. hs \in [Tx -> Handler]
  BY DEF StateOK, TypeOK
<1>2. CASE pc = "idle"
  <2>1. IdleHandler \in Handler /\ IdleHandler.pc = "idle"
    BY DEF IdleHandler, Handler, HandlerPCs
  <2> QED
    BY <1>2, <2>1 DEF GoTo
<1>3. CASE pc # "idle"
  <2> DEFINE h == [hs[i] EXCEPT !.pc = pc]
  <2>1. h \in Handler /\ h.pc = pc /\ h.plan = hs[i].plan
    BY <1>1 DEF Handler
  <2>2. hs' = [hs EXCEPT ![i] = h]
    BY <1>3 DEF GoTo
  <2> QED
    BY <2>1, <2>2
<1> QED
  BY <1>2, <1>3

LEMMA GoToAdvance ==
  ASSUME StateOK, NEW i \in Tx, NEW pc \in HandlerPCs, GoTo(i, pc)
  PROVE  /\ hs'[i].pc = pc
         /\ pc # "idle" => hs'[i].plan = hs[i].plan
         /\ \A j \in Tx : j # i => hs'[j] = hs[j]
<1>1. PICK h \in Handler : /\ hs' = [hs EXCEPT ![i] = h]
                           /\ h.pc = pc
                           /\ pc # "idle" => h.plan = hs[i].plan
  BY GoToFacts
<1>2. hs \in [Tx -> Handler]
  BY DEF StateOK, TypeOK
<1> QED
  BY <1>1, <1>2

\* The subscription a running handler of the last three kinds works on.
LEMMA HandledSub ==
  ASSUME StateOK, NEW i \in Tx, hs[i].pc # "idle", log[i].kind \in SubKinds
  PROVE  log[i].of \in Subs /\ Opened(log[i].of)
<1>1. i <= Len(log)
  BY DEF StateOK, HandlersOK, HandlerOK
<1>2. i \in 1..Len(log)
  BY <1>1, LogFacts DEF Tx
<1> QED
  BY <1>2 DEF StateOK, LogOK, TxOK

LEMMA UpsertPlanFacts ==
  ASSUME StateOK, NEW x \in PlanSnap, UpsertPlan(x)
  PROVE  planRow' \in [Plans -> PlanRow]
BY DEF StateOK, TypeOK, PlanSnap, UpsertPlan, PlanRow

LEMMA PlanSnapshotFacts == StateOK => PlanSnapshot \subseteq PlanSnap
BY ActiveOnCount DEF StateOK, TypeOK, PlanSnapshot, PlanSnap

LEMMA HandleOK ==
  ASSUME StateOK, NEW i \in Tx, Handle(i)
  PROVE  StateOK'
<1>1. HandlerStep(i) /\ UNCHANGED <<chain, chainPlans, chainWallets, log, boot,
        lastSlot, page, sync, submitted, crashes, faults>>
  BY DEF Handle, chainVars
<1>2. /\ session \in [Tokens -> Session] /\ planRow \in [Plans -> PlanRow]
      /\ walletRows \subseteq Wallets /\ subRow \in [Subs -> SubRow]
      /\ recorded \subseteq Tx /\ checkpoint \in Nat /\ sends \in [Tx -> Nat]
      /\ faults \in Nat /\ hs \in [Tx -> Handler] /\ chain \in [Subs -> Account]
  BY DEF StateOK, TypeOK
<1>3. RowsOK /\ HandlerOK(i, hs[i])
  BY DEF StateOK, HandlersOK
<1>4. Returned \in {"idle", "save"} /\ Returned \in HandlerPCs
  BY DEF Returned, HandlerPCs
<1> USE DEF LinkPCs, CreatePCs, PayPCs, CancelPCs, SharedPCs, RowPCs, SubKinds, AtPC
\* The steps that only move the handler: the target suits the transaction.
<1> DEFINE Moves(pc) ==
      \/ pc \in {"idle", "save"}
      \/ hs[i].pc # "idle" /\ HandlerOK(i, [hs[i] EXCEPT !.pc = pc])
<1>5. ASSUME NEW pc \in HandlerPCs, GoTo(i, pc), Moves(pc), i <= Len(log),
             UNCHANGED <<session, planRow, walletRows, subRow, recorded,
                         checkpoint, sends>>
      PROVE  StateOK'
  <2>1. PICK h \in Handler : /\ hs' = [hs EXCEPT ![i] = h] /\ h.pc = pc
                             /\ pc # "idle" => h.plan = hs[i].plan
    BY <1>5, GoToFacts
  <2>2. HandlerOK(i, h)'
    BY <1>1, <1>2, <1>5, <2>1 DEF HandlerOK, Handler
  <2>3. RowsOK'
    BY <1>3, <1>5 DEF RowsOK
  <2> QED
    BY <1>1, <1>2, <1>5, <2>1, <2>2, <2>3, MoveOK
<1>6. CASE HFindSub(i)
  <2>1. i <= Len(log) /\ log[i].kind \in SubKinds /\ hs[i].pc = "findSub"
    BY <1>3, <1>6 DEF HFindSub, HandlerOK
  <2>2. UNCHANGED <<session, planRow, walletRows, subRow, recorded, checkpoint,
                    sends>>
    BY <1>6 DEF HFindSub
  <2>3. log[i].of \in Subs
    BY <2>1, HandledSub
  <2>4. CASE Kind(i) = "subscribe" /\ ~Here(i) /\ GoTo(i, "findPlan")
    BY <1>2, <1>5, <2>1, <2>2, <2>4 DEF HandlerOK, HandlerPCs, Kind, Handler
  <2>5. CASE Kind(i) = "cancel" /\ Here(i) /\ GoTo(i, "deactivate")
    BY <1>2, <1>5, <2>1, <2>2, <2>5 DEF HandlerOK, HandlerPCs, Kind, Handler, Here
  <2>6. CASE GoTo(i, Returned)
    BY <1>4, <1>5, <2>1, <2>2, <2>6
  <2>7. CASE /\ Kind(i) = "pay" /\ Here(i)
             /\ hs' = [hs EXCEPT ![i].pc = "payRow",
                                 ![i].val = subRow[log[i].of].paid]
    <3> DEFINE g == [hs[i] EXCEPT !.pc = "payRow", !.val = subRow[log[i].of].paid]
    <3>1. g \in Handler /\ g.pc = "payRow"
      BY <1>2, <2>3 DEF Handler, HandlerPCs, SubRow
    <3>2. PICK h \in Handler : hs' = [hs EXCEPT ![i] = h] /\ h.pc = "payRow"
      BY <1>2, <2>7, <3>1
    <3> HIDE DEF g
    <3>3. HandlerOK(i, h)'
      BY <1>1, <2>1, <2>2, <2>7, <3>2 DEF HandlerOK, Kind, Here
    <3>4. RowsOK'
      BY <1>3, <2>2 DEF RowsOK
    <3> QED
      BY <1>1, <1>2, <2>2, <3>2, <3>3, <3>4, MoveOK
  <2> QED
    BY <1>6, <2>4, <2>5, <2>6, <2>7 DEF HFindSub
<1>7. CASE HFindPlan(i)
  <2>1. /\ hs[i].pc \in {"findPlan", "refindPlan"} /\ i <= Len(log)
        /\ log[i].kind = "subscribe"
    BY <1>3, <1>7 DEF HFindPlan, HandlerOK
  <2>2. UNCHANGED <<session, planRow, walletRows, subRow, recorded, checkpoint,
                    sends>>
    BY <1>7 DEF HFindPlan
  <2>3. CASE GoTo(i, "readPlans")
    BY <1>2, <1>5, <2>1, <2>2, <2>3 DEF HandlerOK, HandlerPCs, Handler
  <2>4. CASE GoTo(i, Returned)
    BY <1>4, <1>5, <2>1, <2>2, <2>4
  <2>5. ASSUME NEW p \in Plans,
               hs' = [hs EXCEPT ![i].plan = p, ![i].pc = "findSession"]
        PROVE  StateOK'
    <3> DEFINE g == [hs[i] EXCEPT !.plan = p, !.pc = "findSession"]
    <3>1. g \in Handler /\ g.pc = "findSession" /\ g.plan \in Plans
      BY <1>2 DEF Handler, HandlerPCs
    <3>2. PICK h \in Handler : /\ hs' = [hs EXCEPT ![i] = h]
                               /\ h.pc = "findSession" /\ h.plan \in Plans
      BY <1>2, <2>5, <3>1
    <3> HIDE DEF g
    <3>3. HandlerOK(i, h)'
      BY <1>1, <2>1, <2>2, <3>2 DEF HandlerOK
    <3>4. RowsOK'
      BY <1>3, <2>2 DEF RowsOK
    <3> QED
      BY <1>1, <1>2, <2>2, <3>2, <3>3, <3>4, MoveOK
  <2> QED
    BY <1>7, <2>3, <2>4, <2>5 DEF HFindPlan
<1>8. CASE HReadPlans(i)
  <2>1. /\ hs[i].pc = "readPlans" /\ i <= Len(log)
        /\ log[i].kind \in {"plan", "subscribe"}
        /\ hs' = [hs EXCEPT ![i].pc = "writePlans", ![i].snap = PlanSnapshot]
        /\ UNCHANGED <<session, planRow, walletRows, subRow, recorded,
                       checkpoint, sends>>
    BY <1>3, <1>8 DEF HReadPlans, HandlerOK
  <2> DEFINE g == [hs[i] EXCEPT !.pc = "writePlans", !.snap = PlanSnapshot]
  <2>2. g \in Handler /\ g.pc = "writePlans"
    BY <1>2, PlanSnapshotFacts DEF Handler, HandlerPCs
  <2>3. PICK h \in Handler : hs' = [hs EXCEPT ![i] = h] /\ h.pc = "writePlans"
    BY <1>2, <2>1, <2>2
  <2> HIDE DEF g
  <2>4. HandlerOK(i, h)'
    BY <1>1, <2>1, <2>3 DEF HandlerOK
  <2>5. RowsOK'
    BY <1>3, <2>1 DEF RowsOK
  <2> QED
    BY <1>1, <1>2, <2>1, <2>3, <2>4, <2>5, MoveOK
<1>9. CASE HWritePlan(i)
  <2>1. PICK x \in hs[i].snap : /\ UpsertPlan(x)
                                /\ hs' = [hs EXCEPT ![i].snap = @ \ {x}]
    BY <1>9 DEF HWritePlan
  <2>2. /\ hs[i].pc = "writePlans" /\ i <= Len(log)
        /\ log[i].kind \in {"plan", "subscribe"}
        /\ UNCHANGED <<session, walletRows, subRow, recorded, checkpoint, sends>>
    BY <1>3, <1>9 DEF HWritePlan, HandlerOK
  <2>3. hs[i].snap \subseteq PlanSnap
    BY <1>2 DEF Handler
  <2>4. planRow' \in [Plans -> PlanRow]
    BY <2>1, <2>3, UpsertPlanFacts
  <2> DEFINE g == [hs[i] EXCEPT !.snap = @ \ {x}]
  <2>5. g \in Handler /\ g.pc = "writePlans"
    BY <1>2, <2>2, <2>3 DEF Handler
  <2>6. PICK h \in Handler : hs' = [hs EXCEPT ![i] = h] /\ h.pc = "writePlans"
    BY <1>2, <2>1, <2>5
  <2> HIDE DEF g
  <2>7. HandlerOK(i, h)'
    BY <1>1, <2>2, <2>6 DEF HandlerOK
  <2>8. RowsOK'
    BY <1>3, <2>2 DEF RowsOK
  <2> QED
    BY <1>1, <1>2, <2>2, <2>4, <2>6, <2>7, <2>8, MoveOK
<1>10. CASE HPlansWritten(i)
  <2>1. /\ hs[i].pc = "writePlans" /\ i <= Len(log)
        /\ UNCHANGED <<session, planRow, walletRows, subRow, recorded,
                       checkpoint, sends>>
    BY <1>3, <1>10 DEF HPlansWritten, HandlerOK
  <2>2. CASE Kind(i) = "subscribe" /\ GoTo(i, "refindPlan")
    BY <1>2, <1>5, <2>1, <2>2 DEF HandlerOK, HandlerPCs, Handler, Kind
  <2>3. CASE GoTo(i, Returned)
    BY <1>4, <1>5, <2>1, <2>3
  <2> QED
    BY <1>10, <2>2, <2>3 DEF HPlansWritten
<1>11. CASE HFindSession(i)
  <2>1. /\ hs[i].pc = "findSession" /\ i <= Len(log) /\ hs[i].plan \in Plans
        /\ log[i].kind = "subscribe"
        /\ UNCHANGED <<session, planRow, walletRows, subRow, recorded,
                       checkpoint, sends>>
    BY <1>3, <1>11 DEF HFindSession, HandlerOK
  <2>2. CASE \E pc \in {"failSession", "completeSession"} : GoTo(i, pc)
    <3>1. PICK pc \in {"failSession", "completeSession"} : GoTo(i, pc)
      BY <2>2
    <3>2. pc \in HandlerPCs /\ Moves(pc)
      BY <1>2, <2>1 DEF HandlerOK, HandlerPCs, Handler
    <3> QED
      BY <1>5, <2>1, <3>1, <3>2
  <2>3. CASE GoTo(i, Returned)
    BY <1>4, <1>5, <2>1, <2>3
  <2> QED
    BY <1>11, <2>2, <2>3 DEF HFindSession
\* The steps that write a row and then move.
<1>12. ASSUME NEW pc \in HandlerPCs, GoTo(i, pc), i <= Len(log),
              session' \in [Tokens -> Session], planRow' \in [Plans -> PlanRow],
              walletRows' \subseteq Wallets, subRow' \in [Subs -> SubRow],
              recorded' \subseteq Tx, checkpoint' \in Nat,
              sends' \in [Tx -> Nat], RowsOK',
              \A s \in Subs : subRow[s].here => subRow'[s].here,
              \/ pc \in {"idle", "save"}
              \/ /\ pc \in RowPCs \union LinkPCs
                 /\ log[i].kind \in SubKinds
                 /\ pc \in CreatePCs => log[i].kind = "subscribe"
                 /\ pc \in PayPCs => log[i].kind = "pay"
                 /\ pc \in CancelPCs => log[i].kind = "cancel"
                 /\ pc \in LinkPCs \union {"incPlan"} => hs[i].plan \in Plans
                 /\ pc \in RowPCs => subRow'[log[i].of].here
       PROVE  StateOK'
  <2>1. PICK h \in Handler : /\ hs' = [hs EXCEPT ![i] = h] /\ h.pc = pc
                             /\ pc # "idle" => h.plan = hs[i].plan
    BY <1>12, GoToFacts
  <2>2. HandlerOK(i, h)'
    BY <1>1, <1>12, <2>1 DEF HandlerOK
  <2> QED
    BY <1>1, <1>2, <1>12, <2>1, <2>2, MoveOK
<1>13. CASE HFailSession(i)
  <2>1. /\ hs[i].pc \in {"failSession", "failCaught"} /\ i <= Len(log)
        /\ GoTo(i, Returned)
        /\ UNCHANGED <<planRow, walletRows, subRow, recorded, checkpoint, sends>>
    BY <1>3, <1>13 DEF HFailSession, HandlerOK
  <2>2. session' \in [Tokens -> Session]
    BY <1>2, <1>13 DEF HFailSession, Session
  <2>3. RowsOK'
    BY <1>3, <2>1 DEF RowsOK
  <2> QED
    BY <1>2, <1>4, <1>12, <2>1, <2>2, <2>3
<1>14. CASE HCompleteSession(i)
  <2>1. /\ hs[i].pc = "completeSession" /\ i <= Len(log) /\ hs[i].plan \in Plans
        /\ log[i].kind = "subscribe" /\ GoTo(i, "createSub")
        /\ UNCHANGED <<planRow, walletRows, subRow, recorded, checkpoint, sends>>
    BY <1>3, <1>14 DEF HCompleteSession, HandlerOK
  <2>2. log[i].of \in Subs
    BY <2>1, HandledSub
  <2>3. session' \in [Tokens -> Session]
    BY <1>2, <1>14, <2>2 DEF HCompleteSession, Session
  <2>4. RowsOK'
    BY <1>3, <2>1 DEF RowsOK
  <2> QED
    BY <1>2, <1>12, <2>1, <2>3, <2>4 DEF HandlerPCs
<1>15. CASE HCreateSub(i)
  <2>1. /\ hs[i].pc = "createSub" /\ i <= Len(log) /\ hs[i].plan \in Plans
        /\ log[i].kind = "subscribe"
        /\ UNCHANGED <<session, planRow, walletRows, recorded, checkpoint, sends>>
    BY <1>3, <1>15 DEF HCreateSub, HandlerOK
  <2>2. log[i].of \in Subs /\ Opened(log[i].of)
    BY <2>1, HandledSub
  <2>3. CASE GoTo(i, "idle") /\ UNCHANGED subRow
    BY <1>5, <2>1, <2>3 DEF HandlerPCs
  <2>4. CASE /\ subRow' = [subRow EXCEPT ![log[i].of] =
                             [here |-> TRUE, plan |-> hs[i].plan,
                              token |-> chain[log[i].of].token, active |-> TRUE,
                              paid |-> 0, count |-> 0]]
             /\ GoTo(i, "incPlan")
    <3>1. chain[log[i].of].token \in Tokens
      BY <2>2 DEF StateOK, AccountsOK
    <3>2. subRow' \in [Subs -> SubRow]
      BY <1>2, <2>1, <2>2, <2>4, <3>1 DEF SubRow
    <3>3. RowsOK' /\ subRow'[log[i].of].here
          /\ \A s \in Subs : subRow[s].here => subRow'[s].here
      BY <1>2, <1>3, <2>1, <2>2, <2>4 DEF RowsOK
    <3> QED
      BY <1>2, <1>12, <2>1, <2>4, <3>2, <3>3 DEF HandlerPCs
  <2> QED
    BY <1>15, <2>3, <2>4 DEF HCreateSub
<1>16. CASE HIncPlan(i)
  <2>1. /\ hs[i].pc = "incPlan" /\ i <= Len(log) /\ log[i].kind = "subscribe"
        /\ subRow[log[i].of].here /\ GoTo(i, "touchWallet") /\ hs[i].plan \in Plans
        /\ UNCHANGED <<session, walletRows, subRow, recorded, checkpoint, sends>>
    BY <1>3, <1>16 DEF HIncPlan, HandlerOK
  <2>2. planRow' \in [Plans -> PlanRow]
    <3>1. PICK p \in Plans : p = hs[i].plan
      BY <2>1
    <3>2. planRow' = [planRow EXCEPT ![p].subscribers = @ + 1]
      BY <1>16, <3>1 DEF HIncPlan
    <3>3. planRow[p].subscribers + 1 \in Int /\ planRow \in [Plans -> PlanRow]
      BY <1>2 DEF PlanRow
    <3> QED
      BY <3>2, <3>3 DEF PlanRow
  <2>3. RowsOK'
    BY <1>3, <2>1 DEF RowsOK
  <2> QED
    BY <1>2, <1>12, <2>1, <2>2, <2>3 DEF HandlerPCs
<1>17. CASE HTouchWallet(i)
  <2>1. /\ hs[i].pc = "touchWallet" /\ i <= Len(log) /\ log[i].kind \in SubKinds
        /\ subRow[log[i].of].here
        /\ GoTo(i, IF WalletOf[log[i].of] \in walletRows THEN "record" ELSE "idle")
        /\ UNCHANGED <<session, planRow, walletRows, subRow, recorded,
                       checkpoint, sends>>
    BY <1>3, <1>17 DEF HTouchWallet, HandlerOK
  <2>2. RowsOK'
    BY <1>3, <2>1 DEF RowsOK
  <2>3. CASE GoTo(i, "record")
    BY <1>2, <1>12, <2>1, <2>2, <2>3 DEF HandlerPCs
  <2>4. CASE GoTo(i, "idle")
    BY <1>5, <2>1, <2>4 DEF HandlerPCs
  <2> QED
    BY <2>1, <2>3, <2>4
<1>18. CASE HUpsertWallet(i)
  <2>1. /\ hs[i].pc = "upsertWallet" /\ i <= Len(log) /\ log[i].kind = "wallet"
        /\ walletRows' = walletRows \union {log[i].of} /\ GoTo(i, Returned)
        /\ UNCHANGED <<session, planRow, subRow, recorded, checkpoint, sends>>
    BY <1>3, <1>18 DEF HUpsertWallet, HandlerOK
  <2>2. log[i].of \in Wallets
    <3>1. i \in 1..Len(log)
      BY <2>1, LogFacts DEF Tx
    <3> QED
      BY <2>1, <3>1 DEF StateOK, LogOK, TxOK
  <2>3. RowsOK'
    BY <1>3, <2>1 DEF RowsOK
  <2> QED
    BY <1>2, <1>4, <1>12, <2>1, <2>2, <2>3
<1>19. CASE HPayRow(i)
  <2>1. /\ hs[i].pc = "payRow" /\ i <= Len(log) /\ log[i].kind = "pay"
        /\ subRow[log[i].of].here /\ GoTo(i, "readRevenue")
        /\ subRow' = [subRow EXCEPT ![log[i].of].paid = hs[i].val + 1,
                                    ![log[i].of].count = log[i].n]
        /\ UNCHANGED <<session, planRow, walletRows, recorded, checkpoint, sends>>
    BY <1>3, <1>19 DEF HPayRow, HandlerOK
  <2>2. log[i].of \in Subs /\ log[i].n \in Nat /\ hs[i].val + 1 \in Nat
    <3>1. i \in 1..Len(log)
      BY <2>1, LogFacts DEF Tx
    <3> QED
      BY <1>2, <2>1, <3>1, HandledSub, LogFacts DEF Transaction, Handler
  <2>3. /\ subRow' \in [Subs -> SubRow]
        /\ \A s \in Subs : subRow'[s].here = subRow[s].here
        /\ \A s \in Subs : subRow'[s].plan = subRow[s].plan
    <3> DEFINE r == [subRow[log[i].of] EXCEPT !.paid = hs[i].val + 1,
                                              !.count = log[i].n]
    <3>1. r \in SubRow /\ r.here = subRow[log[i].of].here
          /\ r.plan = subRow[log[i].of].plan
      BY <1>2, <2>2 DEF SubRow
    <3>2. subRow' = [subRow EXCEPT ![log[i].of] = r]
      BY <1>2, <2>1, <2>2
    <3> HIDE DEF r
    <3> QED
      BY <1>2, <2>2, <3>1, <3>2
  <2>4. RowsOK'
    BY <1>3, <2>3 DEF RowsOK
  <2> QED
    BY <1>2, <1>12, <2>1, <2>2, <2>3, <2>4 DEF HandlerPCs
<1>20. CASE HReadRevenue(i)
  <2>1. /\ hs[i].pc = "readRevenue" /\ i <= Len(log) /\ log[i].kind = "pay"
        /\ subRow[log[i].of].here
        /\ hs' = [hs EXCEPT ![i].pc = "payPlan",
                            ![i].val = planRow[subRow[log[i].of].plan].revenue]
        /\ UNCHANGED <<session, planRow, walletRows, subRow, recorded,
                       checkpoint, sends>>
    BY <1>3, <1>20 DEF HReadRevenue, HandlerOK
  <2>2. planRow[subRow[log[i].of].plan].revenue \in Nat
    <3>1. log[i].of \in Subs
      BY <2>1, HandledSub
    <3>2. subRow[log[i].of].plan \in Plans
      BY <1>3, <2>1, <3>1 DEF RowsOK
    <3> QED
      BY <1>2, <3>2 DEF PlanRow
  <2> DEFINE g == [hs[i] EXCEPT !.pc = "payPlan",
                                !.val = planRow[subRow[log[i].of].plan].revenue]
  <2>3. g \in Handler /\ g.pc = "payPlan"
    BY <1>2, <2>2 DEF Handler, HandlerPCs
  <2>4. PICK h \in Handler : hs' = [hs EXCEPT ![i] = h] /\ h.pc = "payPlan"
    BY <1>2, <2>1, <2>3
  <2> HIDE DEF g
  <2>5. HandlerOK(i, h)'
    BY <1>1, <2>1, <2>4 DEF HandlerOK
  <2>6. RowsOK'
    BY <1>3, <2>1 DEF RowsOK
  <2> QED
    BY <1>1, <1>2, <2>1, <2>4, <2>5, <2>6, MoveOK
<1>21. CASE HPayPlan(i)
  <2>1. /\ hs[i].pc = "payPlan" /\ i <= Len(log) /\ log[i].kind = "pay"
        /\ subRow[log[i].of].here /\ GoTo(i, "record")
        /\ UNCHANGED <<session, walletRows, subRow, recorded, checkpoint, sends>>
    BY <1>3, <1>21 DEF HPayPlan, HandlerOK
  <2>2. hs[i].val + 1 \in Nat
    BY <1>2 DEF Handler
  <2>3. planRow' \in [Plans -> PlanRow]
    BY <1>2, <1>21, <2>2 DEF HPayPlan, PlanRow
  <2>4. RowsOK'
    BY <1>3, <2>1 DEF RowsOK
  <2> QED
    BY <1>2, <1>12, <2>1, <2>3, <2>4 DEF HandlerPCs
<1>22. CASE HDeactivate(i)
  <2>1. /\ hs[i].pc = "deactivate" /\ i <= Len(log) /\ log[i].kind = "cancel"
        /\ subRow[log[i].of].here /\ GoTo(i, "decPlan")
        /\ subRow' = [subRow EXCEPT ![log[i].of].active = FALSE]
        /\ UNCHANGED <<session, planRow, walletRows, recorded, checkpoint, sends>>
    BY <1>3, <1>22 DEF HDeactivate, HandlerOK
  <2>2. log[i].of \in Subs
    BY <2>1, HandledSub
  <2>3. /\ subRow' \in [Subs -> SubRow]
        /\ \A s \in Subs : subRow'[s].here = subRow[s].here
        /\ \A s \in Subs : subRow'[s].plan = subRow[s].plan
    BY <1>2, <2>1, <2>2 DEF SubRow
  <2>4. RowsOK'
    BY <1>3, <2>3 DEF RowsOK
  <2> QED
    BY <1>2, <1>12, <2>1, <2>2, <2>3, <2>4 DEF HandlerPCs
<1>23. CASE HDecPlan(i)
  <2>1. /\ hs[i].pc = "decPlan" /\ i <= Len(log) /\ log[i].kind = "cancel"
        /\ subRow[log[i].of].here /\ GoTo(i, "touchWallet")
        /\ UNCHANGED <<session, walletRows, subRow, recorded, checkpoint, sends>>
    BY <1>3, <1>23 DEF HDecPlan, HandlerOK
  <2>2. log[i].of \in Subs
    BY <2>1, HandledSub
  <2>3. subRow[log[i].of].plan \in Plans
    BY <1>3, <2>1, <2>2 DEF RowsOK
  <2>4. planRow' \in [Plans -> PlanRow]
    BY <1>2, <1>23, <2>3 DEF HDecPlan, PlanRow
  <2>5. RowsOK'
    BY <1>3, <2>1 DEF RowsOK
  <2> QED
    BY <1>2, <1>12, <2>1, <2>4, <2>5 DEF HandlerPCs
<1>24. CASE HRecord(i)
  <2>1. /\ hs[i].pc = "record" /\ i <= Len(log) /\ log[i].kind \in SubKinds
        /\ subRow[log[i].of].here /\ GoTo(i, "notify")
        /\ recorded' = recorded \union {i}
        /\ UNCHANGED <<session, planRow, walletRows, subRow, checkpoint, sends>>
    BY <1>3, <1>24 DEF HRecord, HandlerOK
  <2>2. RowsOK' /\ recorded' \subseteq Tx
    BY <1>2, <1>3, <2>1 DEF RowsOK
  <2> QED
    BY <1>2, <1>12, <2>1, <2>2 DEF HandlerPCs
<1>25. CASE HNotify(i)
  <2>1. /\ i <= Len(log) /\ GoTo(i, Returned)
        /\ sends' = [sends EXCEPT ![i] = @ + 1]
        /\ UNCHANGED <<session, planRow, walletRows, subRow, recorded, checkpoint>>
    BY <1>3, <1>25 DEF HNotify, HandlerOK
  <2>2. RowsOK' /\ sends' \in [Tx -> Nat]
    BY <1>2, <1>3, <2>1 DEF RowsOK
  <2> QED
    BY <1>2, <1>4, <1>12, <2>1, <2>2
<1>26. CASE HSave(i)
  <2>1. /\ i <= Len(log) /\ GoTo(i, "idle") /\ checkpoint' = log[i].slot
        /\ UNCHANGED <<session, planRow, walletRows, subRow, recorded, sends>>
    BY <1>3, <1>26 DEF HSave, HandlerOK
  <2>2. checkpoint' \in Nat
    <3>1. i \in 1..Len(log)
      BY <2>1, LogFacts DEF Tx
    <3> QED
      BY <2>1, <3>1, LogFacts DEF Transaction
  <2>3. RowsOK'
    BY <1>3, <2>1 DEF RowsOK
  <2> QED
    BY <1>2, <1>12, <2>1, <2>2, <2>3 DEF HandlerPCs
<1> QED
  BY <1>1, <1>6, <1>7, <1>8, <1>9, <1>10, <1>11, <1>13, <1>14, <1>15, <1>16,
     <1>17, <1>18, <1>19, <1>20, <1>21, <1>22, <1>23, <1>24, <1>25, <1>26
     DEF HandlerStep

LEMMA HandlerErrorOK ==
  ASSUME StateOK, NEW i \in Tx, HandlerError(i)
  PROVE  StateOK'
<1>1. /\ hs[i].pc # "idle"
      /\ UNCHANGED <<chain, chainPlans, chainWallets, log, session, planRow,
                     walletRows, subRow, recorded, checkpoint, boot, lastSlot,
                     page, sync, submitted, sends, crashes>>
      /\ faults' = faults + 1
  BY DEF HandlerError, chainVars, Running
<1>2. /\ session \in [Tokens -> Session] /\ planRow \in [Plans -> PlanRow]
      /\ walletRows \subseteq Wallets /\ subRow \in [Subs -> SubRow]
      /\ recorded \subseteq Tx /\ checkpoint \in Nat /\ sends \in [Tx -> Nat]
      /\ faults' \in Nat /\ HandlerOK(i, hs[i]) /\ RowsOK
  BY <1>1 DEF StateOK, TypeOK, HandlersOK
<1>3. PICK pc \in {"failCaught", "idle", "save"} :
        /\ GoTo(i, pc)
        /\ pc = "failCaught" =>
             hs[i].pc \in {"findSession", "failSession", "completeSession"}
  BY DEF HandlerError, Returned
<1>4. PICK h \in Handler : /\ hs' = [hs EXCEPT ![i] = h] /\ h.pc = pc
                           /\ pc # "idle" => h.plan = hs[i].plan
  BY <1>3, GoToFacts DEF HandlerPCs
<1>5. HandlerOK(i, h)'
  BY <1>1, <1>2, <1>3, <1>4 DEF HandlerOK, LinkPCs, CreatePCs, PayPCs, CancelPCs,
     SharedPCs, RowPCs
<1>6. RowsOK'
  BY <1>1, <1>2 DEF RowsOK
<1> QED
  BY <1>1, <1>2, <1>4, <1>5, <1>6, MoveOK
--------------------------------------------------------------------------------
(* The checkout endpoints, the sync, the boot and the crash.                *)

\* A step that leaves the log and every handler where they are.
LEMMA QuietOK ==
  ASSUME StateOK, UNCHANGED <<chain, chainPlans, chainWallets, log, hs, page>>,
         TypeOK', RowsOK', SnapshotOK',
         \A s \in Subs : subRow[s].here => subRow'[s].here
  PROVE  StateOK'
<1>1. AccountsOK' /\ LogOK' /\ PageOK'
  BY DEF StateOK, AccountsOK, LogOK, TxOK, PageOK, Opened
<1>2. HandlersOK'
  <2> SUFFICES ASSUME NEW j \in Tx PROVE HandlerOK(j, hs[j])'
    BY DEF HandlersOK
  <2>1. HandlerOK(j, hs[j])
    BY DEF StateOK, HandlersOK
  <2>2. CASE hs[j].pc \in RowPCs
    <3>1. log[j].kind \in SubKinds
      BY <2>1, <2>2 DEF HandlerOK, RowPCs, CreatePCs, PayPCs, CancelPCs,
         SharedPCs, SubKinds
    <3>2. log[j].of \in Subs
      BY <2>2, <3>1, HandledSub DEF RowPCs, PayPCs, CancelPCs, SharedPCs
    <3> QED
      BY <2>1, <2>2, <3>2 DEF HandlerOK
  <2>3. CASE hs[j].pc \notin RowPCs
    BY <2>1, <2>3 DEF HandlerOK
  <2> QED
    BY <2>2, <2>3
<1> QED
  BY <1>1, <1>2 DEF StateOK

LEMMA CheckoutOK == StateOK /\ Checkout => StateOK'
<1> SUFFICES ASSUME StateOK, Checkout PROVE StateOK'
  OBVIOUS
<1>0. session \in [Tokens -> Session] /\ submitted \subseteq Tokens /\ RowsOK
  BY DEF StateOK, TypeOK
<1>1. UNCHANGED <<chain, chainPlans, chainWallets, log, planRow, walletRows,
                  subRow, recorded, checkpoint, boot, lastSlot, page, hs, sync,
                  sends, crashes, faults>>
  BY DEF Checkout, CreateSession, CompleteSession, CancelSession, chainVars,
     procVars
<1>2. session' \in [Tokens -> Session]
  <2>1. ASSUME NEW k \in Tokens, NEW p \in Plans, CreateSession(k, p)
        PROVE  session' \in [Tokens -> Session]
    BY <1>0, <2>1 DEF CreateSession, Session
  <2>2. ASSUME NEW k \in Tokens, CompleteSession(k)
        PROVE  session' \in [Tokens -> Session]
    BY <1>0, <2>2 DEF CompleteSession
  <2>3. ASSUME NEW k \in Tokens, CancelSession(k)
        PROVE  session' \in [Tokens -> Session]
    BY <1>0, <2>3 DEF CancelSession, Session
  <2> QED
    BY <2>1, <2>2, <2>3 DEF Checkout
<1>3. submitted' \subseteq Tokens
  BY <1>0 DEF Checkout, CreateSession, CompleteSession, CancelSession
<1>4. TypeOK'
  BY <1>1, <1>2, <1>3 DEF StateOK, TypeOK
<1>5. RowsOK' /\ SnapshotOK'
  BY <1>0, <1>1 DEF RowsOK, SnapshotOK, StateOK, Opened
<1> QED
  BY <1>1, <1>4, <1>5, QuietOK

LEMMA SubSnapshotFacts == StateOK => SubSnapshot \subseteq SubSnap
<1> SUFFICES ASSUME StateOK, NEW s \in Subs
             PROVE  [sub |-> s, active |-> chain[s].status = "active",
                     pays |-> chain[s].pays] \in SubSnap
  BY DEF SubSnapshot
<1>1. chain[s].pays \in Nat
  BY DEF StateOK, TypeOK, Account
<1>2. (chain[s].status = "active") \in BOOLEAN
  OBVIOUS
<1> QED
  BY <1>1, <1>2, Zenon DEF SubSnap

LEMMA UpsertSubFacts ==
  ASSUME StateOK, NEW x \in SubSnap, Opened(x.sub), UpsertSub(x)
  PROVE  /\ subRow' \in [Subs -> SubRow]
         /\ \A s \in Subs : subRow[s].here => subRow'[s].here
         /\ \A s \in Subs : subRow'[s].here => subRow'[s].plan \in Plans
<1>1. /\ x.sub \in Subs /\ x.active \in BOOLEAN /\ x.pays \in Nat
      /\ subRow \in [Subs -> SubRow] /\ RowsOK /\ AccountsOK
  BY DEF SubSnap, StateOK, TypeOK
<1>2. chain[x.sub].plan \in Plans /\ chain[x.sub].token \in Tokens
  BY <1>1 DEF AccountsOK
<1>3. CASE UNCHANGED subRow
  BY <1>1, <1>3 DEF RowsOK
<1>4. CASE subRow' = [subRow EXCEPT ![x.sub] =
                        [here   |-> TRUE,
                         plan   |-> IF @.here THEN @.plan ELSE chain[x.sub].plan,
                         token  |-> IF @.here THEN @.token ELSE chain[x.sub].token,
                         active |-> x.active, paid |-> x.pays, count |-> x.pays]]
  <2> DEFINE r == subRow[x.sub]
  <2>1. PICK n : n = [here   |-> TRUE,
                      plan   |-> IF r.here THEN r.plan ELSE chain[x.sub].plan,
                      token  |-> IF r.here THEN r.token ELSE chain[x.sub].token,
                      active |-> x.active, paid |-> x.pays, count |-> x.pays]
    OBVIOUS
  <2>2. r \in SubRow /\ (r.here => r.plan \in Plans)
    BY <1>1 DEF RowsOK
  <2>3. n \in SubRow /\ n.here /\ n.plan \in Plans
    BY <1>1, <1>2, <2>1, <2>2 DEF SubRow
  <2>4. subRow' = [subRow EXCEPT ![x.sub] = n]
    BY <1>4, <2>1
  <2> QED
    BY <1>1, <2>3, <2>4 DEF RowsOK
<1>5. CASE session[chain[x.sub].token].status # "absent"
           /\ planRow[chain[x.sub].plan].here
  BY <1>4, <1>5 DEF UpsertSub
<1>6. CASE ~(session[chain[x.sub].token].status # "absent"
             /\ planRow[chain[x.sub].plan].here)
  BY <1>3, <1>6 DEF UpsertSub
<1> QED
  BY <1>5, <1>6

LEMMA SyncOK == StateOK /\ Sync => StateOK'
<1> SUFFICES ASSUME StateOK, Sync PROVE StateOK'
  OBVIOUS
<1>1. UNCHANGED <<chain, chainPlans, chainWallets, log, session, recorded,
                  checkpoint, lastSlot, page, hs, submitted, sends, crashes,
                  faults>>
  BY DEF Sync, chainVars
<1>2. /\ sync \in Syncer /\ planRow \in [Plans -> PlanRow]
      /\ walletRows \subseteq Wallets /\ subRow \in [Subs -> SubRow]
      /\ chainWallets \subseteq Wallets /\ RowsOK /\ SnapshotOK
  BY DEF StateOK, TypeOK
<1>3. ASSUME planRow' \in [Plans -> PlanRow], walletRows' \subseteq Wallets,
             subRow' \in [Subs -> SubRow], sync' \in Syncer,
             boot' \in {boot, "syncing"}, SnapshotOK', RowsOK',
             \A s \in Subs : subRow[s].here => subRow'[s].here
      PROVE  StateOK'
  <2>1. TypeOK'
    BY <1>1, <1>3 DEF StateOK, TypeOK
  <2> QED
    BY <1>1, <1>3, <2>1, QuietOK
<1>4. ASSUME UNCHANGED subRow PROVE RowsOK'
  BY <1>2, <1>4 DEF RowsOK
<1> USE DEF Syncer
<1>5. CASE SyncBegin
  <2>1. sync' = [IdleSync EXCEPT !.pc = "writePlans", !.plans = PlanSnapshot]
    BY <1>5 DEF SyncBegin
  <2>2. sync' \in Syncer /\ sync'.subs = {}
    BY <2>1, PlanSnapshotFacts DEF IdleSync
  <2> QED
    BY <1>2, <1>3, <1>4, <1>5, <2>2 DEF SyncBegin, SnapshotOK
<1>6. CASE SyncWritePlan
  <2>1. PICK x \in sync.plans : /\ UpsertPlan(x)
                                /\ sync' = [sync EXCEPT !.plans = @ \ {x}]
    BY <1>6 DEF SyncWritePlan
  <2>2. planRow' \in [Plans -> PlanRow]
    BY <1>2, <2>1, UpsertPlanFacts
  <2>3. sync' \in Syncer /\ sync'.subs = sync.subs
    BY <1>2, <2>1
  <2> QED
    BY <1>1, <1>2, <1>3, <1>4, <1>6, <2>2, <2>3 DEF SyncWritePlan, SnapshotOK, Opened
<1>7. CASE SyncReadWallets
  <2>1. sync' = [sync EXCEPT !.pc = "writeWallets", !.wallets = chainWallets]
    BY <1>7 DEF SyncReadWallets
  <2>2. sync' \in Syncer /\ sync'.subs = sync.subs
    BY <1>2, <2>1
  <2> QED
    BY <1>1, <1>2, <1>3, <1>4, <1>7, <2>2 DEF SyncReadWallets, SnapshotOK, Opened
<1>8. CASE SyncWriteWallet
  <2>1. PICK w \in sync.wallets : /\ walletRows' = walletRows \union {w}
                                  /\ sync' = [sync EXCEPT !.wallets = @ \ {w}]
    BY <1>8 DEF SyncWriteWallet
  <2>2. sync' \in Syncer /\ sync'.subs = sync.subs /\ walletRows' \subseteq Wallets
    BY <1>2, <2>1
  <2> QED
    BY <1>1, <1>2, <1>3, <1>4, <1>8, <2>2 DEF SyncWriteWallet, SnapshotOK, Opened
<1>9. CASE SyncReadSubs
  <2>1. sync' = [sync EXCEPT !.pc = "writeSubs", !.subs = SubSnapshot]
    BY <1>9 DEF SyncReadSubs
  <2>2. sync' \in Syncer /\ sync'.subs = SubSnapshot
    BY <1>2, <2>1, SubSnapshotFacts
  <2>3. \A x \in SubSnapshot : Opened(x.sub)
    BY DEF SubSnapshot, Opened
  <2> QED
    BY <1>1, <1>2, <1>3, <1>4, <1>9, <2>2, <2>3 DEF SyncReadSubs, SnapshotOK, Opened
<1>10. CASE SyncWriteSub
  <2>1. PICK x \in sync.subs : /\ UpsertSub(x)
                               /\ sync' = [sync EXCEPT !.subs = @ \ {x}]
    BY <1>10 DEF SyncWriteSub
  <2>2. x \in SubSnap /\ Opened(x.sub)
    BY <1>2, <2>1 DEF SnapshotOK
  <2>3. /\ subRow' \in [Subs -> SubRow]
        /\ \A s \in Subs : subRow[s].here => subRow'[s].here
        /\ RowsOK'
    BY <2>1, <2>2, UpsertSubFacts DEF RowsOK
  <2>4. sync' \in Syncer /\ sync'.subs \subseteq sync.subs
    BY <1>2, <2>1
  <2> QED
    BY <1>1, <1>2, <1>3, <1>10, <2>3, <2>4 DEF SyncWriteSub, SnapshotOK, Opened
<1>11. CASE SyncEnd
  <2>1. sync' \in Syncer /\ sync'.subs = {}
    BY <1>11 DEF SyncEnd, IdleSync
  <2> QED
    BY <1>2, <1>3, <1>4, <1>11, <2>1 DEF SyncEnd, SnapshotOK
<1> QED
  BY <1>5, <1>6, <1>7, <1>8, <1>9, <1>10, <1>11 DEF Sync

LEMMA SyncErrorOK == StateOK /\ SyncError => StateOK'
<1> SUFFICES ASSUME StateOK, SyncError PROVE StateOK'
  OBVIOUS
<1>1. /\ UNCHANGED <<chain, chainPlans, chainWallets, log, session, planRow,
                     walletRows, subRow, recorded, checkpoint, boot, lastSlot,
                     page, hs, submitted, sends, crashes>>
      /\ faults' = faults + 1
  BY DEF SyncError, chainVars
<1>2. sync \in Syncer /\ faults' \in Nat /\ RowsOK /\ SnapshotOK
  BY <1>1 DEF StateOK, TypeOK
<1>3. sync' \in Syncer /\ sync'.subs \subseteq sync.subs
  BY <1>2 DEF SyncError, IdleSync, Syncer
<1>4. TypeOK'
  BY <1>1, <1>2, <1>3 DEF StateOK, TypeOK
<1>5. RowsOK' /\ SnapshotOK'
  BY <1>1, <1>2, <1>3 DEF RowsOK, SnapshotOK, Opened
<1> QED
  BY <1>1, <1>4, <1>5, QuietOK

\* The page of the backfill lists transactions of the log only.
LEMMA PageFacts ==
  ASSUME StateOK, NEW todo, todo \subseteq 1..Len(log)
  PROVE  LET pg == [j \in 1..Cardinality(todo) |-> Len(log) + 1 - j]
         IN  pg \in Seq(Tx) /\ \A j \in DOMAIN pg : pg[j] <= Len(log)
<1>1. Len(log) \in Nat /\ Len(log) <= MaxTx /\ MaxTx \in Nat
  BY LogFacts
<1>2. /\ IsFiniteSet(1..Len(log))
      /\ Cardinality(1..Len(log)) = Len(log)
  <2>1. /\ IsFiniteSet(1..Len(log))
        /\ Cardinality(1..Len(log)) = IF 1 > Len(log) THEN 0 ELSE Len(log) - 1 + 1
    <3>1. 1 \in Int /\ Len(log) \in Int
      BY <1>1
    <3> QED
      BY <3>1, FS_Interval
  <2> QED
    BY <1>1, <2>1
<1>3. Cardinality(todo) \in Nat /\ Cardinality(todo) <= Len(log)
  BY <1>2, FS_Subset, FS_CardinalityType
<1> DEFINE c == Cardinality(todo)
           pg == [j \in 1..c |-> Len(log) + 1 - j]
<1>4. c \in Nat /\ c <= Len(log)
  BY <1>3
<1> HIDE DEF c
<1>5. \A j \in 1..c : Len(log) + 1 - j \in Tx /\ Len(log) + 1 - j <= Len(log)
  BY <1>1, <1>4 DEF Tx
<1>6. pg \in Seq(Tx)
  <2>1. pg \in [1..c -> Tx]
    BY <1>5
  <2> QED
    BY <1>4, <2>1, SeqDef
<1>7. \A j \in DOMAIN pg : pg[j] <= Len(log)
  BY <1>5
<1> QED
  BY <1>6, <1>7 DEF c

LEMMA BootOK == StateOK /\ Boot => StateOK'
<1> SUFFICES ASSUME StateOK, Boot PROVE StateOK'
  OBVIOUS
<1>1. UNCHANGED <<chain, chainPlans, chainWallets, log, session, planRow,
                  walletRows, subRow, recorded, sync, submitted, sends, crashes>>
  BY DEF Boot, chainVars
<1>2. /\ checkpoint \in Nat /\ lastSlot \in Nat /\ faults \in Nat
      /\ page \in Seq(Tx) /\ hs \in [Tx -> Handler] /\ RowsOK /\ PageOK
      /\ SnapshotOK /\ HandlersOK
  BY DEF StateOK, TypeOK
<1>3. RowsOK' /\ SnapshotOK'
  BY <1>1, <1>2 DEF RowsOK, SnapshotOK, Opened
<1>4. ASSUME checkpoint' \in Nat, lastSlot' \in Nat, faults' \in Nat,
             boot' \in {"down", "fetch", "backfill", "startSync", "syncing", "up"},
             UNCHANGED <<page, hs>>
      PROVE  StateOK'
  <2>1. TypeOK'
    BY <1>1, <1>4 DEF StateOK, TypeOK
  <2> QED
    BY <1>1, <1>3, <1>4, <2>1, QuietOK
<1>5. CASE BootLoad
  BY <1>2, <1>4, <1>5, CurrentSlotNat DEF BootLoad
<1>6. CASE BootFetch
  <2>1. page' \in Seq(Tx) /\ \A j \in DOMAIN page' : page'[j] <= Len(log)
    <3> DEFINE todo == {i \in 1..Len(log) :
                          log[i].slot > lastSlot /\ Len(log) - i < SigLimit}
    <3>1. page' = [j \in 1..Cardinality(todo) |-> Len(log) + 1 - j]
      BY <1>6 DEF BootFetch
    <3>2. todo \subseteq 1..Len(log)
      OBVIOUS
    <3> HIDE DEF todo
    <3> QED
      BY <3>1, <3>2, PageFacts
  <2>2. TypeOK'
    BY <1>1, <1>6, <2>1 DEF StateOK, TypeOK, BootFetch
  <2>3. PageOK'
    BY <1>1, <2>1 DEF PageOK
  <2>4. AccountsOK' /\ LogOK'
    BY <1>1 DEF StateOK, AccountsOK, LogOK, TxOK, Opened
  <2>5. HandlersOK'
    BY <1>1, <1>2, <1>6 DEF HandlersOK, HandlerOK, BootFetch
  <2> QED
    BY <1>3, <2>2, <2>3, <2>4, <2>5 DEF StateOK
<1>7. CASE BootFetchError
  BY <1>2, <1>4, <1>7 DEF BootFetchError
<1>8. CASE BackfillNext
  <2>1. /\ page # <<>> /\ page' = Tail(page)
        /\ hs' = [hs EXCEPT ![Head(page)] = Started(Kind(Head(page)))]
        /\ UNCHANGED <<checkpoint, boot, lastSlot, faults>>
    BY <1>8 DEF BackfillNext
  <2>2. PICK i \in Tx : i = Head(page)
    BY <1>2, <2>1, HeadTailProperties
  <2>3. i <= Len(log) /\ i \in 1..Len(log)
    <3>1. 1 \in DOMAIN page /\ Head(page) = page[1]
      <4>1. Len(page) \in Nat /\ DOMAIN page = 1..Len(page)
        BY <1>2, LenProperties
      <4>2. Len(page) # 0
        BY <1>2, <2>1, EmptySeq
      <4> QED
        BY <1>2, <2>1, <4>1, <4>2, HeadTailProperties
    <3> QED
      BY <1>2, <2>2, <3>1, LogFacts DEF PageOK, Tx
  <2>4. log[i].kind \in {"plan", "wallet", "subscribe", "pay", "cancel"}
    BY <2>3, LogFacts DEF Transaction
  <2>5. PICK h \in Handler : /\ hs' = [hs EXCEPT ![i] = h]
                             /\ h.pc = FirstStep(log[i].kind)
    <3>1. Started(log[i].kind) \in Handler
          /\ Started(log[i].kind).pc = FirstStep(log[i].kind)
      BY DEF Started, FirstStep, IdleHandler, Handler, HandlerPCs
    <3>2. hs' = [hs EXCEPT ![i] = Started(log[i].kind)]
      BY <2>1, <2>2 DEF Kind
    <3> QED
      BY <3>1, <3>2
  <2>6. page' \in Seq(Tx) /\ \A j \in DOMAIN page' : page'[j] <= Len(log)
    <3>1. /\ page' \in Seq(Tx) /\ Len(page') = Len(page) - 1
          /\ \A j \in 1..Len(page') : page'[j] = page[j + 1]
      BY <1>2, <2>1, HeadTailProperties
    <3>2. DOMAIN page = 1..Len(page) /\ DOMAIN page' = 1..Len(page')
          /\ Len(page) \in Nat
      BY <1>2, <3>1, LenProperties
    <3> QED
      BY <1>2, <3>1, <3>2 DEF PageOK
  <2>7. TypeOK'
    BY <1>1, <1>2, <2>1, <2>5, <2>6 DEF StateOK, TypeOK
  <2>8. PageOK'
    BY <1>1, <2>6 DEF PageOK
  <2>9. AccountsOK' /\ LogOK'
    BY <1>1 DEF StateOK, AccountsOK, LogOK, TxOK, Opened
  <2>10. HandlersOK'
    <3> SUFFICES ASSUME NEW j \in Tx PROVE HandlerOK(j, hs[j])'
      BY DEF HandlersOK
    <3>1. CASE j = i
      BY <1>1, <1>2, <2>3, <2>4, <2>5, <3>1 DEF HandlerOK, FirstStep, SubKinds,
         LinkPCs, CreatePCs, PayPCs, CancelPCs, SharedPCs, RowPCs
    <3>2. CASE j # i
      BY <1>1, <1>2, <2>5, <3>2 DEF HandlersOK, HandlerOK
    <3> QED
      BY <3>1, <3>2
  <2> QED
    BY <1>3, <2>7, <2>8, <2>9, <2>10 DEF StateOK
<1>9. CASE BackfillDone
  BY <1>2, <1>4, <1>9 DEF BackfillDone
<1>10. CASE BootListen
  BY <1>2, <1>4, <1>10 DEF BootListen
<1> QED
  BY <1>5, <1>6, <1>7, <1>8, <1>9, <1>10 DEF Boot

LEMMA CrashOK == StateOK /\ Crash => StateOK'
<1> SUFFICES ASSUME StateOK, Crash PROVE StateOK'
  OBVIOUS
<1>1. UNCHANGED <<chain, chainPlans, chainWallets, log, session, planRow,
                  walletRows, subRow, recorded, checkpoint, submitted, sends,
                  faults>>
  BY DEF Crash, chainVars
<1>2. hs' \in [Tx -> Handler] /\ sync' \in Syncer /\ page' \in Seq(Tx)
      /\ boot' = "down" /\ lastSlot' = 0 /\ crashes' \in Nat
  BY DEF Crash, IdleHandler, Handler, HandlerPCs, IdleSync, Syncer, StateOK, TypeOK
<1>3. TypeOK'
  BY <1>1, <1>2 DEF StateOK, TypeOK
<1>4. RowsOK' /\ SnapshotOK' /\ PageOK' /\ AccountsOK' /\ LogOK'
  BY <1>1 DEF StateOK, RowsOK, SnapshotOK, PageOK, AccountsOK, LogOK, TxOK,
     Opened, Crash, IdleSync
<1>5. HandlersOK'
  BY DEF Crash, HandlersOK, HandlerOK, IdleHandler
<1> QED
  BY <1>3, <1>4, <1>5 DEF StateOK

LEMMA StutterOK == StateOK /\ UNCHANGED vars => StateOK'
<1> SUFFICES ASSUME StateOK, UNCHANGED vars PROVE StateOK'
  OBVIOUS
<1>1. TypeOK' /\ RowsOK' /\ SnapshotOK'
  BY DEF vars, StateOK, TypeOK, RowsOK, SnapshotOK, Opened
<1> QED
  BY <1>1, QuietOK DEF vars, StateOK

LEMMA NextStateOK == StateOK /\ [Next]_vars => StateOK'
<1> SUFFICES ASSUME StateOK, [Next]_vars PROVE StateOK'
  OBVIOUS
<1>1. CASE Chain
  BY <1>1, ChainStepOK
<1>2. CASE Checkout
  BY <1>2, CheckoutOK
<1>3. ASSUME NEW i \in Tx, Handle(i) PROVE StateOK'
  BY <1>3, HandleOK
<1>4. ASSUME NEW i \in Tx, HandlerError(i) PROVE StateOK'
  BY <1>4, HandlerErrorOK
<1>5. CASE Sync
  BY <1>5, SyncOK
<1>6. CASE SyncError
  BY <1>6, SyncErrorOK
<1>7. CASE Boot
  BY <1>7, BootOK
<1>8. CASE Crash
  BY <1>8, CrashOK
<1>9. CASE UNCHANGED vars
  BY <1>9, StutterOK
<1> QED
  BY <1>1, <1>2, <1>3, <1>4, <1>5, <1>6, <1>7, <1>8, <1>9 DEF Next

\* The state stays well-formed: every row, snapshot and handler has its type and
\* each running handler works on a transaction its step is meant for.
THEOREM StateInvariant == Spec => []StateOK
<1>1. Init => StateOK
  BY InitStateOK
<1>2. StateOK /\ [Next]_vars => StateOK'
  BY NextStateOK
<1> QED
  BY <1>1, <1>2, PTL DEF Spec

\* Type correctness of the indexer for every chain, database and schedule.
THEOREM TypeCorrect == Spec => []TypeOK
<1>1. StateOK => TypeOK
  BY DEF StateOK
<1> QED
  BY <1>1, StateInvariant, PTL
--------------------------------------------------------------------------------
(* The verification of checkout sessions.                                   *)

\* What the steps of everyone else leave a handler: accounts, sessions, plan rows
\* and transactions are never removed and keep what they name.
Monotone ==
  /\ \A s \in Subs : Opened(s) => /\ Opened(s)'
                                  /\ chain'[s].token = chain[s].token
                                  /\ chain'[s].plan = chain[s].plan
  /\ \A k \in Tokens : session[k].status # "absent" =>
       /\ session'[k].status # "absent"
       /\ session'[k].plan = session[k].plan
  /\ \A p \in Plans : planRow[p].here => planRow'[p].here
  /\ \A i \in 1..Len(log) : log'[i] = log[i]
  /\ Len(log) <= Len(log')

LEMMA UpsertPlanKeeps ==
  ASSUME StateOK, NEW x \in PlanSnap, UpsertPlan(x)
  PROVE  \A p \in Plans : planRow[p].here => planRow'[p].here
BY DEF StateOK, TypeOK, PlanSnap, UpsertPlan, PlanRow

LEMMA EmitMonotone ==
  ASSUME StateOK, NEW kind \in {"plan", "wallet", "subscribe", "pay", "cancel"},
         NEW of \in Subs \union Plans \union Wallets, NEW n \in Nat,
         Emit(kind, of, n),
         \A s \in Subs : Opened(s) => /\ Opened(s)'
                                      /\ chain'[s].token = chain[s].token
                                      /\ chain'[s].plan = chain[s].plan
  PROVE  Monotone
<1>1. Len(log') = Len(log) + 1 /\ \A i \in 1..Len(log) : log'[i] = log[i]
  BY EmitFacts
<1>2. UNCHANGED <<session, planRow>>
  BY DEF Emit
<1> QED
  BY <1>1, <1>2, LogFacts DEF Monotone

LEMMA ChainMonotone == StateOK /\ Chain => Monotone
<1> SUFFICES ASSUME StateOK, Chain PROVE Monotone
  OBVIOUS
<1> USE DEF Opened
<1>0. chain \in [Subs -> Account]
  BY DEF StateOK, TypeOK
<1>1. ASSUME NEW p \in Plans, ChainRegisterPlan(p) PROVE Monotone
  BY <1>1, EmitMonotone DEF ChainRegisterPlan
<1>2. ASSUME NEW w \in Wallets, ChainCreateWallet(w) PROVE Monotone
  BY <1>2, EmitMonotone DEF ChainCreateWallet
<1>3. ASSUME NEW s \in Subs, NEW p \in Plans, NEW k \in Tokens,
             ChainSubscribe(s, p, k)
      PROVE  Monotone
  <2>1. \A t \in Subs : chain[t].status # "none" => chain'[t] = chain[t]
    BY <1>0, <1>3 DEF ChainSubscribe
  <2> QED
    BY <1>3, <2>1, EmitMonotone DEF ChainSubscribe
<1>4. ASSUME NEW s \in Subs, ChainPay(s) PROVE Monotone
  <2>1. \A t \in Subs : /\ chain'[t].status = chain[t].status
                        /\ chain'[t].token = chain[t].token
                        /\ chain'[t].plan = chain[t].plan
    BY <1>0, <1>4 DEF ChainPay, Account
  <2>2. chain[s].pays + 1 \in Nat
    BY <1>0 DEF Account
  <2> QED
    BY <1>4, <2>1, <2>2, EmitMonotone DEF ChainPay
<1>5. ASSUME NEW s \in Subs, ChainCancel(s) PROVE Monotone
  <2>1. \A t \in Subs : /\ chain[t].status # "none" => chain'[t].status # "none"
                        /\ chain'[t].token = chain[t].token
                        /\ chain'[t].plan = chain[t].plan
    BY <1>0, <1>5 DEF ChainCancel, Account
  <2> QED
    BY <1>5, <2>1, EmitMonotone DEF ChainCancel
<1> QED
  BY <1>1, <1>2, <1>3, <1>4, <1>5 DEF Chain

LEMMA HandleMonotone ==
  ASSUME StateOK, NEW i \in Tx, Handle(i)
  PROVE  Monotone
<1>1. HandlerStep(i) /\ UNCHANGED <<chain, log>>
  BY DEF Handle, chainVars
<1>2. session \in [Tokens -> Session] /\ planRow \in [Plans -> PlanRow]
      /\ hs \in [Tx -> Handler]
  BY DEF StateOK, TypeOK
<1>3. \A k \in Tokens : session[k].status # "absent" =>
        session'[k].status # "absent" /\ session'[k].plan = session[k].plan
  <2>1. CASE UNCHANGED session
    BY <2>1
  <2>2. CASE HFailSession(i)
    BY <1>2, <2>2 DEF HFailSession, Session
  <2>3. CASE HCompleteSession(i)
    <3>1. PICK t : t = chain[log[i].of].token
      OBVIOUS
    <3>2. session' = [session EXCEPT ![t].status = "completed",
                                     ![t].sub = log[i].of]
      BY <2>3, <3>1 DEF HCompleteSession
    <3> QED
      BY <1>2, <3>2 DEF Session
  <2> QED
    BY <1>1, <2>1, <2>2, <2>3 DEF HandlerStep, HFindSub, HFindPlan, HReadPlans,
       HWritePlan, HPlansWritten, HFindSession, HCreateSub, HIncPlan, HTouchWallet,
       HUpsertWallet, HPayRow, HReadRevenue, HPayPlan, HDeactivate, HDecPlan,
       HRecord, HNotify, HSave
<1>4. \A p \in Plans : planRow[p].here => planRow'[p].here
  <2>1. CASE UNCHANGED planRow
    BY <2>1
  <2>2. CASE HWritePlan(i)
    <3>1. PICK x \in hs[i].snap : UpsertPlan(x)
      BY <2>2 DEF HWritePlan
    <3>2. x \in PlanSnap
      BY <1>2, <3>1 DEF Handler
    <3> QED
      BY <3>1, <3>2, UpsertPlanKeeps
  <2>3. CASE HIncPlan(i)
    BY <1>2, <2>3 DEF HIncPlan, PlanRow
  <2>4. CASE HPayPlan(i)
    BY <1>2, <2>4 DEF HPayPlan, PlanRow
  <2>5. CASE HDecPlan(i)
    BY <1>2, <2>5 DEF HDecPlan, PlanRow
  <2> QED
    BY <1>1, <2>1, <2>2, <2>3, <2>4, <2>5 DEF HandlerStep, HFindSub, HFindPlan,
       HReadPlans, HPlansWritten, HFindSession, HFailSession, HCompleteSession,
       HCreateSub, HTouchWallet, HUpsertWallet, HPayRow, HReadRevenue,
       HDeactivate, HRecord, HNotify, HSave
<1> QED
  BY <1>1, <1>3, <1>4, LogFacts DEF Monotone, Opened

LEMMA SyncMonotone == StateOK /\ Sync => Monotone
<1> SUFFICES ASSUME StateOK, Sync PROVE Monotone
  OBVIOUS
<1>1. UNCHANGED <<chain, log, session>>
  BY DEF Sync, chainVars
<1>2. \A p \in Plans : planRow[p].here => planRow'[p].here
  <2>1. CASE UNCHANGED planRow
    BY <2>1
  <2>2. CASE SyncWritePlan
    <3>1. PICK x \in sync.plans : UpsertPlan(x)
      BY <2>2 DEF SyncWritePlan
    <3>2. x \in PlanSnap
      BY <3>1 DEF StateOK, TypeOK, Syncer
    <3> QED
      BY <3>1, <3>2, UpsertPlanKeeps
  <2> QED
    BY <2>1, <2>2 DEF Sync, SyncBegin, SyncReadWallets, SyncWriteWallet,
       SyncReadSubs, SyncWriteSub, SyncEnd
<1> QED
  BY <1>1, <1>2, LogFacts DEF Monotone, Opened

LEMMA CheckoutMonotone == StateOK /\ Checkout => Monotone
<1> SUFFICES ASSUME StateOK, Checkout PROVE Monotone
  OBVIOUS
<1>1. UNCHANGED <<chain, log, planRow>>
  BY DEF Checkout, CreateSession, CompleteSession, CancelSession, chainVars
<1>2. session \in [Tokens -> Session]
  BY DEF StateOK, TypeOK
<1>3. \A k \in Tokens : session[k].status # "absent" =>
        session'[k].status # "absent" /\ session'[k].plan = session[k].plan
  <2>1. ASSUME NEW k \in Tokens, NEW p \in Plans, CreateSession(k, p)
        PROVE  \A t \in Tokens : session[t].status # "absent" =>
                 session'[t] = session[t]
    BY <1>2, <2>1 DEF CreateSession
  <2>2. ASSUME NEW k \in Tokens, CancelSession(k)
        PROVE  \A t \in Tokens : session[t].status # "absent" =>
                 session'[t].status # "absent" /\ session'[t].plan = session[t].plan
    BY <1>2, <2>2 DEF CancelSession, Session
  <2>3. ASSUME NEW k \in Tokens, CompleteSession(k) PROVE UNCHANGED session
    BY <2>3 DEF CompleteSession
  <2> QED
    BY <2>1, <2>2, <2>3 DEF Checkout
<1> QED
  BY <1>1, <1>3, LogFacts DEF Monotone, Opened

LEMMA NextMonotone == StateOK /\ [Next]_vars => Monotone
<1> SUFFICES ASSUME StateOK, [Next]_vars PROVE Monotone
  OBVIOUS
<1>1. ASSUME UNCHANGED <<chain, log, session, planRow>> PROVE Monotone
  BY <1>1, LogFacts DEF Monotone, Opened
<1>2. ASSUME NEW i \in Tx, HandlerError(i) PROVE Monotone
  BY <1>1, <1>2 DEF HandlerError, chainVars
<1>3. CASE SyncError
  BY <1>1, <1>3 DEF SyncError, chainVars
<1>4. CASE Boot
  BY <1>1, <1>4 DEF Boot, chainVars
<1>5. CASE Crash
  BY <1>1, <1>5 DEF Crash, chainVars
<1>6. CASE UNCHANGED vars
  BY <1>1, <1>6 DEF vars
<1> QED
  BY <1>2, <1>3, <1>4, <1>5, <1>6, ChainMonotone, HandleMonotone, SyncMonotone,
     CheckoutMonotone DEF Next

\* Only the verification step of a handler completes a session.
LEMMA CompletionSource ==
  ASSUME StateOK, [Next]_vars, NEW k \in Tokens, session'[k].status = "completed"
  PROVE  \/ session[k].status = "completed" /\ session'[k].sub = session[k].sub
         \/ \E i \in Tx : /\ hs[i].pc = "completeSession"
                          /\ k = chain[log[i].of].token
                          /\ session'[k].sub = log[i].of
<1>0. session \in [Tokens -> Session]
  BY DEF StateOK, TypeOK
<1>1. CASE UNCHANGED session
  BY <1>1
<1>2. ASSUME NEW t \in Tokens, NEW p \in Plans, CreateSession(t, p)
      PROVE  session[k].status = "completed" /\ session'[k].sub = session[k].sub
  BY <1>0, <1>2 DEF CreateSession
<1>3. ASSUME NEW t \in Tokens, CancelSession(t)
      PROVE  session[k].status = "completed" /\ session'[k].sub = session[k].sub
  BY <1>0, <1>3 DEF CancelSession, Session
<1>4. ASSUME NEW i \in Tx, HFailSession(i)
      PROVE  session[k].status = "completed" /\ session'[k].sub = session[k].sub
  BY <1>0, <1>4 DEF HFailSession, Session
<1>5. ASSUME NEW i \in Tx, HCompleteSession(i)
      PROVE  \/ session[k].status = "completed" /\ session'[k].sub = session[k].sub
             \/ /\ hs[i].pc = "completeSession"
                /\ k = chain[log[i].of].token
                /\ session'[k].sub = log[i].of
  <2>1. PICK t : t = chain[log[i].of].token
    OBVIOUS
  <2>2. session' = [session EXCEPT ![t].status = "completed", ![t].sub = log[i].of]
        /\ hs[i].pc = "completeSession"
    BY <1>5, <2>1 DEF HCompleteSession, AtPC
  <2> QED
    BY <1>0, <2>1, <2>2 DEF Session
<1>6. ASSUME NEW i \in Tx, Handle(i)
      PROVE  UNCHANGED session \/ HFailSession(i) \/ HCompleteSession(i)
  BY <1>6 DEF Handle, HandlerStep, HFindSub, HFindPlan, HReadPlans, HWritePlan,
     HPlansWritten, HFindSession, HCreateSub, HIncPlan, HTouchWallet,
     HUpsertWallet, HPayRow, HReadRevenue, HPayPlan, HDeactivate, HDecPlan,
     HRecord, HNotify, HSave
<1>7. ASSUME Chain PROVE UNCHANGED session
  BY <1>7 DEF Chain, ChainRegisterPlan, ChainCreateWallet, ChainSubscribe,
     ChainPay, ChainCancel, Emit
<1>8. ASSUME Checkout
      PROVE  \/ UNCHANGED session
             \/ \E t \in Tokens, p \in Plans : CreateSession(t, p)
             \/ \E t \in Tokens : CancelSession(t)
  BY <1>8 DEF Checkout, CompleteSession
<1>9. ASSUME Sync \/ SyncError \/ Boot \/ Crash \/ UNCHANGED vars
             \/ \E i \in Tx : HandlerError(i)
      PROVE  UNCHANGED session
  BY <1>9 DEF Sync, SyncError, Boot, Crash, vars, HandlerError
<1> QED
  BY <1>1, <1>2, <1>3, <1>4, <1>5, <1>6, <1>7, <1>8, <1>9 DEF Next

\* A subscription row is inserted by the creation handler or by the sync, and
\* keeps its plan and its token.
LEMMA RowSource ==
  ASSUME StateOK, [Next]_vars, NEW s \in Subs, subRow'[s].here
  PROVE  \/ /\ subRow[s].here
            /\ subRow'[s].plan = subRow[s].plan
            /\ subRow'[s].token = subRow[s].token
         \/ \E i \in Tx : /\ hs[i].pc = "createSub" /\ log[i].of = s
                          /\ subRow'[s].plan = hs[i].plan
                          /\ subRow'[s].token = chain[s].token
         \/ /\ \E x \in sync.subs : x.sub = s
            /\ session[chain[s].token].status # "absent"
            /\ planRow[chain[s].plan].here
            /\ subRow'[s].plan = chain[s].plan
            /\ subRow'[s].token = chain[s].token
<1>0. subRow \in [Subs -> SubRow] /\ sync \in Syncer
  BY DEF StateOK, TypeOK
<1>1. CASE UNCHANGED subRow
  BY <1>1
<1> DEFINE Kept == /\ subRow[s].here
                   /\ subRow'[s].plan = subRow[s].plan
                   /\ subRow'[s].token = subRow[s].token
<1>2. ASSUME NEW i \in Tx, HCreateSub(i)
      PROVE  \/ Kept
             \/ /\ hs[i].pc = "createSub" /\ log[i].of = s
                /\ subRow'[s].plan = hs[i].plan
                /\ subRow'[s].token = chain[s].token
  BY <1>0, <1>2 DEF HCreateSub, AtPC
<1>3. ASSUME NEW i \in Tx, HPayRow(i) PROVE Kept
  <2>1. PICK t : t = log[i].of
    OBVIOUS
  <2>2. subRow' = [subRow EXCEPT ![t].paid = hs[i].val + 1, ![t].count = log[i].n]
    BY <1>3, <2>1 DEF HPayRow
  <2> QED
    BY <1>0, <2>2 DEF SubRow
<1>4. ASSUME NEW i \in Tx, HDeactivate(i) PROVE Kept
  <2>1. PICK t : t = log[i].of
    OBVIOUS
  <2>2. subRow' = [subRow EXCEPT ![t].active = FALSE]
    BY <1>4, <2>1 DEF HDeactivate
  <2> QED
    BY <1>0, <2>2 DEF SubRow
<1>5. ASSUME NEW x \in sync.subs, UpsertSub(x)
      PROVE  \/ Kept
             \/ /\ x.sub = s
                /\ session[chain[s].token].status # "absent"
                /\ planRow[chain[s].plan].here
                /\ subRow'[s].plan = chain[s].plan
                /\ subRow'[s].token = chain[s].token
  <2>1. CASE UNCHANGED subRow
    BY <2>1
  <2>2. CASE /\ session[chain[x.sub].token].status # "absent"
             /\ planRow[chain[x.sub].plan].here
    <3>1. subRow' = [subRow EXCEPT ![x.sub] =
                       [here   |-> TRUE,
                        plan   |-> IF @.here THEN @.plan ELSE chain[x.sub].plan,
                        token  |-> IF @.here THEN @.token ELSE chain[x.sub].token,
                        active |-> x.active, paid |-> x.pays, count |-> x.pays]]
      BY <1>5, <2>2 DEF UpsertSub
    <3>2. CASE x.sub = s
      <4> DEFINE r == subRow[s]
      <4>1. subRow'[s] =
              [here   |-> TRUE,
               plan   |-> IF r.here THEN r.plan ELSE chain[s].plan,
               token  |-> IF r.here THEN r.token ELSE chain[s].token,
               active |-> x.active, paid |-> x.pays, count |-> x.pays]
        BY <1>0, <3>1, <3>2
      <4>2. /\ subRow'[s].plan = IF r.here THEN r.plan ELSE chain[s].plan
            /\ subRow'[s].token = IF r.here THEN r.token ELSE chain[s].token
        BY <4>1
      <4> QED
        BY <2>2, <3>2, <4>2
    <3>3. CASE x.sub # s
      BY <1>0, <3>1, <3>3
    <3> QED
      BY <3>2, <3>3
  <2> QED
    BY <1>5, <2>1, <2>2 DEF UpsertSub
<1>6. ASSUME NEW i \in Tx, Handle(i)
      PROVE  UNCHANGED subRow \/ HCreateSub(i) \/ HPayRow(i) \/ HDeactivate(i)
  BY <1>6 DEF Handle, HandlerStep, HFindSub, HFindPlan, HReadPlans, HWritePlan,
     HPlansWritten, HFindSession, HFailSession, HCompleteSession, HIncPlan,
     HTouchWallet, HUpsertWallet, HReadRevenue, HPayPlan, HDecPlan, HRecord,
     HNotify, HSave
<1>7. ASSUME Chain PROVE UNCHANGED subRow
  BY <1>7 DEF Chain, ChainRegisterPlan, ChainCreateWallet, ChainSubscribe,
     ChainPay, ChainCancel, Emit
<1>8. ASSUME Sync PROVE UNCHANGED subRow \/ \E x \in sync.subs : UpsertSub(x)
  BY <1>8 DEF Sync, SyncBegin, SyncWritePlan, SyncReadWallets, SyncWriteWallet,
     SyncReadSubs, SyncWriteSub, SyncEnd
<1>9. ASSUME Checkout \/ SyncError \/ Boot \/ Crash \/ UNCHANGED vars
             \/ \E i \in Tx : HandlerError(i)
      PROVE  UNCHANGED subRow
  BY <1>9 DEF Checkout, CreateSession, CompleteSession, CancelSession, SyncError,
     Boot, Crash, vars, HandlerError
<1> QED
  BY <1>1, <1>2, <1>3, <1>4, <1>5, <1>6, <1>7, <1>8, <1>9 DEF Next
--------------------------------------------------------------------------------
(* The steps of one handler.                                                *)

\* A handler starts for the newest transaction, or for the head of the page.
Starts(i) ==
  \/ i = Len(log) + 1 /\ boot = "up"
  \/ BackfillNext /\ i = Head(page)

\* Which step follows which, whoever takes the step.
HandlerMove(i) ==
  LET a == hs[i].pc
      b == hs'[i].pc
  IN \/ hs'[i] = hs[i]
     \/ b = "idle"
     \/ a # "idle" /\ b = "save"
     \/ a = "idle" /\ b \in {"findSub", "readPlans", "upsertWallet"} /\ Starts(i)
     \/ /\ a \in {"findSub", "findPlan", "refindPlan", "readPlans", "writePlans"}
        /\ b \in {"findPlan", "refindPlan", "readPlans", "writePlans", "findSession"}
     \/ a = "findSub" /\ b \in {"payRow", "deactivate"}
     \/ /\ a \in {"findSession", "failSession", "completeSession"}
        /\ b = "failCaught" /\ faults' = faults + 1
     \/ HFindSession(i) /\ b \in {"failSession", "completeSession"}
     \/ HCompleteSession(i) /\ b = "createSub"
     \/ a = "createSub" /\ b = "incPlan"
     \/ a \in {"incPlan", "decPlan"} /\ b = "touchWallet"
     \/ a = "payRow" /\ b = "readRevenue"
     \/ HReadRevenue(i) /\ b = "payPlan"
     \/ a \in {"touchWallet", "payPlan"} /\ b = "record"
     \/ a = "deactivate" /\ b = "decPlan"
     \/ HRecord(i) /\ b = "notify"

LEMMA HandleMoves ==
  ASSUME StateOK, NEW i \in Tx, Handle(i)
  PROVE  HandlerMove(i) /\ \A j \in Tx : j # i => hs'[j] = hs[j]
<1>0. hs \in [Tx -> Handler]
  BY DEF StateOK, TypeOK
<1>1. Returned \in {"idle", "save"} \cap HandlerPCs
  BY DEF Returned, HandlerPCs
<1> DEFINE Others == \A j \in Tx : j # i => hs'[j] = hs[j]
<1>2. ASSUME NEW pc \in HandlerPCs, GoTo(i, pc)
      PROVE  hs'[i].pc = pc /\ Others
  BY <1>2, GoToAdvance
<1> HIDE DEF Others
<1>3. ASSUME HFindSub(i) PROVE HandlerMove(i) /\ Others
  <2>1. hs[i].pc = "findSub"
    BY <1>3 DEF HFindSub, AtPC
  <2>2. CASE hs' = [hs EXCEPT ![i].pc = "payRow", ![i].val = subRow[log[i].of].paid]
    <3>1. PICK v : v = subRow[log[i].of].paid
      OBVIOUS
    <3>2. hs' = [hs EXCEPT ![i].pc = "payRow", ![i].val = v]
      BY <2>2, <3>1
    <3>3. hs'[i].pc = "payRow" /\ Others
      BY <1>0, <3>2 DEF Handler, Others
    <3> QED
      BY <2>1, <3>3 DEF HandlerMove
  <2>3. CASE \E pc \in {"findPlan", "deactivate", Returned} : GoTo(i, pc)
    <3>1. PICK pc \in {"findPlan", "deactivate", Returned} : GoTo(i, pc)
      BY <2>3
    <3>2. hs'[i].pc = pc /\ Others
      BY <1>1, <1>2, <3>1 DEF HandlerPCs
    <3> QED
      BY <1>1, <2>1, <3>2 DEF HandlerMove
  <2> QED
    BY <1>3, <2>2, <2>3 DEF HFindSub
<1>4. ASSUME HFindPlan(i) PROVE HandlerMove(i) /\ Others
  <2>1. hs[i].pc \in {"findPlan", "refindPlan"}
    BY <1>4 DEF HFindPlan
  <2>2. ASSUME NEW p, hs' = [hs EXCEPT ![i].plan = p, ![i].pc = "findSession"]
        PROVE  hs'[i].pc = "findSession" /\ Others
    BY <1>0, <2>2 DEF Handler, Others
  <2>3. CASE \E pc \in {"readPlans", Returned} : GoTo(i, pc)
    <3>1. PICK pc \in {"readPlans", Returned} : GoTo(i, pc)
      BY <2>3
    <3>2. hs'[i].pc = pc /\ Others
      BY <1>1, <1>2, <3>1 DEF HandlerPCs
    <3> QED
      BY <1>1, <2>1, <3>2 DEF HandlerMove
  <2>4. CASE hs'[i].pc = "findSession" /\ Others
    BY <2>1, <2>4 DEF HandlerMove
  <2> QED
    BY <1>4, <2>2, <2>3, <2>4 DEF HFindPlan
<1>5. ASSUME HReadPlans(i) PROVE HandlerMove(i) /\ Others
  <2>1. PICK v : v = PlanSnapshot
    OBVIOUS
  <2>2. hs' = [hs EXCEPT ![i].pc = "writePlans", ![i].snap = v] /\ hs[i].pc = "readPlans"
    BY <1>5, <2>1 DEF HReadPlans, AtPC
  <2>3. hs'[i].pc = "writePlans" /\ Others
    BY <1>0, <2>2 DEF Handler, Others
  <2> QED
    BY <2>2, <2>3 DEF HandlerMove
<1>6. ASSUME HWritePlan(i) PROVE HandlerMove(i) /\ Others
  <2>1. hs'[i].pc = "writePlans" /\ hs[i].pc = "writePlans" /\ Others
    BY <1>0, <1>6 DEF HWritePlan, Handler, AtPC, Others
  <2> QED
    BY <2>1 DEF HandlerMove
<1>7. ASSUME HPlansWritten(i) PROVE HandlerMove(i) /\ Others
  <2>1. hs[i].pc = "writePlans" /\ \E pc \in {"refindPlan", Returned} : GoTo(i, pc)
    BY <1>7 DEF HPlansWritten, AtPC
  <2>2. PICK pc \in {"refindPlan", Returned} : GoTo(i, pc)
    BY <2>1
  <2>3. hs'[i].pc = pc /\ Others
    BY <1>1, <1>2, <2>2 DEF HandlerPCs
  <2> QED
    BY <1>1, <2>1, <2>2, <2>3 DEF HandlerMove
<1>8. ASSUME HFindSession(i) PROVE HandlerMove(i) /\ Others
  <2>1. PICK pc \in {"failSession", "completeSession", Returned} : GoTo(i, pc)
    BY <1>8 DEF HFindSession
  <2>2. hs[i].pc = "findSession"
    BY <1>8 DEF HFindSession, AtPC
  <2>3. hs'[i].pc = pc /\ Others
    BY <1>1, <1>2, <2>1 DEF HandlerPCs
  <2> QED
    BY <1>1, <1>8, <2>1, <2>2, <2>3 DEF HandlerMove
<1>9. ASSUME HFailSession(i) \/ HUpsertWallet(i) \/ HNotify(i) \/ HSave(i)
      PROVE  HandlerMove(i) /\ Others
  <2>1. hs[i].pc # "idle" /\ \E pc \in {"idle", "save"} : GoTo(i, pc)
    BY <1>1, <1>9 DEF HFailSession, HUpsertWallet, HNotify, HSave, AtPC
  <2>2. PICK pc \in {"idle", "save"} : GoTo(i, pc)
    BY <2>1
  <2>3. hs'[i].pc = pc /\ Others
    BY <1>2, <2>2 DEF HandlerPCs
  <2> QED
    BY <2>1, <2>2, <2>3 DEF HandlerMove
<1>10. ASSUME HCompleteSession(i) PROVE HandlerMove(i) /\ Others
  <2>1. hs'[i].pc = "createSub" /\ Others
    BY <1>2, <1>10 DEF HCompleteSession, HandlerPCs
  <2> QED
    BY <1>10, <2>1 DEF HandlerMove
<1>11. ASSUME HCreateSub(i) PROVE HandlerMove(i) /\ Others
  <2>1. hs[i].pc = "createSub" /\ \E pc \in {"idle", "incPlan"} : GoTo(i, pc)
    BY <1>11 DEF HCreateSub, AtPC
  <2>2. PICK pc \in {"idle", "incPlan"} : GoTo(i, pc)
    BY <2>1
  <2>3. hs'[i].pc = pc /\ Others
    BY <1>2, <2>2 DEF HandlerPCs
  <2> QED
    BY <2>1, <2>2, <2>3 DEF HandlerMove
<1>12. ASSUME HIncPlan(i) \/ HDecPlan(i) PROVE HandlerMove(i) /\ Others
  <2>1. hs[i].pc \in {"incPlan", "decPlan"} /\ GoTo(i, "touchWallet")
    BY <1>12 DEF HIncPlan, HDecPlan, AtPC
  <2>2. hs'[i].pc = "touchWallet" /\ Others
    BY <1>2, <2>1 DEF HandlerPCs
  <2> QED
    BY <2>1, <2>2 DEF HandlerMove
<1>13. ASSUME HTouchWallet(i) \/ HPayPlan(i) PROVE HandlerMove(i) /\ Others
  <2>1. hs[i].pc \in {"touchWallet", "payPlan"} /\ \E pc \in {"idle", "record"} : GoTo(i, pc)
    BY <1>13 DEF HTouchWallet, HPayPlan, AtPC
  <2>2. PICK pc \in {"idle", "record"} : GoTo(i, pc)
    BY <2>1
  <2>3. hs'[i].pc = pc /\ Others
    BY <1>2, <2>2 DEF HandlerPCs
  <2> QED
    BY <2>1, <2>2, <2>3 DEF HandlerMove
<1>14. ASSUME HPayRow(i) PROVE HandlerMove(i) /\ Others
  <2>1. hs[i].pc = "payRow" /\ hs'[i].pc = "readRevenue" /\ Others
    BY <1>2, <1>14 DEF HPayRow, AtPC, HandlerPCs
  <2> QED
    BY <2>1 DEF HandlerMove
<1>15. ASSUME HReadRevenue(i) PROVE HandlerMove(i) /\ Others
  <2>1. PICK v : v = planRow[subRow[log[i].of].plan].revenue
    OBVIOUS
  <2>2. hs' = [hs EXCEPT ![i].pc = "payPlan", ![i].val = v]
    BY <1>15, <2>1 DEF HReadRevenue
  <2>3. hs'[i].pc = "payPlan" /\ Others
    BY <1>0, <2>2 DEF Handler, Others
  <2> QED
    BY <1>15, <2>3 DEF HandlerMove
<1>16. ASSUME HDeactivate(i) PROVE HandlerMove(i) /\ Others
  <2>1. hs[i].pc = "deactivate" /\ hs'[i].pc = "decPlan" /\ Others
    BY <1>2, <1>16 DEF HDeactivate, AtPC, HandlerPCs
  <2> QED
    BY <2>1 DEF HandlerMove
<1>17. ASSUME HRecord(i) PROVE HandlerMove(i) /\ Others
  <2>1. hs'[i].pc = "notify" /\ Others
    BY <1>2, <1>17 DEF HRecord, HandlerPCs
  <2> QED
    BY <1>17, <2>1 DEF HandlerMove
<1> QED
  BY <1>3, <1>4, <1>5, <1>6, <1>7, <1>8, <1>9, <1>10, <1>11, <1>12, <1>13, <1>14,
     <1>15, <1>16, <1>17 DEF Handle, HandlerStep, Others

LEMMA EmitLength ==
  ASSUME StateOK, NEW kind, NEW of, NEW n, Emit(kind, of, n)
  PROVE  /\ Len(log') = Len(log) + 1
         /\ log'[Len(log) + 1].kind = kind /\ log'[Len(log) + 1].of = of
<1>1. PICK d \in SlotSteps :
        log' = Append(log, [kind |-> kind, of |-> of, n |-> n,
                            slot |-> CurrentSlot + d])
  BY DEF Emit
<1>2. PICK e : e = [kind |-> kind, of |-> of, n |-> n, slot |-> CurrentSlot + d]
  OBVIOUS
<1>3. log' = Append(log, e) /\ log \in Seq(Transaction)
  BY <1>1, <1>2, LogFacts
<1>4. Len(log') = Len(log) + 1 /\ log'[Len(log) + 1] = e
  BY <1>3, AppendProperties
<1> QED
  BY <1>2, <1>4

LEMMA NextMoves ==
  ASSUME StateOK, [Next]_vars
  PROVE  \A j \in Tx : HandlerMove(j)
<1>0. hs \in [Tx -> Handler]
  BY DEF StateOK, TypeOK
<1>1. CASE UNCHANGED hs
  BY <1>1 DEF HandlerMove
<1>2. ASSUME NEW i \in Tx, Handle(i) PROVE \A j \in Tx : HandlerMove(j)
  <2>1. HandlerMove(i) /\ \A j \in Tx : j # i => hs'[j] = hs[j]
    BY <1>2, HandleMoves
  <2> QED
    BY <2>1 DEF HandlerMove
<1>3. ASSUME NEW i \in Tx, HandlerError(i) PROVE \A j \in Tx : HandlerMove(j)
  <2>1. hs[i].pc # "idle" /\ faults' = faults + 1
    BY <1>3 DEF HandlerError, Running
  <2>2. CASE /\ GoTo(i, "failCaught")
             /\ hs[i].pc \in {"findSession", "failSession", "completeSession"}
    <3>1. hs'[i].pc = "failCaught" /\ \A j \in Tx : j # i => hs'[j] = hs[j]
      BY <2>2, GoToAdvance DEF HandlerPCs
    <3> QED
      BY <2>1, <2>2, <3>1 DEF HandlerMove
  <2>3. CASE \E pc \in {"idle", "save"} : GoTo(i, pc)
    <3>1. PICK pc \in {"idle", "save"} : GoTo(i, pc)
      BY <2>3
    <3>2. hs'[i].pc = pc /\ \A j \in Tx : j # i => hs'[j] = hs[j]
      BY <3>1, GoToAdvance DEF HandlerPCs
    <3> QED
      BY <2>1, <3>2 DEF HandlerMove
  <2>4. Returned \in {"idle", "save"}
    BY DEF Returned
  <2>5. CASE hs[i].pc \in {"findSession", "failSession", "completeSession"}
    BY <1>3, <2>2, <2>5 DEF HandlerError
  <2>6. CASE hs[i].pc \in {"failCaught", "notify"}
    BY <1>3, <2>3, <2>4, <2>6 DEF HandlerError
  <2>7. CASE hs[i].pc \notin {"findSession", "failSession", "completeSession",
                             "failCaught", "notify"}
    BY <1>3, <2>3, <2>7 DEF HandlerError
  <2> QED
    BY <2>5, <2>6, <2>7
<1>4. ASSUME NEW kind, NEW of, NEW n, Emit(kind, of, n)
      PROVE  \A j \in Tx : HandlerMove(j)
  <2>1. PICK m : m = Len(log) + 1
    OBVIOUS
  <2>2. PICK h : h = Started(kind)
    OBVIOUS
  <2>3. h.pc \in {"findSub", "readPlans", "upsertWallet"}
    <3>1. Started(kind).pc = FirstStep(kind)
      BY DEF Started, IdleHandler
    <3> QED
      BY <2>2, <3>1 DEF FirstStep
  <2>4. \A j \in Tx : hs'[j] = hs[j] \/ (j = m /\ boot = "up" /\ hs'[j] = h)
    <3>1. UNCHANGED hs \/ (boot = "up" /\ hs' = [hs EXCEPT ![m] = h])
      BY <1>4, <2>1, <2>2 DEF Emit
    <3> QED
      BY <1>0, <3>1
  <2>5. ASSUME NEW j \in Tx, j = m PROVE hs[j].pc = "idle"
    <3>1. ~(j <= Len(log))
      BY <2>1, <2>5, LogFacts
    <3> QED
      BY <3>1 DEF StateOK, HandlersOK, HandlerOK
  <2> QED
    BY <2>1, <2>3, <2>4, <2>5 DEF HandlerMove, Starts
<1>5. ASSUME Chain PROVE \A j \in Tx : HandlerMove(j)
  <2>1. ASSUME NEW p \in Plans, ChainRegisterPlan(p) PROVE Emit("plan", p, 0)
    BY <2>1 DEF ChainRegisterPlan
  <2>2. ASSUME NEW w \in Wallets, ChainCreateWallet(w) PROVE Emit("wallet", w, 0)
    BY <2>2 DEF ChainCreateWallet
  <2>3. ASSUME NEW s \in Subs, NEW p \in Plans, NEW k \in Tokens,
               ChainSubscribe(s, p, k)
        PROVE Emit("subscribe", s, 0)
    BY <2>3 DEF ChainSubscribe
  <2>4. ASSUME NEW s \in Subs, ChainPay(s) PROVE Emit("pay", s, chain[s].pays + 1)
    BY <2>4 DEF ChainPay
  <2>5. ASSUME NEW s \in Subs, ChainCancel(s) PROVE Emit("cancel", s, 0)
    BY <2>5 DEF ChainCancel
  <2> QED
    BY <1>4, <1>5, <2>1, <2>2, <2>3, <2>4, <2>5 DEF Chain
<1>6. ASSUME BackfillNext PROVE \A j \in Tx : HandlerMove(j)
  <2>1. PICK m : m = Head(page)
    OBVIOUS
  <2>2. PICK h : h = Started(Kind(m))
    OBVIOUS
  <2>3. h.pc \in {"findSub", "readPlans", "upsertWallet"}
    <3>1. PICK kind : kind = Kind(m)
      OBVIOUS
    <3>2. Started(kind).pc = FirstStep(kind)
      BY DEF Started, IdleHandler
    <3> QED
      BY <2>2, <3>1, <3>2 DEF FirstStep
  <2>4. hs' = [hs EXCEPT ![m] = h]
    BY <1>6, <2>1, <2>2 DEF BackfillNext
  <2>5. \A j \in Tx : hs[j].pc = "idle"
    BY <1>6 DEF BackfillNext, BackfillIdle, Running
  <2>6. \A j \in Tx : hs'[j] = hs[j] \/ (j = m /\ hs'[j] = h)
    BY <1>0, <2>4
  <2> QED
    BY <1>6, <2>1, <2>3, <2>5, <2>6 DEF HandlerMove, Starts
<1>7. ASSUME Boot PROVE BackfillNext \/ UNCHANGED hs
  BY <1>7 DEF Boot, BootLoad, BootFetch, BootFetchError, BackfillDone, BootListen
<1>8. ASSUME Crash PROVE \A j \in Tx : HandlerMove(j)
  BY <1>8 DEF Crash, IdleHandler, HandlerMove
<1>9. ASSUME Checkout \/ Sync \/ SyncError \/ UNCHANGED vars
      PROVE  UNCHANGED hs
  BY <1>9 DEF Checkout, CreateSession, CompleteSession, CancelSession, procVars,
     Sync, SyncError, vars
<1> QED
  BY <1>1, <1>2, <1>3, <1>5, <1>6, <1>7, <1>8, <1>9 DEF Next

\* What can happen to an idle handler.
LEMMA IdleMoves ==
  ASSUME NEW i \in Tx, HandlerMove(i), hs[i].pc = "idle"
  PROVE  /\ hs'[i].pc = "idle" \/ Starts(i)
         /\ hs'[i].pc \in {"idle", "findSub", "readPlans", "upsertWallet"}
BY DEF HandlerMove, HFindSession, HCompleteSession, HReadRevenue, HRecord, AtPC
--------------------------------------------------------------------------------
(* Every transaction is handled once between two crashes.                   *)

\* Where the chain gets its transactions and accounts from.
LEMMA ChainEdge ==
  ASSUME StateOK, [Next]_vars
  PROVE  \/ /\ UNCHANGED log
            /\ \A s \in Subs : Opened(s)' => Opened(s)
         \/ /\ Len(log') = Len(log) + 1
            /\ log'[Len(log) + 1].kind # "subscribe"
            /\ \A s \in Subs : Opened(s)' => Opened(s)
         \/ \E s \in Subs, p \in Plans, k \in Tokens :
              /\ Len(log') = Len(log) + 1
              /\ log'[Len(log) + 1].kind = "subscribe" /\ log'[Len(log) + 1].of = s
              /\ ~Opened(s)
              /\ \A t \in Subs : chain[t].token # k
              /\ chain'[s].token = k
              /\ \A t \in Subs : t # s => chain'[t] = chain[t]
<1>0. chain \in [Subs -> Account]
  BY DEF StateOK, TypeOK
<1>1. ASSUME UNCHANGED <<log, chain>>
      PROVE  UNCHANGED log /\ \A s \in Subs : Opened(s)' => Opened(s)
  BY <1>1 DEF Opened
<1>2. ASSUME NEW kind, NEW of, NEW n, Emit(kind, of, n), kind # "subscribe",
             \A s \in Subs : Opened(s)' => Opened(s)
      PROVE  /\ Len(log') = Len(log) + 1
             /\ log'[Len(log) + 1].kind # "subscribe"
             /\ \A s \in Subs : Opened(s)' => Opened(s)
  BY <1>2, EmitLength
<1>3. ASSUME NEW p \in Plans, ChainRegisterPlan(p)
      PROVE  Emit("plan", p, 0) /\ \A s \in Subs : Opened(s)' => Opened(s)
  BY <1>3 DEF ChainRegisterPlan, Opened
<1>4. ASSUME NEW w \in Wallets, ChainCreateWallet(w)
      PROVE  Emit("wallet", w, 0) /\ \A s \in Subs : Opened(s)' => Opened(s)
  BY <1>4 DEF ChainCreateWallet, Opened
<1>5. ASSUME NEW s \in Subs, ChainPay(s)
      PROVE  Emit("pay", s, chain[s].pays + 1) /\ \A t \in Subs : Opened(t)' => Opened(t)
  BY <1>0, <1>5 DEF ChainPay, Opened, Account
<1>6. ASSUME NEW s \in Subs, ChainCancel(s)
      PROVE  Emit("cancel", s, 0) /\ \A t \in Subs : Opened(t)' => Opened(t)
  BY <1>0, <1>6 DEF ChainCancel, Opened, Account
<1>7. ASSUME NEW s \in Subs, NEW p \in Plans, NEW k \in Tokens, ChainSubscribe(s, p, k)
      PROVE  /\ Len(log') = Len(log) + 1
             /\ log'[Len(log) + 1].kind = "subscribe" /\ log'[Len(log) + 1].of = s
             /\ ~Opened(s)
             /\ \A t \in Subs : chain[t].token # k
             /\ chain'[s].token = k
             /\ \A t \in Subs : t # s => chain'[t] = chain[t]
  <2>1. Emit("subscribe", s, 0)
    BY <1>7 DEF ChainSubscribe
  <2>2. /\ Len(log') = Len(log) + 1
        /\ log'[Len(log) + 1].kind = "subscribe" /\ log'[Len(log) + 1].of = s
    BY <2>1, EmitLength
  <2>3. /\ chain[s].status = "none"
        /\ \A t \in Subs : chain[t].token # k
        /\ chain' = [chain EXCEPT ![s] = [status |-> "active", plan |-> p,
                                          token |-> k, pays |-> 0]]
    BY <1>7 DEF ChainSubscribe
  <2> QED
    BY <1>0, <2>2, <2>3 DEF Opened
<1>8. ASSUME \/ Checkout \/ \E i \in Tx : Handle(i) \/ HandlerError(i)
             \/ Sync \/ SyncError \/ Boot \/ Crash \/ UNCHANGED vars
      PROVE  UNCHANGED <<log, chain>>
  BY <1>8 DEF Checkout, CreateSession, CompleteSession, CancelSession, Handle,
     HandlerError, Sync, SyncError, Boot, Crash, chainVars, vars
<1> QED
  BY <1>1, <1>2, <1>3, <1>4, <1>5, <1>6, <1>7, <1>8 DEF Next, Chain

\* How the boot goes on, and what becomes of the page.
LEMMA BootEdge ==
  ASSUME [Next]_vars
  PROVE  /\ \/ UNCHANGED <<boot, page>>
            \/ BackfillNext
            \/ Crash
            \/ BootFetch
            \/ UNCHANGED page /\ boot # "fetch" /\ boot' = "fetch" /\ boot = "down"
            \/ UNCHANGED page /\ boot' \notin {"down", "fetch"}
         /\ Crash \/ UNCHANGED crashes
<1>1. ASSUME Boot
      PROVE  \/ BackfillNext
             \/ BootFetch
             \/ UNCHANGED page /\ boot' = "fetch" /\ boot = "down"
             \/ UNCHANGED page /\ boot' \notin {"down", "fetch"}
  BY <1>1 DEF Boot, BootLoad, BootFetchError, BackfillDone, BootListen
<1>2. ASSUME Boot PROVE UNCHANGED crashes
  BY <1>2 DEF Boot
<1>3. ASSUME Sync
      PROVE  UNCHANGED <<page, crashes>> /\ (UNCHANGED boot \/ boot' = "syncing")
  BY <1>3 DEF Sync, SyncBegin, SyncWritePlan, SyncReadWallets, SyncWriteWallet,
     SyncReadSubs, SyncWriteSub, SyncEnd
<1>4. ASSUME \/ Chain \/ Checkout \/ \E i \in Tx : Handle(i) \/ HandlerError(i)
             \/ SyncError \/ UNCHANGED vars
      PROVE  UNCHANGED <<boot, page, crashes>>
  BY <1>4 DEF Chain, ChainRegisterPlan, ChainCreateWallet, ChainSubscribe, ChainPay,
     ChainCancel, Emit, Checkout, CreateSession, CompleteSession, CancelSession,
     Handle, HandlerError, SyncError, procVars, vars
<1> QED
  BY <1>1, <1>2, <1>3, <1>4 DEF Next

\* What the page becomes when it is not left alone.
LEMMA PageShrinks ==
  ASSUME StateOK, page # <<>>, page' = Tail(page)
  PROVE  /\ 1 \in DOMAIN page /\ Head(page) = page[1]
         /\ \A a \in DOMAIN page' : a + 1 \in DOMAIN page /\ page'[a] = page[a + 1]
         /\ \A a \in DOMAIN page' : a \in Nat /\ a # 0
<1>1. page \in Seq(Tx)
  BY DEF StateOK, TypeOK
<1>2. /\ Len(page) \in Nat /\ Len(page) # 0 /\ DOMAIN page = 1..Len(page)
      /\ Tail(page) \in Seq(Tx) /\ Len(Tail(page)) = Len(page) - 1
      /\ \A a \in 1..Len(Tail(page)) : Tail(page)[a] = page[a + 1]
      /\ Head(page) = page[1]
  BY <1>1, HeadTailProperties, LenProperties, EmptySeq
<1>3. DOMAIN page' = 1..(Len(page) - 1)
  BY <1>2, LenProperties
<1> QED
  BY <1>2, <1>3

LEMMA OnceKept ==
  ASSUME OnceOK, [Next]_vars
  PROVE  OnceOK'
<1>1. StateOK /\ StateOK' /\ Monotone
  BY NextStateOK, NextMonotone DEF OnceOK
<1>2. \A i \in Tx : HandlerMove(i)
  BY <1>1, NextMoves
<1>3. ASSUME NEW s \in Subs, NEW t \in Subs, Opened(s)', Opened(t)',
             chain'[s].token = chain'[t].token
      PROVE  s = t
  <2>1. CASE Opened(s) /\ Opened(t)
    BY <1>1, <1>3, <2>1 DEF OnceOK, Monotone
  <2>2. CASE ~(Opened(s) /\ Opened(t))
    <3>1. PICK r \in Subs, k \in Tokens :
            /\ \A x \in Subs : chain[x].token # k
            /\ chain'[r].token = k
            /\ \A x \in Subs : x # r => chain'[x] = chain[x]
      BY <1>1, <1>3, <2>2, ChainEdge
    <3>2. CASE s # r
      BY <1>3, <2>2, <3>1, <3>2 DEF Opened
    <3>3. CASE t # r
      BY <1>3, <2>2, <3>1, <3>3 DEF Opened
    <3> QED
      BY <3>2, <3>3
  <2> QED
    BY <2>1, <2>2
<1>4. ASSUME NEW i \in 1..Len(log'), NEW j \in 1..Len(log'),
             log'[i].kind = "subscribe", log'[j].kind = "subscribe",
             log'[i].of = log'[j].of
      PROVE  i = j
  <2>1. CASE i \in 1..Len(log) /\ j \in 1..Len(log)
    BY <1>1, <1>4, <2>1 DEF OnceOK, Monotone
  <2>2. CASE ~(i \in 1..Len(log) /\ j \in 1..Len(log))
    <3>1. Len(log) \in Nat /\ Len(log') \in Nat
      BY <1>1, LogFacts
    <3>2. Len(log') # Len(log)
      BY <1>4, <2>2
    <3>3. /\ Len(log') = Len(log) + 1
          /\ log'[Len(log) + 1].kind = "subscribe" =>
               /\ log'[Len(log) + 1].of \in Subs
               /\ ~Opened(log'[Len(log) + 1].of)
      BY <1>1, <3>2, ChainEdge
    <3>4. \A a \in 1..Len(log) : log'[a].kind = "subscribe" => Opened(log'[a].of)
      BY <1>1 DEF Monotone, StateOK, LogOK, TxOK, SubKinds
    <3>5. \A a \in 1..Len(log') : a \in 1..Len(log) \/ a = Len(log) + 1
      BY <3>1, <3>3
    <3> QED
      BY <1>4, <2>2, <3>3, <3>4, <3>5
  <2> QED
    BY <2>1, <2>2
<1>5. ASSUME NEW i \in Tx, boot' \in {"down", "fetch"} PROVE hs'[i].pc = "idle"
  <2>1. CASE Crash
    BY <2>1 DEF Crash, IdleHandler
  <2>2. CASE ~Crash
    <3>1. boot \in {"down", "fetch"}
      BY <1>5, <2>2, BootEdge DEF BackfillNext, BackfillIdle, BootFetch
    <3>2. hs[i].pc = "idle"
      BY <3>1 DEF OnceOK
    <3> QED
      BY <1>2, <3>1, <3>2, IdleMoves DEF Starts, BackfillNext, BackfillIdle
  <2> QED
    BY <2>1, <2>2
<1> DEFINE Distinct == \A a, b \in DOMAIN page : page[a] = page[b] => a = b
           AllIdle == \A a \in DOMAIN page : hs[page[a]].pc = "idle"
<1>6. page \in Seq(Tx) /\ \A a \in DOMAIN page : page[a] \in Tx /\ page[a] <= Len(log)
  <2>1. page \in Seq(Tx) /\ PageOK
    BY <1>1 DEF StateOK, TypeOK
  <2>2. page \in [1..Len(page) -> Tx] /\ DOMAIN page = 1..Len(page)
    BY <2>1, LenProperties
  <2> QED
    BY <2>1, <2>2 DEF PageOK
<1>7. Distinct /\ AllIdle
  BY DEF OnceOK
<1>8. CASE BackfillNext
  <2>1. page # <<>> /\ page' = Tail(page)
    BY <1>8 DEF BackfillNext
  <2>2. /\ 1 \in DOMAIN page /\ Head(page) = page[1]
        /\ \A a \in DOMAIN page' : a + 1 \in DOMAIN page /\ page'[a] = page[a + 1]
        /\ \A a \in DOMAIN page' : a \in Nat /\ a # 0
    BY <1>1, <2>1, PageShrinks
  <2>3. ASSUME NEW a \in DOMAIN page', NEW b \in DOMAIN page', page'[a] = page'[b]
        PROVE  a = b
    <3>1. a + 1 = b + 1
      BY <1>7, <2>2, <2>3
    <3> QED
      BY <2>2, <3>1
  <2>4. ASSUME NEW a \in DOMAIN page' PROVE hs'[page'[a]].pc = "idle"
    <3>1. a + 1 # 1
      BY <2>2
    <3>2. page'[a] # Head(page)
      BY <1>7, <2>2, <3>1
    <3>3. page'[a] \in Tx /\ hs[page'[a]].pc = "idle"
      BY <1>6, <1>7, <2>2
    <3>4. boot # "up"
      BY <1>8 DEF BackfillNext, BackfillIdle
    <3> QED
      BY <1>2, <3>2, <3>3, <3>4, IdleMoves DEF Starts
  <2> QED
    BY <1>1, <1>3, <1>4, <1>5, <2>3, <2>4 DEF OnceOK
<1>9. CASE BootFetch
  <2>1. PICK c : page' = [j \in 1..c |-> Len(log) + 1 - j]
    BY <1>9 DEF BootFetch
  <2>2. boot = "fetch" /\ UNCHANGED hs
    BY <1>9 DEF BootFetch
  <2>3. page' \in Seq(Tx)
    BY <1>1 DEF StateOK, TypeOK
  <2>4. DOMAIN page' = 1..Len(page') /\ Len(page') \in Nat
    BY <2>3, LenProperties
  <2>5. DOMAIN page' = 1..c
    BY <2>1
  <2>6. ASSUME NEW a \in DOMAIN page', NEW b \in DOMAIN page', page'[a] = page'[b]
        PROVE  a = b
    <3>1. a \in Nat /\ b \in Nat /\ Len(log) \in Nat
      BY <1>1, <2>4, LogFacts
    <3>2. page'[a] = Len(log) + 1 - a /\ page'[b] = Len(log) + 1 - b
      BY <2>1, <2>5
    <3>3. Len(log) + 1 - a = Len(log) + 1 - b
      BY <2>6, <3>2
    <3>4. \A x, y, n \in Nat : n + 1 - x = n + 1 - y => x = y
      OBVIOUS
    <3> QED
      BY <3>1, <3>3, <3>4
  <2>7. ASSUME NEW a \in DOMAIN page' PROVE hs'[page'[a]].pc = "idle"
    <3>1. page'[a] \in Tx
      BY <2>3, <2>4, ElementOfSeq
    <3> QED
      BY <2>2, <3>1 DEF OnceOK
  <2> QED
    BY <1>1, <1>3, <1>4, <1>5, <2>6, <2>7 DEF OnceOK
<1>10. CASE Crash
  <2>1. page' = <<>>
    BY <1>10 DEF Crash
  <2>2. DOMAIN page' = {}
    BY <2>1
  <2> QED
    BY <1>1, <1>3, <1>4, <1>5, <2>2 DEF OnceOK
<1>11. CASE UNCHANGED page /\ ~BackfillNext
  <2>1. ASSUME NEW a \in DOMAIN page PROVE hs'[page[a]].pc = "idle"
    <3>1. page[a] # Len(log) + 1 /\ page[a] \in Tx /\ hs[page[a]].pc = "idle"
      <4>1. Len(log) \in Nat /\ page[a] \in Nat
        BY <1>1, <1>6, LogFacts DEF Tx
      <4> QED
        BY <1>6, <1>7, <4>1
    <3> QED
      BY <1>2, <1>11, <3>1, IdleMoves DEF Starts
  <2> QED
    BY <1>1, <1>3, <1>4, <1>5, <1>7, <1>11, <2>1 DEF OnceOK
<1> QED
  BY <1>8, <1>9, <1>10, <1>11, BootEdge

LEMMA OnceInit == Init => OnceOK
<1> SUFFICES ASSUME Init PROVE OnceOK
  OBVIOUS
<1>1. StateOK
  BY InitStateOK
<1>2. /\ \A s \in Subs : ~Opened(s)
      /\ Len(log) = 0 /\ DOMAIN page = {}
      /\ \A i \in Tx : hs[i].pc = "idle"
  BY DEF Init, NoAccount, Opened, IdleHandler
<1> QED
  BY <1>1, <1>2 DEF OnceOK

\* Between two crashes no transaction is handled twice: not by two entries of
\* the backfill page, nor by the backfill and the listener.
THEOREM OnceInvariant == Spec => []OnceOK
<1>1. OnceOK /\ [Next]_vars => OnceOK'
  BY OnceKept
<1> QED
  BY <1>1, OnceInit, PTL DEF Spec

\* A transaction whose effect is done stays so until the process crashes.
LEMMA PendingBack ==
  ASSUME OnceOK, [Next]_vars, ~Crash, NEW i \in 1..Len(log), Pending(i)'
  PROVE  Pending(i)
<1>1. StateOK
  BY DEF OnceOK
<1>2. i \in Tx /\ i # Len(log) + 1 /\ HandlerMove(i)
  <2>1. i \in Tx /\ i # Len(log) + 1
    BY <1>1, LogFacts DEF Tx
  <2> QED
    BY <1>1, <2>1, NextMoves
<1>3. CASE boot' \in {"down", "fetch"}
  BY <1>3, BootEdge DEF BackfillNext, BackfillIdle, BootFetch, Pending
<1>4. CASE OnPage(i)'
  <2>1. CASE UNCHANGED page
    BY <1>4, <2>1 DEF OnPage, Pending
  <2>2. CASE BackfillNext
    <3>1. page # <<>> /\ page' = Tail(page)
      BY <2>2 DEF BackfillNext
    <3> QED
      BY <1>1, <1>4, <3>1, PageShrinks DEF OnPage, Pending
  <2>3. CASE BootFetch
    BY <2>3 DEF BootFetch, Pending
  <2> QED
    BY <2>1, <2>2, <2>3, BootEdge
<1>5. CASE hs'[i].pc \in EarlyPCs
  <2>1. CASE hs[i].pc = "idle"
    <3>1. BackfillNext /\ i = Head(page)
      BY <1>2, <1>5, <2>1, IdleMoves DEF Starts, EarlyPCs, PayPCs
    <3>2. page # <<>> /\ page' = Tail(page)
      BY <3>1 DEF BackfillNext
    <3> QED
      BY <1>1, <3>1, <3>2, PageShrinks DEF OnPage, Pending
  <2>2. CASE hs[i].pc # "idle"
    BY <1>2, <1>5, <2>2 DEF HandlerMove, EarlyPCs, PayPCs, Pending, HFindSession,
       HCompleteSession, HReadRevenue, HRecord, AtPC
  <2> QED
    BY <2>1, <2>2
<1> QED
  BY <1>3, <1>4, <1>5 DEF Pending

\* The transaction of a running handler is not pending once its effect is done.
LEMMA PendingDone ==
  ASSUME OnceOK, NEW i \in Tx, hs[i].pc # "idle", UNCHANGED <<boot, page>>,
         hs'[i].pc \notin EarlyPCs
  PROVE  ~Pending(i)'
<1>1. boot \notin {"down", "fetch"} /\ ~OnPage(i)
  BY DEF OnceOK, OnPage
<1> QED
  BY <1>1 DEF Pending, OnPage

\* Who changes the status of a session, and to what.
LEMMA SessionMoves ==
  ASSUME StateOK, [Next]_vars, NEW k \in Tokens,
         session'[k].status # session[k].status
  PROVE  \/ session[k].status = "absent" /\ session'[k].status = "pending"
         \/ CancelSession(k) /\ session'[k].status = "cancelled"
         \/ \E i \in Tx : /\ Handle(i)
                          /\ hs[i].pc \in {"failSession", "failCaught"}
                          /\ k = chain[log[i].of].token
                          /\ session'[k].status = "failed"
         \/ \E i \in Tx : /\ Handle(i)
                          /\ HCompleteSession(i)
                          /\ k = chain[log[i].of].token
                          /\ session'[k].status = "completed"
<1>0. session \in [Tokens -> Session]
  BY DEF StateOK, TypeOK
<1>1. ASSUME NEW t \in Tokens, NEW p \in Plans, CreateSession(t, p)
      PROVE  session[k].status = "absent" /\ session'[k].status = "pending"
  BY <1>0, <1>1 DEF CreateSession
<1>2. ASSUME NEW t \in Tokens, CancelSession(t)
      PROVE  t = k /\ session'[k].status = "cancelled"
  BY <1>0, <1>2 DEF CancelSession, Session
<1>3. ASSUME NEW i \in Tx, HFailSession(i)
      PROVE  /\ hs[i].pc \in {"failSession", "failCaught"}
             /\ k = chain[log[i].of].token
             /\ session'[k].status = "failed"
  <2>1. PICK t : t = chain[log[i].of].token
    OBVIOUS
  <2>2. session' = IF session[t].status = "absent" THEN session
                   ELSE [session EXCEPT ![t].status = "failed"]
    BY <1>3, <2>1 DEF HFailSession
  <2>3. t = k /\ session'[k].status = "failed"
    BY <1>0, <2>2 DEF Session
  <2> QED
    BY <1>3, <2>1, <2>3 DEF HFailSession
<1>4. ASSUME NEW i \in Tx, HCompleteSession(i)
      PROVE  k = chain[log[i].of].token /\ session'[k].status = "completed"
  <2>1. PICK t : t = chain[log[i].of].token
    OBVIOUS
  <2>2. session' = [session EXCEPT ![t].status = "completed", ![t].sub = log[i].of]
    BY <1>4, <2>1 DEF HCompleteSession
  <2>3. t = k /\ session'[k].status = "completed"
    BY <1>0, <2>2 DEF Session
  <2> QED
    BY <2>1, <2>3
<1>5. ASSUME NEW i \in Tx, Handle(i) PROVE HFailSession(i) \/ HCompleteSession(i)
  BY <1>5 DEF Handle, HandlerStep, HFindSub, HFindPlan, HReadPlans, HWritePlan,
     HPlansWritten, HFindSession, HCreateSub, HIncPlan, HTouchWallet,
     HUpsertWallet, HPayRow, HReadRevenue, HPayPlan, HDeactivate, HDecPlan,
     HRecord, HNotify, HSave
<1>6. ASSUME Chain PROVE FALSE
  BY <1>6 DEF Chain, ChainRegisterPlan, ChainCreateWallet, ChainSubscribe,
     ChainPay, ChainCancel, Emit
<1>7. ASSUME Sync \/ SyncError \/ Boot \/ Crash \/ UNCHANGED vars
             \/ \E i \in Tx : HandlerError(i)
      PROVE  FALSE
  BY <1>7 DEF Sync, SyncError, Boot, Crash, vars, HandlerError
<1>8. ASSUME Checkout
      PROVE  \/ \E t \in Tokens, p \in Plans : CreateSession(t, p)
             \/ \E t \in Tokens : CancelSession(t)
  BY <1>8 DEF Checkout, CompleteSession
<1> QED
  BY <1>1, <1>2, <1>3, <1>4, <1>5, <1>6, <1>7, <1>8 DEF Next

\* The session a creation handler works on is no other handler's: two handlers
\* with one token are one.
LEMMA SameToken ==
  ASSUME OnceOK, NEW i \in 1..Len(log), NEW j \in 1..Len(log),
         log[i].kind = "subscribe", log[j].kind = "subscribe",
         chain[log[i].of].token = chain[log[j].of].token
  PROVE  i = j
<1>1. LogOK
  BY DEF OnceOK, StateOK
<1>2. /\ log[i].of \in Subs /\ Opened(log[i].of)
      /\ log[j].of \in Subs /\ Opened(log[j].of)
  BY <1>1 DEF LogOK, TxOK, SubKinds
<1> QED
  BY <1>2 DEF OnceOK

\* The account, token and plan of a transaction in the log stay.
LEMMA TxStays ==
  ASSUME StateOK, [Next]_vars, NEW i \in 1..Len(log), log[i].kind \in SubKinds
  PROVE  /\ log'[i] = log[i] /\ i \in 1..Len(log') /\ i \in Tx
         /\ log[i].of \in Subs /\ Opened(log[i].of) /\ Opened(log[i].of)'
         /\ chain[log[i].of].token \in Tokens /\ chain[log[i].of].plan \in Plans
         /\ chain'[log[i].of].token = chain[log[i].of].token
         /\ chain'[log[i].of].plan = chain[log[i].of].plan
<1>1. StateOK' /\ Monotone
  BY NextStateOK, NextMonotone
<1>2. log[i].of \in Subs /\ Opened(log[i].of)
  BY DEF StateOK, LogOK, TxOK
<1>3. i \in Tx /\ i \in 1..Len(log') /\ log'[i] = log[i]
  BY <1>1, LogFacts DEF Monotone, Tx
<1> QED
  BY <1>1, <1>2, <1>3 DEF Monotone, StateOK, AccountsOK
================================================================================
