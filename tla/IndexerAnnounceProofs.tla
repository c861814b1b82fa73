------------------------- MODULE IndexerAnnounceProofs -------------------------
(****************************************************************************)
(* subscription.created is sent at most once for each subscription, for     *)
(* every number of events, crashes, backfills and syncs: the subscription   *)
(* row is the mark that keeps a replayed creation from being announced, and *)
(* nothing removes it.                                                      *)
(****************************************************************************)
EXTENDS IndexerProofs

Settled == {"idle", "findSub", "save"}

\* Only its notify step counts a webhook for transaction i; a creation leaves the
\* settled steps only when it finds no row.
AnnounceAdvance(i) ==
  /\ \/ sends'[i] = sends[i]
     \/ /\ hs[i].pc = "notify" /\ hs'[i].pc \in Settled
        /\ sends'[i] = sends[i] + 1
  /\ \/ hs'[i].pc \in Settled
     \/ hs[i].pc \notin Settled
     \/ log'[i].kind = "subscribe" => ~Here(i)

LEMMA HandlerAnnounce ==
  ASSUME StateOK, NEW i \in Tx, Handle(i)
  PROVE  \A j \in Tx : AnnounceAdvance(j)
<1>0. hs \in [Tx -> Handler] /\ sends \in [Tx -> Nat] /\ UNCHANGED log
  BY DEF StateOK, TypeOK, Handle, chainVars
<1>1. \A j \in Tx : j # i => hs'[j] = hs[j]
  <2>1. CASE \E pc \in HandlerPCs : GoTo(i, pc)
    BY <2>1, GoToAdvance
  <2>2. CASE \E pc, v : hs' = [hs EXCEPT ![i].pc = pc, ![i].val = v]
    BY <1>0, <2>2
  <2>3. CASE \E pc, v : hs' = [hs EXCEPT ![i].pc = pc, ![i].snap = v]
    BY <1>0, <2>3
  <2>4. CASE \E pc, v : hs' = [hs EXCEPT ![i].plan = v, ![i].pc = pc]
    BY <1>0, <2>4
  <2>5. CASE HWritePlan(i)
    BY <1>0, <2>5 DEF HWritePlan
  <2>6. CASE HFindSub(i)
    BY <2>1, <2>2, <2>6 DEF HFindSub, Returned, HandlerPCs
  <2>7. CASE HFindPlan(i)
    BY <2>1, <2>4, <2>7 DEF HFindPlan, Returned, HandlerPCs
  <2>8. CASE HReadPlans(i)
    BY <2>3, <2>8 DEF HReadPlans
  <2>9. CASE HReadRevenue(i)
    BY <2>2, <2>9 DEF HReadRevenue
  <2>10. CASE \/ HPlansWritten(i) \/ HFindSession(i) \/ HFailSession(i)
              \/ HCompleteSession(i) \/ HCreateSub(i) \/ HIncPlan(i)
              \/ HTouchWallet(i) \/ HUpsertWallet(i) \/ HPayRow(i) \/ HPayPlan(i)
              \/ HDeactivate(i) \/ HDecPlan(i) \/ HRecord(i) \/ HNotify(i) \/ HSave(i)
    <3>1. \E pc \in HandlerPCs : GoTo(i, pc)
      BY <2>10 DEF HPlansWritten, HFindSession, HFailSession, HCompleteSession,
         HCreateSub, HIncPlan, HTouchWallet, HUpsertWallet, HPayRow, HPayPlan,
         HDeactivate, HDecPlan, HRecord, HNotify, HSave, Returned, HandlerPCs
    <3> QED
      BY <2>1, <3>1
  <2> QED
    BY <2>5, <2>6, <2>7, <2>8, <2>9, <2>10 DEF Handle, HandlerStep
<1>2. CASE HNotify(i)
  <2>1. hs[i].pc = "notify" /\ sends' = [sends EXCEPT ![i] = @ + 1]
        /\ GoTo(i, Returned)
    BY <1>2 DEF HNotify, AtPC
  <2>2. Returned \in HandlerPCs /\ Returned \in Settled
    BY DEF Returned, HandlerPCs, Settled
  <2>3. hs'[i].pc \in Settled
    BY <2>1, <2>2, GoToAdvance
  <2>4. \A j \in Tx : j # i => sends'[j] = sends[j]
    BY <1>0, <2>1
  <2>5. sends'[i] = sends[i] + 1
    BY <1>0, <2>1
  <2> QED
    BY <1>1, <2>1, <2>3, <2>4, <2>5 DEF AnnounceAdvance
<1>3. CASE HFindSub(i)
  <2>1. UNCHANGED sends
    BY <1>3 DEF HFindSub
  <2>2. hs'[i].pc \in Settled \/ (log[i].kind = "subscribe" => ~Here(i))
    <3>1. CASE GoTo(i, Returned)
      <4>1. Returned \in HandlerPCs /\ Returned \in Settled
        BY DEF Returned, HandlerPCs, Settled
      <4> QED
        BY <3>1, <4>1, GoToAdvance
    <3>2. CASE ~GoTo(i, Returned)
      BY <1>3, <3>2 DEF HFindSub, Kind
    <3> QED
      BY <3>1, <3>2
  <2> QED
    BY <1>0, <1>1, <2>1, <2>2 DEF AnnounceAdvance
<1>4. CASE HSave(i)
  <2>1. UNCHANGED sends /\ GoTo(i, "idle")
    BY <1>4 DEF HSave
  <2>2. hs'[i].pc \in Settled
    BY <2>1, GoToAdvance DEF HandlerPCs, Settled
  <2> QED
    BY <1>1, <2>1, <2>2 DEF AnnounceAdvance
<1>5. CASE ~HNotify(i) /\ ~HFindSub(i) /\ ~HSave(i)
  <2>1. UNCHANGED sends
    BY <1>5 DEF Handle, HandlerStep, HFindPlan, HReadPlans, HWritePlan,
       HPlansWritten, HFindSession, HFailSession, HCompleteSession, HCreateSub,
       HIncPlan, HTouchWallet, HUpsertWallet, HPayRow, HReadRevenue, HPayPlan,
       HDeactivate, HDecPlan, HRecord
  <2>2. hs[i].pc \notin Settled
    BY <1>5 DEF Handle, HandlerStep, HFindPlan, HReadPlans, HWritePlan,
       HPlansWritten, HFindSession, HFailSession, HCompleteSession, HCreateSub,
       HIncPlan, HTouchWallet, HUpsertWallet, HPayRow, HReadRevenue, HPayPlan,
       HDeactivate, HDecPlan, HRecord, AtPC, Settled
  <2> QED
    BY <1>1, <2>1, <2>2 DEF AnnounceAdvance
<1> QED
  BY <1>2, <1>3, <1>4, <1>5

LEMMA NextAnnounce ==
  ASSUME StateOK, [Next]_vars
  PROVE  \A j \in Tx : AnnounceAdvance(j)
<1>0. hs \in [Tx -> Handler] /\ sends \in [Tx -> Nat]
  BY DEF StateOK, TypeOK
<1>1. CASE UNCHANGED <<hs, sends>>
  BY <1>1 DEF AnnounceAdvance
<1>2. ASSUME NEW i \in Tx, Handle(i) PROVE \A j \in Tx : AnnounceAdvance(j)
  BY <1>2, HandlerAnnounce
<1>3. ASSUME NEW i \in Tx, HandlerError(i) PROVE \A j \in Tx : AnnounceAdvance(j)
  <2>1. UNCHANGED sends
    BY <1>3 DEF HandlerError
  <2>2. CASE /\ GoTo(i, "failCaught")
             /\ hs[i].pc \in {"findSession", "failSession", "completeSession"}
    <3>1. \A j \in Tx : j # i => hs'[j] = hs[j]
      BY <2>2, GoToAdvance DEF HandlerPCs
    <3> QED
      BY <2>1, <2>2, <3>1 DEF AnnounceAdvance, Settled
  <2>3. CASE \E pc \in HandlerPCs \cap Settled : GoTo(i, pc)
    <3>1. hs'[i].pc \in Settled /\ \A j \in Tx : j # i => hs'[j] = hs[j]
      BY <2>3, GoToAdvance
    <3> QED
      BY <2>1, <3>1 DEF AnnounceAdvance
  <2>4. {Returned, "idle"} \subseteq HandlerPCs \cap Settled
    BY DEF Returned, HandlerPCs, Settled
  <2>5. CASE hs[i].pc \in {"findSession", "failSession", "completeSession"}
    BY <1>3, <2>2, <2>5 DEF HandlerError
  <2>6. CASE hs[i].pc \in {"failCaught", "notify"}
    BY <1>3, <2>3, <2>4, <2>6 DEF HandlerError
  <2>7. CASE hs[i].pc \notin {"findSession", "failSession", "completeSession",
                             "failCaught", "notify"}
    BY <1>3, <2>3, <2>4, <2>7 DEF HandlerError
  <2> QED
    BY <2>5, <2>6, <2>7
<1>4. ASSUME Chain PROVE \A j \in Tx : AnnounceAdvance(j)
  <2>1. ASSUME NEW kind \in {"plan", "wallet", "subscribe", "pay", "cancel"},
               NEW of, NEW n, Emit(kind, of, n)
        PROVE  \A j \in Tx : AnnounceAdvance(j)
    <3>1. PICK m : m = Len(log) + 1
      OBVIOUS
    <3>2. UNCHANGED hs \/ hs' = [hs EXCEPT ![m] = Started(kind)]
      BY <2>1, <3>1 DEF Emit
    <3>3. Started(kind).pc = FirstStep(kind)
      BY DEF Started, IdleHandler
    <3>4. UNCHANGED sends
      BY <2>1 DEF Emit
    <3>5. log'[m].kind = kind
      <4>1. PICK d \in SlotSteps :
              log' = Append(log, [kind |-> kind, of |-> of, n |-> n,
                                  slot |-> CurrentSlot + d])
        BY <2>1 DEF Emit
      <4>2. PICK e : e = [kind |-> kind, of |-> of, n |-> n, slot |-> CurrentSlot + d]
        OBVIOUS
      <4>3. log'[m] = e
        BY <3>1, <4>1, <4>2, LogFacts, AppendProperties DEF StateOK, TypeOK
      <4> QED
        BY <4>2, <4>3
    <3>6. FirstStep(kind) \in Settled \/ log'[m].kind # "subscribe"
      BY <2>1, <3>5 DEF FirstStep, Settled
    <3> QED
      BY <1>0, <3>2, <3>3, <3>4, <3>6 DEF AnnounceAdvance
  <2>2. ASSUME NEW p \in Plans, ChainRegisterPlan(p) PROVE Emit("plan", p, 0)
    BY <2>2 DEF ChainRegisterPlan
  <2>3. ASSUME NEW w \in Wallets, ChainCreateWallet(w) PROVE Emit("wallet", w, 0)
    BY <2>3 DEF ChainCreateWallet
  <2>4. ASSUME NEW s \in Subs, NEW p \in Plans, NEW k \in Tokens,
               ChainSubscribe(s, p, k)
        PROVE Emit("subscribe", s, 0)
    BY <2>4 DEF ChainSubscribe
  <2>5. ASSUME NEW s \in Subs, ChainPay(s) PROVE Emit("pay", s, chain[s].pays + 1)
    BY <2>5 DEF ChainPay
  <2>6. ASSUME NEW s \in Subs, ChainCancel(s) PROVE Emit("cancel", s, 0)
    BY <2>6 DEF ChainCancel
  <2> QED
    BY <1>4, <2>1, <2>2, <2>3, <2>4, <2>5, <2>6 DEF Chain
<1>5. ASSUME Boot PROVE \A j \in Tx : AnnounceAdvance(j)
  <2>1. UNCHANGED <<sends, log>>
    BY <1>5 DEF Boot, chainVars
  <2>2. CASE UNCHANGED hs
    BY <2>1, <2>2 DEF AnnounceAdvance
  <2>3. CASE BackfillNext
    <3>1. PICK m : m = Head(page)
      OBVIOUS
    <3>2. hs' = [hs EXCEPT ![m] = Started(log[m].kind)]
      BY <2>3, <3>1 DEF BackfillNext, Kind
    <3>3. Started(log[m].kind).pc = FirstStep(log[m].kind)
      BY DEF Started, IdleHandler
    <3>4. FirstStep(log[m].kind) \in Settled \/ log[m].kind # "subscribe"
      BY DEF FirstStep, Settled
    <3> QED
      BY <1>0, <2>1, <3>2, <3>3, <3>4 DEF AnnounceAdvance
  <2> QED
    BY <1>5, <2>2, <2>3 DEF Boot, BootLoad, BootFetch, BootFetchError,
       BackfillDone, BootListen
<1>6. ASSUME Crash PROVE \A j \in Tx : AnnounceAdvance(j)
  BY <1>6 DEF Crash, IdleHandler, Settled, AnnounceAdvance
<1>7. ASSUME Checkout \/ Sync \/ SyncError \/ UNCHANGED vars
      PROVE  UNCHANGED <<hs, sends>>
  BY <1>7 DEF Checkout, CreateSession, CompleteSession, CancelSession, procVars,
     Sync, SyncError, vars
<1> QED
  BY <1>1, <1>2, <1>3, <1>4, <1>5, <1>6, <1>7 DEF Next

\* Nothing deletes a subscription row.
LEMMA RowsStay ==
  ASSUME StateOK, [Next]_vars
  PROVE  \A s \in Subs : subRow[s].here => subRow'[s].here
<1>0. subRow \in [Subs -> SubRow]
  BY DEF StateOK, TypeOK
<1>1. CASE UNCHANGED subRow
  BY <1>1
<1>2. ASSUME NEW i \in Tx, HCreateSub(i)
      PROVE  \A s \in Subs : subRow[s].here => subRow'[s].here
  BY <1>0, <1>2 DEF HCreateSub
<1>3. ASSUME NEW i \in Tx, HPayRow(i)
      PROVE  \A s \in Subs : subRow[s].here => subRow'[s].here
  <2>1. PICK t : t = log[i].of
    OBVIOUS
  <2>2. subRow' = [subRow EXCEPT ![t].paid = hs[i].val + 1, ![t].count = log[i].n]
    BY <1>3, <2>1 DEF HPayRow
  <2> QED
    BY <1>0, <2>2 DEF SubRow
<1>4. ASSUME NEW i \in Tx, HDeactivate(i)
      PROVE  \A s \in Subs : subRow[s].here => subRow'[s].here
  <2>1. PICK t : t = log[i].of
    OBVIOUS
  <2>2. subRow' = [subRow EXCEPT ![t].active = FALSE]
    BY <1>4, <2>1 DEF HDeactivate
  <2> QED
    BY <1>0, <2>2 DEF SubRow
<1>5. ASSUME NEW x \in sync.subs, UpsertSub(x)
      PROVE  \A s \in Subs : subRow[s].here => subRow'[s].here
  <2>1. x \in SubSnap /\ Opened(x.sub)
    BY <1>5 DEF StateOK, TypeOK, Syncer, SnapshotOK
  <2> QED
    BY <1>5, <2>1, UpsertSubFacts
<1>6. ASSUME NEW i \in Tx, Handle(i)
      PROVE  UNCHANGED subRow \/ HCreateSub(i) \/ HPayRow(i) \/ HDeactivate(i)
  BY <1>6 DEF Handle, HandlerStep, HFindSub, HFindPlan, HReadPlans, HWritePlan,
     HPlansWritten, HFindSession, HFailSession, HCompleteSession, HIncPlan,
     HTouchWallet, HUpsertWallet, HReadRevenue, HPayPlan, HDecPlan, HRecord,
     HNotify, HSave
<1>7. ASSUME Chain PROVE UNCHANGED subRow
  BY <1>7 DEF Chain, ChainRegisterPlan, ChainCreateWallet, ChainSubscribe,
     ChainPay, ChainCancel, Emit
<1>8. ASSUME Sync PROVE UNCHANGED subRow \/ \E x \in sync.subs : UpsertSub(x)
  BY <1>8 DEF Sync, SyncBegin, SyncWritePlan, SyncReadWallets, SyncWriteWallet,
     SyncReadSubs, SyncWriteSub, SyncEnd
<1>9. ASSUME Checkout \/ SyncError \/ Boot \/ Crash \/ UNCHANGED vars
             \/ \E i \in Tx : HandlerError(i)
      PROVE  UNCHANGED subRow
  BY <1>9 DEF Checkout, CreateSession, CompleteSession, CancelSession, SyncError,
     Boot, Crash, vars, HandlerError
<1> QED
  BY <1>1, <1>2, <1>3, <1>4, <1>5, <1>6, <1>7, <1>8, <1>9 DEF Next

\* The log only grows.
LEMMA LogStays ==
  ASSUME StateOK, [Next]_vars
  PROVE  Len(log) <= Len(log') /\ \A i \in 1..Len(log) : log'[i] = log[i]
BY NextMonotone DEF Monotone

LEMMA AnnounceKept ==
  ASSUME AnnounceOK, [Next]_vars, NEW i \in Tx
  PROVE  AnnounceStepOK(i)'
<1>1. StateOK /\ StateOK' /\ AnnounceStepOK(i) /\ AnnounceAdvance(i)
  BY NextStateOK, NextAnnounce DEF AnnounceOK
<1>2. sends[i] \in Nat /\ Len(log) \in Nat /\ Len(log') \in Nat /\ i \in Nat
  BY <1>1 DEF StateOK, TypeOK, Tx
<1>3. hs[i].pc # "idle" => i \in 1..Len(log)
  BY <1>1, <1>2, LogFacts DEF StateOK, HandlersOK, HandlerOK, Tx
<1>4. hs[i].pc = "notify" => subRow[log[i].of].here /\ log[i].of \in Subs
  BY <1>1, HandledSub DEF StateOK, HandlersOK, HandlerOK, RowPCs, SharedPCs
<1>5. /\ Len(log) <= Len(log')
      /\ i <= Len(log) => log'[i] = log[i]
  BY <1>1, LogStays, LogFacts DEF Tx
<1>6. i > Len(log') => sends'[i] = 0
  BY <1>1, <1>2, <1>3, <1>5 DEF AnnounceStepOK, AnnounceAdvance
<1>7. ASSUME i <= Len(log), log[i].kind = "subscribe"
      PROVE  /\ sends'[i] <= 1
             /\ sends'[i] > 0 => subRow'[log[i].of].here
             /\ hs'[i].pc \notin Settled => sends'[i] = 0
  <2>1. log[i].of \in Subs
    BY <1>1, <1>7, LogFacts DEF StateOK, LogOK, TxOK, SubKinds, Tx
  <2>2. subRow[log[i].of].here => subRow'[log[i].of].here
    BY <1>1, <2>1, RowsStay
  <2>3. CASE hs[i].pc = "notify" /\ hs'[i].pc \in Settled /\ sends'[i] = sends[i] + 1
    BY <1>1, <1>2, <1>4, <1>7, <2>2, <2>3 DEF AnnounceStepOK
  <2>4. CASE sends'[i] = sends[i]
    <3>1. sends[i] <= 1 /\ (sends[i] > 0 => subRow[log[i].of].here)
      BY <1>1, <1>7 DEF AnnounceStepOK
    <3>2. hs'[i].pc \notin Settled => sends[i] = 0
      BY <1>1, <1>2, <1>5, <1>7, <3>1 DEF AnnounceStepOK, AnnounceAdvance, Settled,
         Here
    <3> QED
      BY <2>2, <2>4, <3>1, <3>2
  <2> QED
    BY <1>1, <2>3, <2>4 DEF AnnounceAdvance
<1>8. ASSUME ~(i <= Len(log)) PROVE sends'[i] = 0
  BY <1>1, <1>2, <1>3, <1>8 DEF AnnounceStepOK, AnnounceAdvance
<1>9. CASE i <= Len(log)
  BY <1>2, <1>5, <1>6, <1>7, <1>9 DEF AnnounceStepOK, Settled
<1>10. CASE ~(i <= Len(log))
  BY <1>2, <1>6, <1>8, <1>10 DEF AnnounceStepOK
<1> QED
  BY <1>9, <1>10

\* The invariant behind the single announcement.
THEOREM AnnounceInvariant == Spec => []AnnounceOK
<1>1. Init => AnnounceOK
  <2> SUFFICES ASSUME Init PROVE AnnounceOK
    OBVIOUS
  <2>1. \A i \in Tx : sends[i] = 0 /\ hs[i].pc = "idle"
    BY DEF Init, IdleHandler
  <2> QED
    BY <2>1, InitStateOK DEF AnnounceOK, AnnounceStepOK
<1>2. AnnounceOK /\ [Next]_vars => AnnounceOK'
  <2> SUFFICES ASSUME AnnounceOK, [Next]_vars PROVE AnnounceOK'
    OBVIOUS
  <2>1. StateOK'
    BY NextStateOK DEF AnnounceOK
  <2>2. \A i \in Tx : AnnounceStepOK(i)'
    BY AnnounceKept
  <2> QED
    BY <2>1, <2>2 DEF AnnounceOK
<1> QED
  BY <1>1, <1>2, PTL DEF Spec

\* However often a creation is replayed by backfills and however the sync and the
\* handlers interleave, its merchant gets subscription.created at most once.
THEOREM AnnouncedOnce == Spec => []CreatedAnnouncedOnce
<1>1. AnnounceOK => CreatedAnnouncedOnce
  <2> SUFFICES ASSUME AnnounceOK, NEW i \in DOMAIN log, log[i].kind = "subscribe"
               PROVE  sends[i] <= 1
    BY DEF CreatedAnnouncedOnce
  <2>1. i \in Tx /\ i <= Len(log)
    BY LogFacts DEF AnnounceOK, Tx, StateOK, TypeOK
  <2> QED
    BY <2>1 DEF AnnounceOK, AnnounceStepOK
<1> QED
  BY <1>1, AnnounceInvariant, PTL
--------------------------------------------------------------------------------
(* What is announced is in the tables.                                      *)

LEMMA RecordedStays ==
  ASSUME [Next]_vars
  PROVE  recorded \subseteq recorded'
<1>1. ASSUME NEW i \in Tx, Handle(i) PROVE recorded \subseteq recorded'
  <2>1. CASE UNCHANGED recorded
    BY <2>1
  <2>2. CASE HRecord(i)
    BY <2>2 DEF HRecord
  <2> QED
    BY <1>1, <2>1, <2>2 DEF Handle, HandlerStep, HFindSub, HFindPlan, HReadPlans,
       HWritePlan, HPlansWritten, HFindSession, HFailSession, HCompleteSession,
       HCreateSub, HIncPlan, HTouchWallet, HUpsertWallet, HPayRow, HReadRevenue,
       HPayPlan, HDeactivate, HDecPlan, HNotify, HSave
<1>2. ASSUME Chain PROVE UNCHANGED recorded
  BY <1>2 DEF Chain, ChainRegisterPlan, ChainCreateWallet, ChainSubscribe,
     ChainPay, ChainCancel, Emit
<1>3. ASSUME Checkout \/ Sync \/ SyncError \/ Boot \/ Crash \/ UNCHANGED vars
             \/ \E i \in Tx : HandlerError(i)
      PROVE  UNCHANGED recorded
  BY <1>3 DEF Checkout, CreateSession, CompleteSession, CancelSession, Sync,
     SyncError, Boot, Crash, vars, HandlerError
<1> QED
  BY <1>1, <1>2, <1>3 DEF Next

\* The steps of a creation handler after the session has been completed.
LinkedPCs == {"createSub", "incPlan"} \union SharedPCs

\* A creation handler reaches them through the write that completes the session.
LEMMA LinkedFrom ==
  ASSUME StateOK, [Next]_vars, NEW i \in 1..Len(log), log[i].kind = "subscribe",
         hs'[i].pc \in LinkedPCs
  PROVE  hs[i].pc \in LinkedPCs \/ HCompleteSession(i)
<1>1. HandlerMove(i) /\ HandlerOK(i, hs[i])
  <2>1. i \in Tx
    BY LogFacts DEF Tx
  <2> QED
    BY <2>1, NextMoves DEF StateOK, HandlersOK
<1>2. hs[i].pc \notin PayPCs \union CancelPCs
  BY <1>1 DEF HandlerOK, PayPCs, CancelPCs
<1>3. CASE hs'[i] = hs[i] \/ HCompleteSession(i)
  BY <1>3
<1>4. CASE ~(hs'[i] = hs[i] \/ HCompleteSession(i))
  <2>1. \/ hs[i].pc = "createSub"
        \/ hs[i].pc \in {"incPlan", "decPlan"}
        \/ hs[i].pc \in {"touchWallet", "payPlan"}
        \/ HRecord(i)
    BY <1>1, <1>4 DEF HandlerMove, LinkedPCs, SharedPCs
  <2> QED
    BY <1>2, <2>1 DEF HRecord, AtPC, LinkedPCs, SharedPCs, PayPCs, CancelPCs
<1> QED
  BY <1>3, <1>4

\* The session of a creation that is linked stays completed or cancelled: only
\* its own handler could mark it failed, and that one is past the verification.
LEMMA LinkedStays ==
  ASSUME DurableOK, [Next]_vars, NEW i \in 1..Len(log), log[i].kind = "subscribe",
         sends[i] > 0 \/ hs[i].pc \in LinkedPCs
  PROVE  session'[chain[log[i].of].token].status \in {"completed", "cancelled"}
<1> DEFINE k == chain[log[i].of].token
<1>1. StateOK /\ OnceOK /\ AnnounceOK /\ DurableStepOK(i)
  BY DEF DurableOK, AnnounceOK
<1>2. i \in Tx /\ k \in Tokens
  BY <1>1, TxStays DEF SubKinds
<1>3. session[k].status \in {"completed", "cancelled"}
  BY <1>1 DEF DurableStepOK, LinkedPCs
<1>4. ASSUME NEW j \in Tx, hs[j].pc \in {"failSession", "failCaught"},
             k = chain[log[j].of].token
      PROVE  FALSE
  <2>1. j \in 1..Len(log) /\ log[j].kind = "subscribe"
    <3>1. j <= Len(log) /\ log[j].kind = "subscribe"
      BY <1>1, <1>4 DEF StateOK, HandlersOK, HandlerOK, CreatePCs, LinkPCs
    <3> QED
      BY <1>1, <3>1, LogFacts DEF Tx
  <2>2. i = j
    BY <1>1, <1>4, <2>1, SameToken
  <2>3. AnnounceStepOK(i) /\ i <= Len(log)
    BY <1>1, <1>2, LogFacts DEF AnnounceOK
  <2>4. sends[i] = 0
    BY <1>4, <2>2, <2>3 DEF AnnounceStepOK
  <2> QED
    BY <1>4, <2>2, <2>4 DEF LinkedPCs, SharedPCs
<1> HIDE DEF k
<1>5. session'[k].status = session[k].status
        \/ session'[k].status \in {"completed", "cancelled"}
  BY <1>1, <1>2, <1>3, <1>4, SessionMoves
<1> QED
  BY <1>3, <1>5 DEF k

LEMMA DurableKept ==
  ASSUME DurableOK, [Next]_vars, NEW i \in 1..Len(log')
  PROVE  DurableStepOK(i)'
<1>1. StateOK /\ StateOK' /\ OnceOK /\ AnnounceOK
  BY NextStateOK DEF DurableOK, AnnounceOK
<1>2. /\ i \in Tx /\ sends[i] \in Nat /\ sends \in [Tx -> Nat]
      /\ Len(log) \in Nat /\ Len(log') \in Nat
  <2>1. log' \in Seq(Transaction) /\ Len(log') <= MaxTx
    BY <1>1 DEF StateOK, TypeOK
  <2>2. Len(log') \in Nat /\ MaxTx \in Nat
    BY <1>1, <2>1, LogFacts, LenProperties
  <2>3. i \in Tx
    BY <2>1, <2>2 DEF Tx
  <2> QED
    BY <1>1, <2>2, <2>3, LogFacts DEF StateOK, TypeOK
<1>3. HandlerMove(i) /\ AnnounceAdvance(i) /\ AnnounceStepOK(i) /\ HandlerOK(i, hs[i])
  BY <1>1, <1>2, NextMoves, NextAnnounce DEF AnnounceOK, StateOK, HandlersOK
<1>4. CASE i > Len(log)
  <2>1. sends[i] = 0 /\ hs[i].pc = "idle"
    BY <1>2, <1>3, <1>4 DEF AnnounceStepOK, HandlerOK
  <2>2. sends'[i] = 0
    BY <1>3, <2>1 DEF AnnounceAdvance
  <2>3. hs'[i].pc \in {"idle", "findSub", "readPlans", "upsertWallet"}
    BY <1>2, <1>3, <2>1, IdleMoves
  <2> QED
    BY <2>2, <2>3 DEF DurableStepOK, SharedPCs
<1>5. CASE i <= Len(log)
  <2>1. i \in 1..Len(log) /\ DurableStepOK(i) /\ log'[i] = log[i]
    BY <1>1, <1>2, <1>5, LogStays DEF DurableOK
  <2>2. sends'[i] > 0 => sends[i] > 0 \/ hs[i].pc = "notify"
    BY <1>2, <1>3 DEF AnnounceAdvance
  <2>3. ASSUME sends'[i] > 0 \/ hs'[i].pc = "notify" PROVE i \in recorded'
    <3>1. CASE sends[i] > 0 \/ hs[i].pc = "notify"
      BY <2>1, <3>1, RecordedStays DEF DurableStepOK
    <3>2. CASE ~(sends[i] > 0 \/ hs[i].pc = "notify")
      <4>1. HRecord(i)
        BY <1>3, <2>2, <2>3, <3>2 DEF HandlerMove
      <4> QED
        BY <4>1 DEF HRecord
    <3> QED
      BY <3>1, <3>2
  <2>4. ASSUME sends'[i] > 0
        PROVE  log[i].kind \in SubKinds /\ subRow'[log[i].of].here
    <3>1. log[i].kind \in SubKinds /\ subRow[log[i].of].here
      BY <1>3, <2>1, <2>2, <2>4 DEF DurableStepOK, HandlerOK, SharedPCs, RowPCs
    <3>2. log[i].of \in Subs
      BY <1>1, <2>1, <3>1, TxStays
    <3> QED
      BY <1>1, <3>1, <3>2, RowsStay
  <2>5. ASSUME log[i].kind = "subscribe", sends'[i] > 0 \/ hs'[i].pc \in LinkedPCs
        PROVE  session'[chain'[log'[i].of].token].status \in {"completed", "cancelled"}
    <3>1. /\ chain'[log'[i].of].token = chain[log[i].of].token
          /\ chain[log[i].of].token \in Tokens
      BY <1>1, <2>1, <2>5, TxStays DEF SubKinds
    <3>2. CASE sends[i] > 0 \/ hs[i].pc \in LinkedPCs
      BY <2>1, <2>5, <3>1, <3>2, LinkedStays
    <3>3. CASE ~(sends[i] > 0 \/ hs[i].pc \in LinkedPCs)
      <4>1. HCompleteSession(i)
        BY <1>1, <2>1, <2>2, <2>5, <3>3, LinkedFrom DEF LinkedPCs, SharedPCs
      <4>2. PICK t : t = chain[log[i].of].token
        OBVIOUS
      <4>3. session' = [session EXCEPT ![t].status = "completed", ![t].sub = log[i].of]
        BY <4>1, <4>2 DEF HCompleteSession
      <4>4. session'[t].status = "completed"
        BY <1>1, <3>1, <4>2, <4>3 DEF StateOK, TypeOK, Session
      <4> QED
        BY <3>1, <4>2, <4>4
    <3> QED
      BY <3>2, <3>3
  <2> QED
    BY <2>1, <2>3, <2>4, <2>5 DEF DurableStepOK, LinkedPCs
<1> QED
  BY <1>2, <1>4, <1>5

\* The invariant behind the durability of announcements.
THEOREM DurableInvariant == Spec => []DurableOK
<1>1. Init => \A i \in 1..Len(log) : DurableStepOK(i)
  BY DEF Init
<1>2. (\A i \in 1..Len(log) : DurableStepOK(i)) /\ OnceOK /\ AnnounceOK => DurableOK
  BY DEF DurableOK
<1>3. DurableOK /\ [Next]_vars => \A i \in 1..Len(log') : DurableStepOK(i)'
  BY DurableKept
<1> DEFINE Steps == \A i \in 1..Len(log) : DurableStepOK(i)
<1>4. Init => Steps
  BY <1>1
<1>5. OnceOK /\ AnnounceOK /\ Steps /\ [Next]_vars => Steps'
  BY <1>2, <1>3
<1>6. OnceOK /\ AnnounceOK /\ Steps => DurableOK
  BY <1>2
<1> HIDE DEF Steps
<1> QED
  BY <1>4, <1>5, <1>6, OnceInvariant, AnnounceInvariant, PTL DEF Spec

\* A merchant told of a creation, a payment or a cancellation finds it in the
\* tables whenever it looks, across crashes, replays and the syncs: the
\* transaction, the subscription row and, for a creation, a session that was
\* completed.
THEOREM AnnouncementsDurable == Spec => []AnnouncedIsDurable
<1>1. DurableOK => AnnouncedIsDurable
  <2> SUFFICES ASSUME DurableOK, NEW i \in DOMAIN log, sends[i] > 0
               PROVE  /\ i \in recorded
                      /\ subRow[log[i].of].here
                      /\ log[i].kind = "subscribe" =>
                           session[chain[log[i].of].token].status
                             \in {"completed", "cancelled"}
    BY DEF AnnouncedIsDurable
  <2>1. DurableStepOK(i)
    BY LenProperties DEF DurableOK, OnceOK, StateOK, TypeOK
  <2> QED
    BY <2>1 DEF DurableStepOK
<1> QED
  BY <1>1, DurableInvariant, PTL
================================================================================
