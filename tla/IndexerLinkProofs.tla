--------------------------- MODULE IndexerLinkProofs ---------------------------
(****************************************************************************)
(* The verification of checkout sessions is sound for every number of       *)
(* subscriptions, plans, sessions and handlers: what a handler established  *)
(* about a session at findSession still holds when it writes.               *)
(****************************************************************************)
EXTENDS IndexerProofs

\* How the steps of the verification follow one another; every other step of
\* every actor leaves handler i alone or takes it out of the verification.
LinkAdvance(i) ==
  LET h == hs[i]
      a == chain[log[i].of]
  IN \/ hs'[i] = h
     \/ hs'[i].pc \notin LinkPCs
     \/ /\ h.pc \in {"findPlan", "refindPlan"}
        /\ hs'[i].pc = "findSession"
        /\ hs'[i].plan \in Plans
        /\ planRow[hs'[i].plan].here
        /\ PlanId[hs'[i].plan] = PlanId[a.plan]
     \/ /\ h.pc \in LinkPCs
        /\ hs'[i].pc \in {"failSession", "failCaught"}
        /\ hs'[i].plan = h.plan
     \/ /\ h.pc = "findSession"
        /\ hs'[i].pc = "completeSession"
        /\ hs'[i].plan = h.plan
        /\ session[a.token].status # "absent"
        /\ session[a.token].plan = h.plan
        /\ MerchantOf[h.plan] = MerchantOf[a.plan]
     \/ /\ h.pc = "completeSession"
        /\ hs'[i].pc = "createSub"
        /\ hs'[i].plan = h.plan

\* Returned and the steps a handler goes to outside the verification.
LEMMA QuietGoTo ==
  ASSUME StateOK, NEW i \in Tx, NEW pc \in HandlerPCs \ LinkPCs, GoTo(i, pc)
  PROVE  \A j \in Tx : LinkAdvance(j)
BY GoToAdvance DEF LinkAdvance

LEMMA QuietMove ==
  ASSUME StateOK, NEW i \in Tx, hs'[i].pc \notin LinkPCs,
         \A j \in Tx : j # i => hs'[j] = hs[j]
  PROVE  \A j \in Tx : LinkAdvance(j)
BY DEF LinkAdvance

LEMMA PlainPCs ==
  /\ Returned \in HandlerPCs \ LinkPCs
  /\ {"idle", "findSub", "findPlan", "readPlans", "writePlans", "refindPlan",
      "incPlan", "payRow", "readRevenue", "payPlan", "deactivate", "decPlan",
      "touchWallet", "upsertWallet", "record", "notify", "save"}
       = HandlerPCs \ LinkPCs
BY DEF Returned, HandlerPCs, LinkPCs

LEMMA HandlerAdvance ==
  ASSUME StateOK, NEW i \in Tx, HandlerStep(i)
  PROVE  \A j \in Tx : LinkAdvance(j)
<1>0. hs \in [Tx -> Handler]
  BY DEF StateOK, TypeOK
<1>1. ASSUME HFindSub(i) PROVE \A j \in Tx : LinkAdvance(j)
  <2>1. CASE hs' = [hs EXCEPT ![i].pc = "payRow", ![i].val = subRow[log[i].of].paid]
    <3>1. hs'[i].pc = "payRow" /\ \A j \in Tx : j # i => hs'[j] = hs[j]
      BY <1>0, <2>1 DEF Handler
    <3> QED
      BY <3>1, PlainPCs, QuietMove
  <2>2. CASE \E pc \in HandlerPCs \ LinkPCs : GoTo(i, pc)
    BY <2>2, QuietGoTo
  <2> QED
    BY <1>1, <2>1, <2>2, PlainPCs DEF HFindSub
<1>2. ASSUME HFindPlan(i) PROVE \A j \in Tx : LinkAdvance(j)
  <2>1. CASE \E pc \in HandlerPCs \ LinkPCs : GoTo(i, pc)
    BY <2>1, QuietGoTo
  <2>2. ASSUME NEW p \in Plans, planRow[p].here,
               PlanId[p] = PlanId[chain[log[i].of].plan],
               hs' = [hs EXCEPT ![i].plan = p, ![i].pc = "findSession"]
        PROVE \A j \in Tx : LinkAdvance(j)
    <3>1. /\ hs'[i].pc = "findSession" /\ hs'[i].plan = p
          /\ \A j \in Tx : j # i => hs'[j] = hs[j]
      BY <1>0, <2>2 DEF Handler
    <3> QED
      BY <1>2, <2>2, <3>1 DEF LinkAdvance, HFindPlan
  <2> QED
    BY <1>2, <2>1, <2>2, PlainPCs DEF HFindPlan
<1>3. ASSUME HReadPlans(i) PROVE \A j \in Tx : LinkAdvance(j)
  <2>1. hs' = [hs EXCEPT ![i].pc = "writePlans", ![i].snap = PlanSnapshot]
    BY <1>3 DEF HReadPlans
  <2>2. hs'[i].pc = "writePlans" /\ \A j \in Tx : j # i => hs'[j] = hs[j]
    BY <1>0, <2>1 DEF Handler
  <2> QED
    BY <2>2, PlainPCs, QuietMove
<1>4. ASSUME HWritePlan(i) PROVE \A j \in Tx : LinkAdvance(j)
  <2>1. hs'[i].pc = "writePlans" /\ \A j \in Tx : j # i => hs'[j] = hs[j]
    BY <1>0, <1>4 DEF HWritePlan, Handler, AtPC
  <2> QED
    BY <2>1, PlainPCs, QuietMove
<1>5. ASSUME HReadRevenue(i) PROVE \A j \in Tx : LinkAdvance(j)
  <2>1. PICK v : v = planRow[subRow[log[i].of].plan].revenue
    OBVIOUS
  <2>2. hs' = [hs EXCEPT ![i].pc = "payPlan", ![i].val = v]
    BY <1>5, <2>1 DEF HReadRevenue
  <2>3. hs'[i].pc = "payPlan" /\ \A j \in Tx : j # i => hs'[j] = hs[j]
    BY <1>0, <2>2 DEF Handler
  <2> QED
    BY <2>3, PlainPCs, QuietMove
<1>6. ASSUME HFindSession(i) PROVE \A j \in Tx : LinkAdvance(j)
  <2>1. CASE GoTo(i, Returned)
    BY <2>1, PlainPCs, QuietGoTo
  <2>2. CASE GoTo(i, "failSession")
    <3>1. /\ hs'[i].pc = "failSession" /\ hs'[i].plan = hs[i].plan
          /\ \A j \in Tx : j # i => hs'[j] = hs[j]
      BY <2>2, GoToAdvance DEF HandlerPCs
    <3>2. hs[i].pc \in LinkPCs
      BY <1>6 DEF HFindSession, AtPC, LinkPCs
    <3> QED
      BY <3>1, <3>2 DEF LinkAdvance
  <2>3. CASE /\ GoTo(i, "completeSession")
             /\ session[chain[log[i].of].token].status # "absent"
             /\ session[chain[log[i].of].token].plan = hs[i].plan
             /\ MerchantOf[session[chain[log[i].of].token].plan]
                  = MerchantOf[chain[log[i].of].plan]
    <3>1. /\ hs'[i].pc = "completeSession" /\ hs'[i].plan = hs[i].plan
          /\ \A j \in Tx : j # i => hs'[j] = hs[j]
      BY <2>3, GoToAdvance DEF HandlerPCs
    <3>2. hs[i].pc = "findSession"
      BY <1>6 DEF HFindSession, AtPC
    <3> QED
      BY <2>3, <3>1, <3>2 DEF LinkAdvance
  <2> QED
    BY <1>6, <2>1, <2>2, <2>3 DEF HFindSession
<1>7. ASSUME HCompleteSession(i) PROVE \A j \in Tx : LinkAdvance(j)
  <2>1. GoTo(i, "createSub") /\ hs[i].pc = "completeSession"
    BY <1>7 DEF HCompleteSession, AtPC
  <2>2. /\ hs'[i].pc = "createSub" /\ hs'[i].plan = hs[i].plan
        /\ \A j \in Tx : j # i => hs'[j] = hs[j]
    BY <2>1, GoToAdvance DEF HandlerPCs
  <2> QED
    BY <2>1, <2>2 DEF LinkAdvance
<1>8. ASSUME \E pc \in HandlerPCs \ LinkPCs : GoTo(i, pc)
      PROVE  \A j \in Tx : LinkAdvance(j)
  BY <1>8, QuietGoTo
<1>9. ASSUME \/ HPlansWritten(i) \/ HFailSession(i) \/ HCreateSub(i) \/ HIncPlan(i)
             \/ HTouchWallet(i) \/ HUpsertWallet(i) \/ HPayRow(i) \/ HPayPlan(i)
             \/ HDeactivate(i) \/ HDecPlan(i) \/ HRecord(i) \/ HNotify(i) \/ HSave(i)
      PROVE  \E pc \in HandlerPCs \ LinkPCs : GoTo(i, pc)
  BY <1>9, PlainPCs DEF HPlansWritten, HFailSession, HCreateSub, HIncPlan,
     HTouchWallet, HUpsertWallet, HPayRow, HPayPlan, HDeactivate, HDecPlan, HRecord,
     HNotify, HSave
<1> QED
  BY <1>1, <1>2, <1>3, <1>4, <1>5, <1>6, <1>7, <1>8, <1>9 DEF HandlerStep

LEMMA NextAdvance ==
  ASSUME StateOK, [Next]_vars
  PROVE  \A j \in Tx : LinkAdvance(j)
<1>0. hs \in [Tx -> Handler]
  BY DEF StateOK, TypeOK
<1>1. CASE UNCHANGED hs
  BY <1>1 DEF LinkAdvance
<1>2. ASSUME NEW i \in Tx, Handle(i) PROVE \A j \in Tx : LinkAdvance(j)
  BY <1>2, HandlerAdvance DEF Handle
<1>3. ASSUME NEW i \in Tx, HandlerError(i) PROVE \A j \in Tx : LinkAdvance(j)
  <2>1. CASE GoTo(i, "failCaught") /\ hs[i].pc \in LinkPCs
    BY <2>1, GoToAdvance DEF LinkAdvance, HandlerPCs
  <2>2. CASE \E pc \in HandlerPCs \ LinkPCs : GoTo(i, pc)
    BY <2>2, QuietGoTo
  <2>3. CASE hs[i].pc \in {"findSession", "failSession", "completeSession"}
    BY <1>3, <2>1, <2>3 DEF HandlerError, LinkPCs
  <2>4. CASE hs[i].pc \in {"failCaught", "notify"}
    BY <1>3, <2>2, <2>4, PlainPCs DEF HandlerError
  <2>5. CASE hs[i].pc \notin {"findSession", "failSession", "completeSession",
                             "failCaught", "notify"}
    BY <1>3, <2>2, <2>5, PlainPCs DEF HandlerError
  <2> QED
    BY <2>3, <2>4, <2>5
<1>4. ASSUME Chain PROVE \A j \in Tx : hs'[j] = hs[j] \/ hs'[j].pc \notin LinkPCs
  <2>1. ASSUME NEW kind, NEW of, NEW n, Emit(kind, of, n)
        PROVE  \A j \in Tx : hs'[j] = hs[j] \/ hs'[j].pc \notin LinkPCs
    <3>1. PICK m : m = Len(log) + 1
      OBVIOUS
    <3>2. UNCHANGED hs \/ hs' = [hs EXCEPT ![m] = Started(kind)]
      BY <2>1, <3>1 DEF Emit
    <3>3. Started(kind).pc \notin LinkPCs
      <4>1. Started(kind).pc = FirstStep(kind)
        BY DEF Started, IdleHandler
      <4> QED
        BY <4>1 DEF FirstStep, LinkPCs
    <3> QED
      BY <1>0, <3>2, <3>3
  <2>2. ASSUME NEW p \in Plans, ChainRegisterPlan(p) PROVE Emit("plan", p, 0)
    BY <2>2 DEF ChainRegisterPlan
  <2>3. ASSUME NEW w \in Wallets, ChainCreateWallet(w) PROVE Emit("wallet", w, 0)
    BY <2>3 DEF ChainCreateWallet
  <2>4. ASSUME NEW s \in Subs, NEW p \in Plans, NEW k \in Tokens,
               ChainSubscribe(s, p, k)
        PROVE Emit("subscribe", s, 0)
    BY <2>4 DEF ChainSubscribe
  <2>5. ASSUME NEW s \in Subs, ChainPay(s) PROVE Emit("pay", s, chain[s].pays + 1)
    BY <2>5 DEF ChainPay
  <2>6. ASSUME NEW s \in Subs, ChainCancel(s) PROVE Emit("cancel", s, 0)
    BY <2>6 DEF ChainCancel
  <2> QED
    BY <1>4, <2>1, <2>2, <2>3, <2>4, <2>5, <2>6 DEF Chain
<1>5. ASSUME Boot PROVE \A j \in Tx : hs'[j] = hs[j] \/ hs'[j].pc \notin LinkPCs
  <2>1. CASE UNCHANGED hs
    BY <2>1
  <2>2. CASE BackfillNext
    <3>1. PICK m : m = Head(page)
      OBVIOUS
    <3>2. PICK pc : pc = FirstStep(Kind(m))
      OBVIOUS
    <3>3. PICK h : h = [IdleHandler EXCEPT !.pc = pc]
      OBVIOUS
    <3>4. h.pc = pc
      BY <3>3 DEF IdleHandler
    <3>5. pc \notin LinkPCs
      BY <3>2 DEF FirstStep, LinkPCs
    <3>6. hs' = [hs EXCEPT ![m] = h]
      BY <2>2, <3>1, <3>2, <3>3 DEF BackfillNext, Started
    <3> QED
      BY <1>0, <3>4, <3>5, <3>6
  <2> QED
    BY <1>5, <2>1, <2>2 DEF Boot, BootLoad, BootFetch, BootFetchError,
       BackfillDone, BootListen
<1>6. ASSUME Crash PROVE \A j \in Tx : hs'[j].pc \notin LinkPCs
  BY <1>6 DEF Crash, IdleHandler, LinkPCs
<1>7. ASSUME Checkout \/ Sync \/ SyncError \/ UNCHANGED vars
      PROVE  UNCHANGED hs
  BY <1>7 DEF Checkout, CreateSession, CompleteSession, CancelSession, procVars,
     Sync, SyncError, vars
<1> QED
  BY <1>1, <1>2, <1>3, <1>4, <1>5, <1>6, <1>7 DEF Next, LinkAdvance

\* What a handler in the verification works on.
LEMMA LinkingSub ==
  ASSUME StateOK, NEW i \in Tx, hs[i].pc \in CreatePCs
  PROVE  /\ log[i].of \in Subs /\ Opened(log[i].of)
         /\ i \in 1..Len(log)
         /\ chain[log[i].of].token \in Tokens /\ chain[log[i].of].plan \in Plans
         /\ hs[i].pc \in LinkPCs => hs[i].plan \in Plans
<1>1. /\ i <= Len(log) /\ log[i].kind = "subscribe"
      /\ hs[i].pc \in LinkPCs => hs[i].plan \in Plans
      /\ hs[i].pc # "idle"
  BY DEF StateOK, HandlersOK, HandlerOK, CreatePCs, LinkPCs
<1>2. i \in 1..Len(log)
  BY <1>1, LogFacts DEF Tx
<1>3. log[i].of \in Subs /\ Opened(log[i].of)
  BY <1>1, HandledSub DEF SubKinds
<1> QED
  BY <1>1, <1>2, <1>3 DEF StateOK, AccountsOK

\* A handler keeps what it knows through the steps of everyone, itself included.
LEMMA LinkStepKept ==
  ASSUME PlanIdsPerMerchant, LinkOK, [Next]_vars, NEW i \in Tx
  PROVE  LinkStepOK(i, hs[i])'
<1> DEFINE a == chain[log[i].of]
<1>1. StateOK /\ Monotone /\ LinkStepOK(i, hs[i])
  BY NextMonotone DEF LinkOK
<1>2. SUFFICES ASSUME hs'[i].pc \in LinkPCs PROVE LinkStepOK(i, hs[i])'
  BY DEF LinkStepOK, LinkPCs
<1>3. StateOK'
  BY <1>1, NextStateOK
<1>4. LinkAdvance(i)
  BY <1>1, NextAdvance
<1>5. hs[i].pc \in CreatePCs
  BY <1>2, <1>4 DEF LinkAdvance, CreatePCs, LinkPCs
<1>6. /\ log[i].of \in Subs /\ Opened(log[i].of)
      /\ log'[i] = log[i]
      /\ a.token \in Tokens /\ a.plan \in Plans
      /\ hs[i].pc \in LinkPCs => hs[i].plan \in Plans
  BY <1>1, <1>5, LinkingSub DEF Monotone
<1>7. chain'[log'[i].of].token = a.token /\ chain'[log'[i].of].plan = a.plan
  BY <1>1, <1>6 DEF Monotone
<1>8. planRow'[hs'[i].plan].here /\ PlanId[hs'[i].plan] = PlanId[a.plan]
  <2>1. /\ hs'[i].plan \in Plans
        /\ planRow[hs'[i].plan].here
        /\ PlanId[hs'[i].plan] = PlanId[a.plan]
    <3>1. CASE hs[i].pc \in LinkPCs
      <4>1. hs'[i].plan = hs[i].plan
        BY <1>2, <1>4, <3>1 DEF LinkAdvance, LinkPCs
      <4> QED
        BY <1>1, <1>6, <3>1, <4>1 DEF LinkStepOK
    <3>2. CASE hs[i].pc \notin LinkPCs
      BY <1>2, <1>4, <3>2 DEF LinkAdvance, LinkPCs
    <3> QED
      BY <3>1, <3>2
  <2> QED
    BY <1>1, <2>1 DEF Monotone
<1>9. ASSUME hs'[i].pc \in {"completeSession", "createSub"}
      PROVE  /\ hs'[i].plan = a.plan
             /\ session[a.token].status # "absent"
             /\ session[a.token].plan = hs'[i].plan
  <2>1. CASE hs'[i] = hs[i] \/ hs[i].pc = "completeSession"
    BY <1>1, <1>4, <1>9, <2>1 DEF LinkAdvance, LinkStepOK, LinkPCs
  <2>2. CASE hs'[i] # hs[i] /\ hs[i].pc # "completeSession"
    <3>1. /\ hs[i].pc \in LinkPCs /\ hs'[i].plan = hs[i].plan
          /\ session[a.token].status # "absent"
          /\ session[a.token].plan = hs[i].plan
          /\ MerchantOf[hs[i].plan] = MerchantOf[a.plan]
      BY <1>4, <1>9, <2>2 DEF LinkAdvance, LinkPCs
    <3>2. hs[i].plan = a.plan
      BY <1>1, <1>6, <3>1 DEF PlanIdsPerMerchant, LinkStepOK
    <3> QED
      BY <3>1, <3>2
  <2> QED
    BY <2>1, <2>2
<1>10. ASSUME hs'[i].pc \in {"completeSession", "createSub"}
       PROVE  session'[a.token].status # "absent" /\ session'[a.token].plan = hs'[i].plan
  BY <1>1, <1>6, <1>9, <1>10 DEF Monotone
<1> QED
  BY <1>7, <1>8, <1>9, <1>10 DEF LinkStepOK

LEMMA CompletedKept ==
  ASSUME LinkOK, [Next]_vars
  PROVE  CompletedSessionsVerified'
<1>1. StateOK /\ Monotone /\ CompletedSessionsVerified
  BY NextMonotone DEF LinkOK
<1>2. SUFFICES ASSUME NEW k \in Tokens, session'[k].status = "completed"
               PROVE  \E s \in Subs : /\ s = session'[k].sub
                                      /\ chain'[s].status # "none"
                                      /\ chain'[s].token = k
                                      /\ chain'[s].plan = session'[k].plan
  BY DEF CompletedSessionsVerified
<1>3. CASE session[k].status = "completed" /\ session'[k].sub = session[k].sub
  <2>1. PICK s \in Subs : /\ s = session[k].sub
                          /\ chain[s].status # "none"
                          /\ chain[s].token = k
                          /\ chain[s].plan = session[k].plan
    BY <1>1, <1>3 DEF CompletedSessionsVerified
  <2> QED
    BY <1>1, <1>3, <2>1 DEF Monotone, Opened
<1>4. ASSUME NEW i \in Tx, hs[i].pc = "completeSession",
             k = chain[log[i].of].token, session'[k].sub = log[i].of
      PROVE  \E s \in Subs : /\ s = session'[k].sub
                             /\ chain'[s].status # "none"
                             /\ chain'[s].token = k
                             /\ chain'[s].plan = session'[k].plan
  <2>1. PICK s : s = log[i].of
    OBVIOUS
  <2>2. s \in Subs /\ Opened(s)
    BY <1>1, <1>4, <2>1, LinkingSub DEF CreatePCs, LinkPCs
  <2>3. session[k].status # "absent" /\ session[k].plan = chain[s].plan
    BY <1>4, <2>1 DEF LinkOK, LinkStepOK
  <2> QED
    BY <1>1, <1>4, <2>1, <2>2, <2>3 DEF Monotone, Opened
<1> QED
  BY <1>1, <1>2, <1>3, <1>4, CompletionSource

LEMMA RowsKept ==
  ASSUME LinkOK, [Next]_vars
  PROVE  SubscriptionRowsBacked'
<1>1. StateOK /\ Monotone /\ SubscriptionRowsBacked
  BY NextMonotone DEF LinkOK
<1> DEFINE Backed(s, p, k) == /\ Opened(s)
                              /\ k = chain[s].token
                              /\ p = chain[s].plan
                              /\ session[k].status # "absent"
                              /\ planRow[p].here
<1>2. ASSUME NEW s \in Subs, subRow'[s].here
      PROVE  Backed(s, subRow'[s].plan, subRow'[s].token)
  <2>1. CASE subRow[s].here /\ subRow'[s].plan = subRow[s].plan
             /\ subRow'[s].token = subRow[s].token
    BY <1>1, <2>1 DEF SubscriptionRowsBacked, Opened
  <2>2. ASSUME NEW i \in Tx, hs[i].pc = "createSub", log[i].of = s,
               subRow'[s].plan = hs[i].plan, subRow'[s].token = chain[s].token
        PROVE  Backed(s, subRow'[s].plan, subRow'[s].token)
    <3>1. Opened(s)
      BY <1>1, <2>2, LinkingSub DEF CreatePCs, LinkPCs
    <3>2. LinkStepOK(i, hs[i])
      BY DEF LinkOK
    <3> QED
      BY <2>2, <3>1, <3>2 DEF LinkStepOK, LinkPCs
  <2>3. ASSUME \E x \in sync.subs : x.sub = s,
               session[chain[s].token].status # "absent",
               planRow[chain[s].plan].here,
               subRow'[s].plan = chain[s].plan, subRow'[s].token = chain[s].token
        PROVE  Backed(s, subRow'[s].plan, subRow'[s].token)
    <3>1. Opened(s)
      BY <1>1, <2>3 DEF StateOK, SnapshotOK
    <3> QED
      BY <2>3, <3>1
  <2> QED
    BY <1>1, <1>2, <2>1, <2>2, <2>3, RowSource
<1>3. ASSUME NEW s \in Subs, NEW p, NEW k, Backed(s, p, k)
      PROVE  /\ Opened(s)' /\ k = chain'[s].token /\ p = chain'[s].plan
             /\ session'[k].status # "absent" /\ planRow'[p].here
  <2>1. p \in Plans /\ k \in Tokens
    BY <1>1, <1>3 DEF StateOK, AccountsOK
  <2> QED
    BY <1>1, <1>3, <2>1 DEF Monotone
<1> QED
  BY <1>2, <1>3 DEF SubscriptionRowsBacked, Opened

LEMMA LinkKept ==
  ASSUME PlanIdsPerMerchant, LinkOK, [Next]_vars
  PROVE  LinkOK'
<1>1. StateOK'
  BY NextStateOK DEF LinkOK
<1>2. \A i \in Tx : LinkStepOK(i, hs[i])'
  BY LinkStepKept
<1> QED
  BY <1>1, <1>2, CompletedKept, RowsKept DEF LinkOK

LEMMA LinkInit == Init => LinkOK
<1> SUFFICES ASSUME Init PROVE LinkOK
  OBVIOUS
<1>1. StateOK
  BY InitStateOK
<1>2. CompletedSessionsVerified /\ SubscriptionRowsBacked
  BY DEF Init, CompletedSessionsVerified, SubscriptionRowsBacked, NoSession, NoSubRow
<1>3. \A i \in Tx : LinkStepOK(i, hs[i])
  BY DEF Init, LinkStepOK, IdleHandler, LinkPCs
<1> QED
  BY <1>1, <1>2, <1>3 DEF LinkOK

\* As long as merchants do not reuse plan ids, the invariant of the verification
\* holds for any numbers of accounts, sessions and handlers.
THEOREM LinkInvariant ==
  ASSUME PlanIdsPerMerchant
  PROVE  Spec => []LinkOK
<1>1. LinkOK /\ [Next]_vars => LinkOK'
  BY LinkKept
<1> QED
  BY <1>1, LinkInit, PTL DEF Spec

\* A session never reads "completed" without the subscription it names: opened on
\* chain, with this session's token, on this session's plan.
THEOREM SessionsVerified ==
  ASSUME PlanIdsPerMerchant
  PROVE  Spec => []CompletedSessionsVerified
<1>1. LinkOK => CompletedSessionsVerified
  BY DEF LinkOK
<1> QED
  BY <1>1, LinkInvariant, PTL

\* A subscription row always has its account, session and plan row behind it.
THEOREM RowsBacked ==
  ASSUME PlanIdsPerMerchant
  PROVE  Spec => []SubscriptionRowsBacked
<1>1. LinkOK => SubscriptionRowsBacked
  BY DEF LinkOK
<1> QED
  BY <1>1, LinkInvariant, PTL
--------------------------------------------------------------------------------
(* The refinement: the indexer implements CheckoutContract.                 *)

LEMMA SubscribedElement ==
  ASSUME NEW s \in Subs, Opened(s)
  PROVE  <<chain[s].token, chain[s].plan, s>> \in Subscribed
BY DEF Subscribed, Opened

\* Accounts that keep status, token and plan leave the contract's view alone.
LEMMA SubscribedSame ==
  ASSUME \A s \in Subs : /\ Opened(s)' <=> Opened(s)
                         /\ chain'[s].token = chain[s].token
                         /\ chain'[s].plan = chain[s].plan
  PROVE  UNCHANGED Subscribed
BY DEF Subscribed, Opened

LEMMA SubscribeRefines ==
  ASSUME StateOK, NEW s \in Subs, NEW p \in Plans, NEW k \in Tokens,
         ChainSubscribe(s, p, k), UNCHANGED session
  PROVE  Checked!Subscribe(k, p, s)
<1>1. chain \in [Subs -> Account]
  BY DEF StateOK, TypeOK
<1>2. /\ chain[s].status = "none"
      /\ \A t \in Subs : chain[t].token # k
      /\ chain' = [chain EXCEPT ![s] = [status |-> "active", plan |-> p,
                                        token |-> k, pays |-> 0]]
  BY DEF ChainSubscribe
<1>3. \A x \in Subscribed : x[1] # k /\ x[3] # s
  BY <1>2 DEF Subscribed
<1>4. /\ chain'[s].status = "active" /\ chain'[s].plan = p /\ chain'[s].token = k
      /\ \A t \in Subs : t # s => chain'[t] = chain[t]
  BY <1>1, <1>2
<1>5. Subscribed' = Subscribed \union {<<k, p, s>>}
  <2>1. ASSUME NEW x \in Subscribed' PROVE x \in Subscribed \union {<<k, p, s>>}
    <3>1. PICK t \in Subs : /\ chain'[t].status # "none"
                            /\ x = <<chain'[t].token, chain'[t].plan, t>>
      BY <2>1 DEF Subscribed
    <3> QED
      BY <1>4, <3>1 DEF Subscribed
  <2>2. ASSUME NEW x \in Subscribed PROVE x \in Subscribed'
    <3>1. PICK t \in Subs : /\ chain[t].status # "none"
                            /\ x = <<chain[t].token, chain[t].plan, t>>
      BY <2>2 DEF Subscribed
    <3>2. t # s
      BY <1>2, <3>1
    <3> QED
      BY <1>4, <3>1, <3>2 DEF Subscribed
  <2>3. <<k, p, s>> \in Subscribed'
    BY <1>4 DEF Subscribed
  <2> QED
    BY <2>1, <2>2, <2>3
<1> QED
  BY <1>3, <1>5 DEF Checked!Subscribe

LEMMA ChainRefines ==
  ASSUME StateOK, Chain
  PROVE  Checked!Next \/ UNCHANGED <<session, Subscribed>>
<1>0. chain \in [Subs -> Account]
  BY DEF StateOK, TypeOK
<1>1. ASSUME NEW s \in Subs, NEW p \in Plans, NEW k \in Tokens, ChainSubscribe(s, p, k)
      PROVE  Checked!Next
  <2>1. UNCHANGED session
    BY <1>1 DEF ChainSubscribe, Emit
  <2> QED
    BY <1>1, <2>1, SubscribeRefines DEF Checked!Next
<1>2. ASSUME NEW s \in Subs, ChainPay(s) \/ ChainCancel(s)
      PROVE  UNCHANGED <<session, Subscribed>>
  <2>1. UNCHANGED session
    BY <1>2 DEF ChainPay, ChainCancel, Emit
  <2>2. \A t \in Subs : /\ Opened(t)' <=> Opened(t)
                        /\ chain'[t].token = chain[t].token
                        /\ chain'[t].plan = chain[t].plan
    <3>1. CASE ChainPay(s)
      <4>1. chain' = [chain EXCEPT ![s].pays = @ + 1]
        BY <3>1 DEF ChainPay
      <4> QED
        BY <1>0, <4>1 DEF Opened, Account
    <3>2. CASE ChainCancel(s)
      <4>1. chain[s].status = "active" /\ chain' = [chain EXCEPT ![s].status = "cancelled"]
        BY <3>2 DEF ChainCancel
      <4> QED
        BY <1>0, <4>1 DEF Opened, Account
    <3> QED
      BY <1>2, <3>1, <3>2
  <2> QED
    BY <2>1, <2>2, SubscribedSame
<1>3. ASSUME \/ \E p \in Plans : ChainRegisterPlan(p)
             \/ \E w \in Wallets : ChainCreateWallet(w)
      PROVE  UNCHANGED <<session, Subscribed>>
  BY <1>3 DEF ChainRegisterPlan, ChainCreateWallet, Emit, Subscribed
<1> QED
  BY <1>1, <1>2, <1>3 DEF Chain

\* A creation handler judges a session that its own subscription names.
LEMMA JudgeRefines ==
  ASSUME LinkOK, NEW i \in Tx, HFailSession(i) \/ HCompleteSession(i), UNCHANGED chain
  PROVE  Checked!Next \/ UNCHANGED <<session, Subscribed>>
<1> DEFINE s == log[i].of
           k == chain[s].token
<1>1. hs[i].pc \in LinkPCs
  BY DEF HFailSession, HCompleteSession, AtPC, LinkPCs
<1>2. StateOK
  BY DEF LinkOK
<1>3. s \in Subs /\ Opened(s) /\ k \in Tokens
  BY <1>1, <1>2, LinkingSub DEF CreatePCs
<1>4. <<k, chain[s].plan, s>> \in Subscribed
  BY <1>3, SubscribedElement
<1>5. UNCHANGED Subscribed
  BY DEF Subscribed
<1> HIDE DEF s, k
<1>6. CASE HFailSession(i)
  <2>1. session' = IF session[k].status = "absent" THEN session
                   ELSE [session EXCEPT ![k].status = "failed"]
    BY <1>6 DEF HFailSession, s, k
  <2>2. \E x \in Subscribed : x[1] = k
    BY <1>4
  <2>3. session[k].status # "absent" => Checked!Fail(k)
    BY <1>5, <2>1, <2>2 DEF Checked!Fail
  <2> QED
    BY <1>3, <1>5, <2>1, <2>3 DEF Checked!Next
<1>7. CASE HCompleteSession(i)
  <2>1. session' = [session EXCEPT ![k].status = "completed", ![k].sub = s]
    BY <1>7 DEF HCompleteSession, s, k
  <2>2. session[k].status # "absent" /\ session[k].plan = chain[s].plan
    BY <1>7 DEF LinkOK, LinkStepOK, HCompleteSession, AtPC, s, k
  <2>3. Checked!Complete(k, s)
    BY <1>4, <1>5, <2>1, <2>2 DEF Checked!Complete
  <2> QED
    BY <1>3, <2>3 DEF Checked!Next
<1> QED
  BY <1>6, <1>7

LEMMA CheckoutRefines ==
  ASSUME Checkout
  PROVE  Checked!Next \/ UNCHANGED <<session, Subscribed>>
<1>1. UNCHANGED Subscribed
  BY DEF Checkout, CreateSession, CompleteSession, CancelSession, chainVars, Subscribed
<1>2. ASSUME NEW k \in Tokens, NEW p \in Plans, CreateSession(k, p)
      PROVE  Checked!Open(k, p)
  <2>1. \A x \in Subscribed : x[1] # k
    BY <1>2 DEF CreateSession, Subscribed
  <2> QED
    BY <1>1, <1>2, <2>1 DEF CreateSession, Checked!Open
<1>3. ASSUME NEW k \in Tokens, CancelSession(k) PROVE Checked!Cancel(k)
  BY <1>1, <1>3 DEF CancelSession, Checked!Cancel
<1>4. ASSUME NEW k \in Tokens, CompleteSession(k) PROVE UNCHANGED session
  BY <1>4 DEF CompleteSession
<1> QED
  BY <1>1, <1>2, <1>3, <1>4 DEF Checkout, Checked!Next

LEMMA StepRefines ==
  ASSUME LinkOK, [Next]_vars
  PROVE  [Checked!Next]_<<session, Subscribed>>
<1>1. ASSUME NEW i \in Tx, Handle(i)
      PROVE  Checked!Next \/ UNCHANGED <<session, Subscribed>>
  <2>1. UNCHANGED chain
    BY <1>1 DEF Handle, chainVars
  <2>2. CASE HFailSession(i) \/ HCompleteSession(i)
    BY <2>1, <2>2, JudgeRefines
  <2>3. CASE ~(HFailSession(i) \/ HCompleteSession(i))
    <3>1. UNCHANGED session
      BY <1>1, <2>3 DEF Handle, HandlerStep, HFindSub, HFindPlan, HReadPlans,
         HWritePlan, HPlansWritten, HFindSession, HCreateSub, HIncPlan,
         HTouchWallet, HUpsertWallet, HPayRow, HReadRevenue, HPayPlan, HDeactivate,
         HDecPlan, HRecord, HNotify, HSave
    <3> QED
      BY <2>1, <3>1 DEF Subscribed
  <2> QED
    BY <2>2, <2>3
<1>2. ASSUME \/ \E i \in Tx : HandlerError(i)
             \/ Sync \/ SyncError \/ Boot \/ Crash \/ UNCHANGED vars
      PROVE  UNCHANGED <<session, Subscribed>>
  BY <1>2 DEF HandlerError, Sync, SyncError, Boot, Crash, chainVars, vars, Subscribed
<1> QED
  BY <1>1, <1>2, ChainRefines, CheckoutRefines DEF LinkOK, Next

\* Whatever handlers, syncs, replays and crashes do to them, sessions behave as
\* the checkout contract says, as long as merchants do not reuse plan ids.
THEOREM ImplementsCheckout ==
  ASSUME PlanIdsPerMerchant
  PROVE  Spec => KeepsCheckout
<1>1. Init => Checked!Init
  BY DEF Init, NoSession, NoAccount, Checked!Init, Subscribed
<1>2. LinkOK /\ [Next]_vars => [Checked!Next]_<<session, Subscribed>>
  BY StepRefines
<1> QED
  BY <1>1, <1>2, LinkInvariant, PTL DEF Spec, KeepsCheckout, Checked!Spec
--------------------------------------------------------------------------------
(* Revenue is never overstated.                                             *)

LEMMA SpentFinite ==
  ASSUME StateOK, NEW p
  PROVE  IsFiniteSet(Spent(p)) /\ Cardinality(Spent(p)) \in Nat
<1>1. Spent(p) \subseteq 1..Len(log)
  BY LenProperties DEF StateOK, TypeOK, Spent, PaidOn
<1>2. IsFiniteSet(1..Len(log))
  <2>1. 1 \in Int /\ Len(log) \in Int
    BY LogFacts
  <2> QED
    BY <2>1, FS_Interval
<1> QED
  BY <1>1, <1>2, FS_Subset, FS_CardinalityType

\* The payments a plan has been credited for, or never will be, only grow.
LEMMA SpentGrows ==
  ASSUME OnceOK, [Next]_vars, ~Crash, NEW p
  PROVE  /\ Spent(p) \subseteq Spent(p)'
         /\ IsFiniteSet(Spent(p)')
         /\ Cardinality(Spent(p)) \in Nat /\ Cardinality(Spent(p)') \in Nat
         /\ Cardinality(Spent(p)) <= Cardinality(Spent(p)')
<1>1. StateOK /\ StateOK'
  BY NextStateOK DEF OnceOK
<1>2. Spent(p) \subseteq Spent(p)'
  <2> SUFFICES ASSUME NEW i \in Spent(p) PROVE i \in Spent(p)'
    OBVIOUS
  <2>1. /\ i \in 1..Len(log) /\ log[i].kind = "pay" /\ chain[log[i].of].plan = p
        /\ ~Pending(i)
    BY <1>1, LenProperties DEF Spent, PaidOn, StateOK, TypeOK
  <2>2. /\ log'[i] = log[i] /\ i \in 1..Len(log')
        /\ chain'[log[i].of].plan = chain[log[i].of].plan
    BY <1>1, <2>1, TxStays DEF SubKinds
  <2>3. ~Pending(i)'
    BY <2>1, PendingBack
  <2>4. i \in DOMAIN log'
    BY <1>1, <2>2, LenProperties DEF StateOK, TypeOK
  <2> QED
    BY <2>1, <2>2, <2>3, <2>4 DEF Spent, PaidOn
<1>3. IsFiniteSet(Spent(p)) /\ Cardinality(Spent(p)) \in Nat
  BY <1>1, SpentFinite
<1>4. IsFiniteSet(Spent(p)') /\ Cardinality(Spent(p)') \in Nat
  <2>1. Spent(p)' \subseteq 1..Len(log')
    BY <1>1, LenProperties DEF StateOK, TypeOK, Spent, PaidOn
  <2>2. IsFiniteSet(1..Len(log'))
    <3>1. 1 \in Int /\ Len(log') \in Int
      BY <1>1, LenProperties DEF StateOK, TypeOK
    <3> QED
      BY <3>1, FS_Interval
  <2> QED
    BY <2>1, <2>2, FS_Subset, FS_CardinalityType
<1> QED
  BY <1>2, <1>3, <1>4, FS_Subset

\* Only the last write of a payment handler changes a revenue.
LEMMA RevenueSource ==
  ASSUME StateOK, [Next]_vars, NEW p \in Plans,
         planRow'[p].revenue # planRow[p].revenue
  PROVE  \E i \in Tx : /\ Handle(i)
                       /\ hs[i].pc = "payPlan"
                       /\ p = subRow[log[i].of].plan
                       /\ planRow'[p].revenue = hs[i].val + 1
<1>0. planRow \in [Plans -> PlanRow]
  BY DEF StateOK, TypeOK
<1>1. ASSUME NEW x, UpsertPlan(x) PROVE FALSE
  BY <1>0, <1>1 DEF UpsertPlan, PlanRow
<1>2. ASSUME NEW i \in Tx, HPayPlan(i)
      PROVE  /\ hs[i].pc = "payPlan"
             /\ p = subRow[log[i].of].plan
             /\ planRow'[p].revenue = hs[i].val + 1
  <2>1. PICK q : q = subRow[log[i].of].plan
    OBVIOUS
  <2>2. PICK v : v = hs[i].val + 1
    OBVIOUS
  <2>3. planRow' = [planRow EXCEPT ![q].revenue = v] /\ hs[i].pc = "payPlan"
    BY <1>2, <2>1, <2>2 DEF HPayPlan, AtPC
  <2>4. q = p /\ planRow'[p].revenue = v
    BY <1>0, <2>3 DEF PlanRow
  <2> QED
    BY <2>1, <2>2, <2>3, <2>4
<1>3. ASSUME NEW i \in Tx, HIncPlan(i) \/ HDecPlan(i) PROVE FALSE
  <2>1. PICK q, v : planRow' = [planRow EXCEPT ![q].subscribers = v]
    BY <1>3 DEF HIncPlan, HDecPlan
  <2> QED
    BY <1>0, <2>1 DEF PlanRow
<1>4. ASSUME NEW i \in Tx, Handle(i)
      PROVE  HPayPlan(i) \/ HIncPlan(i) \/ HDecPlan(i) \/ \E x : UpsertPlan(x)
  BY <1>4 DEF Handle, HandlerStep, HFindSub, HFindPlan, HReadPlans, HWritePlan,
     HPlansWritten, HFindSession, HFailSession, HCompleteSession, HCreateSub,
     HTouchWallet, HUpsertWallet, HPayRow, HReadRevenue, HDeactivate, HRecord,
     HNotify, HSave
<1>5. ASSUME Chain PROVE FALSE
  BY <1>5 DEF Chain, ChainRegisterPlan, ChainCreateWallet, ChainSubscribe,
     ChainPay, ChainCancel, Emit
<1>6. ASSUME Sync PROVE \E x : UpsertPlan(x)
  BY <1>6 DEF Sync, SyncBegin, SyncWritePlan, SyncReadWallets, SyncWriteWallet,
     SyncReadSubs, SyncWriteSub, SyncEnd
<1>7. ASSUME Checkout \/ SyncError \/ Boot \/ Crash \/ UNCHANGED vars
             \/ \E i \in Tx : HandlerError(i)
      PROVE  FALSE
  BY <1>7 DEF Checkout, CreateSession, CompleteSession, CancelSession, SyncError,
     Boot, Crash, vars, HandlerError
<1> QED
  BY <1>1, <1>2, <1>3, <1>4, <1>5, <1>6, <1>7 DEF Next

\* The row a payment handler adds to is on the plan of the account.
LEMMA PayingSub ==
  ASSUME LinkOK, NEW i \in Tx, hs[i].pc \in PayPCs
  PROVE  /\ i \in 1..Len(log) /\ log[i].kind = "pay"
         /\ log[i].of \in Subs /\ Opened(log[i].of)
         /\ subRow[log[i].of].plan = chain[log[i].of].plan
         /\ subRow[log[i].of].plan \in Plans
<1>1. StateOK /\ HandlerOK(i, hs[i])
  BY DEF LinkOK, StateOK, HandlersOK
<1>2. i <= Len(log) /\ log[i].kind = "pay" /\ subRow[log[i].of].here /\ hs[i].pc # "idle"
  BY <1>1 DEF HandlerOK, PayPCs, RowPCs
<1>3. i \in 1..Len(log)
  BY <1>1, <1>2, LogFacts DEF Tx
<1>4. log[i].of \in Subs /\ Opened(log[i].of)
  BY <1>1, <1>2, HandledSub DEF SubKinds
<1> QED
  BY <1>1, <1>2, <1>3, <1>4 DEF LinkOK, SubscriptionRowsBacked, StateOK, AccountsOK

\* A payment handler that writes the revenue takes its payment off the pending.
LEMMA PaymentSpent ==
  ASSUME OnceOK, LinkOK, [Next]_vars, ~Crash, NEW i \in Tx, Handle(i),
         hs[i].pc = "payPlan", NEW p, p = subRow[log[i].of].plan
  PROVE  Cardinality(Spent(p)) + 1 <= Cardinality(Spent(p)')
<1>1. StateOK /\ i \in 1..Len(log) /\ log[i].kind = "pay" /\ chain[log[i].of].plan = p
  BY PayingSub DEF LinkOK, PayPCs
<1>2. Pending(i)
  BY DEF Pending, EarlyPCs, PayPCs
<1>3. HPayPlan(i) /\ UNCHANGED <<boot, page>>
  BY DEF Handle, HandlerStep, HFindSub, HFindPlan, HReadPlans, HWritePlan,
     HPlansWritten, HFindSession, HFailSession, HCompleteSession, HCreateSub,
     HIncPlan, HTouchWallet, HUpsertWallet, HPayRow, HReadRevenue, HDeactivate,
     HDecPlan, HRecord, HNotify, HSave, AtPC
<1>4. hs'[i].pc = "record"
  BY <1>1, <1>3, GoToAdvance DEF HPayPlan, HandlerPCs
<1>5. ~Pending(i)'
  BY <1>3, <1>4, PendingDone DEF EarlyPCs, PayPCs
<1>6. i \in Spent(p)'
  <2>1. /\ log'[i] = log[i] /\ i \in 1..Len(log')
        /\ chain'[log[i].of].plan = p
    BY <1>1, TxStays DEF SubKinds
  <2>2. i \in DOMAIN log'
    BY <1>1, <2>1, NextStateOK, LenProperties DEF StateOK, TypeOK
  <2> QED
    BY <1>1, <1>5, <2>1, <2>2 DEF Spent, PaidOn
<1>7. i \notin Spent(p)
  BY <1>2 DEF Spent
<1>8. /\ Spent(p) \subseteq Spent(p)'
      /\ IsFiniteSet(Spent(p)') /\ IsFiniteSet(Spent(p))
      /\ Cardinality(Spent(p)) \in Nat /\ Cardinality(Spent(p)') \in Nat
  BY <1>1, SpentGrows, SpentFinite
<1>9. Spent(p) \union {i} \subseteq Spent(p)'
  BY <1>6, <1>8
<1>10. Cardinality(Spent(p) \union {i}) = Cardinality(Spent(p)) + 1
  BY <1>7, <1>8, FS_AddElement
<1>11. Cardinality(Spent(p) \union {i}) <= Cardinality(Spent(p)')
  BY <1>8, <1>9, FS_Subset
<1> QED
  BY <1>10, <1>11

LEMMA RevenueKept ==
  ASSUME PlanIdsPerMerchant, RevenueOK, [Next]_vars
  PROVE  RevenueOK'
<1>1. OnceOK /\ OnceOK' /\ LinkOK /\ LinkOK' /\ StateOK /\ StateOK'
  BY OnceKept, LinkKept DEF RevenueOK, LinkOK
<1>2. SUFFICES ASSUME crashes' = 0
               PROVE  /\ \A p \in Plans :
                           planRow'[p].revenue <= Cardinality(Spent(p)')
                      /\ \A i \in Tx : hs'[i].pc = "payPlan" =>
                           hs'[i].val <= Cardinality(Spent(subRow[log[i].of].plan)')
  BY <1>1 DEF RevenueOK
<1>3. ~Crash /\ crashes = 0
  <2>1. crashes \in Nat
    BY <1>1 DEF StateOK, TypeOK
  <2>2. ~Crash
    BY <1>2, <2>1 DEF Crash
  <2> QED
    BY <1>2, <2>2, BootEdge
<1>4. /\ \A p \in Plans : planRow[p].revenue <= Cardinality(Spent(p))
      /\ \A i \in Tx : hs[i].pc = "payPlan" =>
           hs[i].val <= Cardinality(Spent(subRow[log[i].of].plan))
  BY <1>3 DEF RevenueOK
<1>5. \A p \in Plans : planRow[p].revenue \in Nat
  BY <1>1 DEF StateOK, TypeOK, PlanRow
<1>6. \A i \in Tx : hs[i].val \in Nat
  BY <1>1 DEF StateOK, TypeOK, Handler
<1>7. ASSUME NEW p \in Plans PROVE planRow'[p].revenue <= Cardinality(Spent(p)')
  <2>1. /\ Cardinality(Spent(p)) \in Nat /\ Cardinality(Spent(p)') \in Nat
        /\ Cardinality(Spent(p)) <= Cardinality(Spent(p)')
    BY <1>1, <1>3, SpentGrows
  <2>2. CASE planRow'[p].revenue = planRow[p].revenue
    <3>1. planRow[p].revenue <= Cardinality(Spent(p)) /\ planRow[p].revenue \in Nat
      BY <1>4, <1>5
    <3> QED
      BY <2>1, <2>2, <3>1
  <2>3. CASE planRow'[p].revenue # planRow[p].revenue
    <3>1. PICK i \in Tx : /\ Handle(i)
                          /\ hs[i].pc = "payPlan"
                          /\ p = subRow[log[i].of].plan
                          /\ planRow'[p].revenue = hs[i].val + 1
      BY <1>1, <2>3, RevenueSource
    <3>2. hs[i].val <= Cardinality(Spent(p)) /\ hs[i].val \in Nat
      BY <1>4, <1>6, <3>1
    <3>3. Cardinality(Spent(p)) + 1 <= Cardinality(Spent(p)')
      BY <1>1, <1>3, <3>1, PaymentSpent
    <3> QED
      BY <2>1, <3>1, <3>2, <3>3
  <2> QED
    BY <2>2, <2>3
<1>8. ASSUME NEW i \in Tx, hs'[i].pc = "payPlan"
      PROVE  hs'[i].val <= Cardinality(Spent(subRow[log[i].of].plan)')
  <2>1. PICK p : p = subRow[log[i].of].plan
    OBVIOUS
  <2>2. \/ hs'[i] = hs[i] /\ hs[i].pc = "payPlan"
        \/ HReadRevenue(i) /\ hs[i].pc = "readRevenue"
    BY <1>1, <1>8, NextMoves DEF HandlerMove, HReadRevenue, AtPC
  <2>3. /\ i \in 1..Len(log) /\ log[i].kind = "pay" /\ log[i].of \in Subs
        /\ p = chain[log[i].of].plan /\ p \in Plans
    BY <1>1, <2>1, <2>2, PayingSub DEF PayPCs
  <2>4. subRow'[log'[i].of].plan = p
    <3>1. log'[i] = log[i] /\ chain'[log[i].of].plan = chain[log[i].of].plan
      BY <1>1, <2>3, TxStays DEF SubKinds
    <3>2. HandlerOK(i, hs[i])'
      BY <1>1 DEF StateOK, HandlersOK
    <3>3. subRow'[log'[i].of].here /\ log'[i].of \in Subs
      BY <1>8, <2>3, <3>1, <3>2 DEF HandlerOK, RowPCs, PayPCs
    <3>4. subRow'[log'[i].of].plan = chain'[log'[i].of].plan
      BY <1>1, <3>3 DEF LinkOK, SubscriptionRowsBacked
    <3> QED
      BY <2>3, <3>1, <3>4
  <2>5. hs'[i].val \in Nat /\ hs'[i].val <= Cardinality(Spent(p))
    <3>1. CASE hs'[i] = hs[i] /\ hs[i].pc = "payPlan"
      BY <1>4, <1>6, <2>1, <3>1
    <3>2. CASE HReadRevenue(i)
      <4>1. PICK v : v = planRow[p].revenue
        OBVIOUS
      <4>2. hs' = [hs EXCEPT ![i].pc = "payPlan", ![i].val = v]
        BY <2>1, <3>2, <4>1 DEF HReadRevenue
      <4>3. hs'[i].val = v
        BY <1>1, <4>2 DEF StateOK, TypeOK, Handler
      <4> QED
        BY <1>4, <1>5, <2>3, <4>1, <4>3
    <3> QED
      BY <2>2, <3>1, <3>2
  <2>6. /\ Cardinality(Spent(p)) \in Nat /\ Cardinality(Spent(p)') \in Nat
        /\ Cardinality(Spent(p)) <= Cardinality(Spent(p)')
    BY <1>1, <1>3, SpentGrows
  <2>7. hs'[i].val <= Cardinality(Spent(p)')
    BY <2>5, <2>6
  <2> QED
    BY <2>4, <2>7 DEF Spent, PaidOn
<1> QED
  BY <1>7, <1>8

\* The invariant behind the revenue bound.
THEOREM RevenueInvariant ==
  ASSUME PlanIdsPerMerchant
  PROVE  Spec => []RevenueOK
<1>1. Init => RevenueOK
  <2> SUFFICES ASSUME Init PROVE RevenueOK
    OBVIOUS
  <2>1. LinkOK /\ StateOK
    BY LinkInit, InitStateOK
  <2>2. OnceOK
    BY OnceInit
  <2>3. /\ \A p \in Plans : planRow[p].revenue = 0
        /\ \A i \in Tx : hs[i].pc = "idle"
    BY DEF Init, NoPlanRow, IdleHandler
  <2>4. \A p \in Plans : 0 <= Cardinality(Spent(p))
    BY <2>1, SpentFinite
  <2> QED
    BY <2>1, <2>2, <2>3, <2>4 DEF RevenueOK
<1>2. RevenueOK /\ [Next]_vars => RevenueOK'
  BY RevenueKept
<1> QED
  BY <1>1, <1>2, PTL DEF Spec

\* Whatever payment handlers, backfills, syncs and cancellations interleave, the
\* revenue of a plan never exceeds what its subscribers paid, until a crash makes
\* the backfill replay payments.
THEOREM RevenueBounded ==
  ASSUME PlanIdsPerMerchant
  PROVE  Spec => []RevenueNotOverstated
<1>1. RevenueOK => RevenueNotOverstated
  <2> SUFFICES ASSUME RevenueOK, crashes = 0, NEW p \in Plans
               PROVE  planRow[p].revenue <= Cardinality(PaidOn(p))
    BY DEF RevenueNotOverstated
  <2>1. StateOK
    BY DEF RevenueOK, OnceOK
  <2>2. PaidOn(p) \subseteq 1..Len(log) /\ Spent(p) \subseteq PaidOn(p)
    BY <2>1, LenProperties DEF StateOK, TypeOK, Spent, PaidOn
  <2>3. IsFiniteSet(1..Len(log))
    <3>1. 1 \in Int /\ Len(log) \in Int
      BY <2>1, LogFacts
    <3> QED
      BY <3>1, FS_Interval
  <2>4. IsFiniteSet(PaidOn(p)) /\ Cardinality(PaidOn(p)) \in Nat
    BY <2>2, <2>3, FS_Subset, FS_CardinalityType
  <2>5. Cardinality(Spent(p)) \in Nat /\ Cardinality(Spent(p)) <= Cardinality(PaidOn(p))
    BY <2>1, <2>2, <2>4, SpentFinite, FS_Subset
  <2>6. planRow[p].revenue \in Nat /\ planRow[p].revenue <= Cardinality(Spent(p))
    BY <2>1 DEF RevenueOK, StateOK, TypeOK, PlanRow
  <2> QED
    BY <2>4, <2>5, <2>6
<1> QED
  BY <1>1, RevenueInvariant, PTL
--------------------------------------------------------------------------------
(* A completion is kept.                                                    *)

LEMMA FaultsGrow ==
  ASSUME [Next]_vars
  PROVE  faults' = faults \/ faults' = faults + 1
<1>1. ASSUME Boot PROVE UNCHANGED faults \/ faults' = faults + 1
  BY <1>1 DEF Boot, BootLoad, BootFetch, BootFetchError, BackfillNext, BackfillDone,
     BootListen
<1>2. ASSUME Chain PROVE UNCHANGED faults
  BY <1>2 DEF Chain, ChainRegisterPlan, ChainCreateWallet, ChainSubscribe,
     ChainPay, ChainCancel, Emit
<1>3. ASSUME \/ Checkout \/ Sync \/ SyncError \/ Crash \/ UNCHANGED vars
             \/ \E i \in Tx : Handle(i) \/ HandlerError(i)
      PROVE  UNCHANGED faults \/ faults' = faults + 1
  BY <1>3 DEF Checkout, CreateSession, CompleteSession, CancelSession, Sync,
     SyncError, Crash, vars, Handle, HandlerError
<1> QED
  BY <1>1, <1>2, <1>3 DEF Next

\* A completed session belongs to a token some account was opened with.
LEMMA CompletedOpened ==
  ASSUME KeptOK, [Next]_vars, NEW k \in Tokens, session'[k].status = "completed"
  PROVE  \E s \in Subs : Opened(s) /\ chain[s].token = k
<1>1. StateOK
  BY DEF KeptOK, OnceOK
<1>2. CASE session[k].status = "completed"
  BY <1>2 DEF KeptOK
<1>3. ASSUME NEW i \in Tx, hs[i].pc = "completeSession", k = chain[log[i].of].token
      PROVE  \E s \in Subs : Opened(s) /\ chain[s].token = k
  BY <1>1, <1>3, LinkingSub DEF CreatePCs, LinkPCs
<1> QED
  BY <1>1, <1>2, <1>3, CompletionSource

\* Before a crash nobody completes the session of a creation still to be judged.
LEMMA UnjudgedKept ==
  ASSUME KeptOK, [Next]_vars, crashes' = 0, NEW i \in 1..Len(log'),
         log'[i].kind = "subscribe", Pending(i)'
  PROVE  session'[chain'[log'[i].of].token].status # "completed"
<1>1. StateOK /\ OnceOK /\ Len(log) \in Nat
  BY LogFacts DEF KeptOK, OnceOK
<1>2. ~Crash /\ crashes = 0
  <2>1. crashes \in Nat
    BY <1>1 DEF StateOK, TypeOK
  <2>2. ~Crash
    BY <2>1 DEF Crash
  <2> QED
    BY <2>2, BootEdge
<1>3. CASE i \in 1..Len(log)
  <2> DEFINE k == chain[log[i].of].token
  <2>1. log'[i] = log[i]
    BY <1>1, <1>3, NextMonotone DEF Monotone
  <2>2. /\ log[i].kind = "subscribe" /\ i \in Tx
        /\ k \in Tokens /\ chain'[log[i].of].token = k
    BY <1>1, <1>3, <2>1, TxStays DEF SubKinds
  <2>3. session[k].status # "completed"
    BY <1>1, <1>2, <1>3, <2>2, PendingBack DEF KeptOK
  <2>4. ASSUME NEW j \in Tx, Handle(j), HCompleteSession(j), k = chain[log[j].of].token
        PROVE  FALSE
    <3>1. hs[j].pc = "completeSession"
      BY <2>4 DEF HCompleteSession, AtPC
    <3>2. j \in 1..Len(log) /\ log[j].kind = "subscribe"
      <4>1. j <= Len(log) /\ log[j].kind = "subscribe"
        BY <1>1, <3>1 DEF StateOK, HandlersOK, HandlerOK, CreatePCs, LinkPCs
      <4> QED
        BY <1>1, <4>1 DEF Tx
    <3>3. i = j
      BY <1>1, <1>3, <2>2, <2>4, <3>2, SameToken
    <3>4. hs'[i].pc = "createSub" /\ UNCHANGED <<boot, page>>
      BY <1>1, <2>4, <3>3, GoToAdvance DEF HCompleteSession, HandlerPCs, Handle
    <3>5. ~Pending(i)'
      BY <1>1, <2>2, <3>1, <3>3, <3>4, PendingDone DEF EarlyPCs, PayPCs
    <3> QED
      BY <3>5
  <2> HIDE DEF k
  <2>5. session'[k].status # "completed"
    BY <1>1, <2>2, <2>3, <2>4, SessionMoves
  <2> QED
    BY <2>1, <2>2, <2>5
<1>4. CASE i \notin 1..Len(log)
  <2>1. PICK s \in Subs, k \in Tokens :
          /\ Len(log') = Len(log) + 1
          /\ log'[Len(log) + 1].kind = "subscribe" => log'[Len(log) + 1].of = s
          /\ log'[Len(log) + 1].kind = "subscribe" =>
               \A t \in Subs : chain[t].token # k
          /\ log'[Len(log) + 1].kind = "subscribe" => chain'[s].token = k
    <3>1. ~UNCHANGED log
      BY <1>4
    <3>2. CASE log'[Len(log) + 1].kind = "subscribe"
      BY <1>1, <3>1, <3>2, ChainEdge
    <3>3. CASE log'[Len(log) + 1].kind # "subscribe"
      <4>1. Len(log') = Len(log) + 1
        BY <1>1, <3>1, ChainEdge
      <4>2. i = Len(log) + 1
        BY <1>1, <1>4, <4>1
      <4> QED
        BY <3>3, <4>2
    <3> QED
      BY <3>2, <3>3
  <2>2. i = Len(log) + 1
    BY <1>1, <1>4, <2>1
  <2>3. session'[k].status # "completed"
    BY <2>1, <2>2, CompletedOpened
  <2> QED
    BY <2>1, <2>2, <2>3
<1> QED
  BY <1>3, <1>4

\* With one plan per id, a handler finds fault only with a session on another plan.
LEMMA MismatchKept ==
  ASSUME KeptOK, PlanIdsDiffer, [Next]_vars, NEW i \in Tx, hs'[i].pc = "failSession"
  PROVE  LET a == chain'[log'[i].of] IN
         session'[a.token].status # "absent" /\ session'[a.token].plan # a.plan
<1> DEFINE a == chain[log[i].of]
<1>1. LinkOK /\ StateOK /\ HandlerMove(i) /\ Monotone
  BY NextMoves, NextMonotone DEF KeptOK, OnceOK
<1>2. CASE hs'[i] = hs[i]
  <2>1. session[a.token].status # "absent" /\ session[a.token].plan # a.plan
    BY <1>2 DEF KeptOK
  <2>2. i \in 1..Len(log) /\ log[i].kind = "subscribe"
    <3>1. i <= Len(log) /\ log[i].kind = "subscribe"
      BY <1>1, <1>2 DEF StateOK, HandlersOK, HandlerOK, CreatePCs, LinkPCs
    <3> QED
      BY <1>1, <3>1, LogFacts DEF Tx
  <2>3. /\ log'[i] = log[i] /\ a.token \in Tokens
        /\ chain'[log[i].of].token = a.token /\ chain'[log[i].of].plan = a.plan
    BY <1>1, <2>2, TxStays DEF SubKinds
  <2> QED
    BY <1>1, <2>1, <2>3 DEF Monotone
<1>3. CASE hs'[i] # hs[i]
  <2>1. HFindSession(i)
    BY <1>1, <1>3 DEF HandlerMove
  <2>2. hs[i].pc = "findSession"
    BY <2>1 DEF HFindSession, AtPC
  <2>3. /\ i \in 1..Len(log) /\ log[i].kind = "subscribe"
        /\ a.plan \in Plans /\ hs[i].plan \in Plans
    BY <1>1, <2>2, LinkingSub DEF CreatePCs, LinkPCs, StateOK, HandlersOK, HandlerOK
  <2>4. hs[i].plan = a.plan
    BY <1>1, <2>2, <2>3 DEF LinkOK, LinkStepOK, LinkPCs, PlanIdsDiffer
  <2>5. session[a.token].status # "absent" /\ session[a.token].plan # a.plan
    <3>1. Returned # "failSession" /\ Returned \in HandlerPCs
      BY DEF Returned, HandlerPCs
    <3>2. ~GoTo(i, Returned) /\ ~GoTo(i, "completeSession")
      BY <1>1, <3>1, GoToAdvance DEF HandlerPCs
    <3> QED
      BY <2>1, <2>4, <3>2 DEF HFindSession
  <2>6. /\ log'[i] = log[i] /\ a.token \in Tokens
        /\ chain'[log[i].of].token = a.token /\ chain'[log[i].of].plan = a.plan
    BY <1>1, <2>3, TxStays DEF SubKinds
  <2> QED
    BY <1>1, <2>5, <2>6 DEF Monotone
<1> QED
  BY <1>2, <1>3

LEMMA KeptKept ==
  ASSUME KeptOK, [Next]_vars
  PROVE  KeptOK'
<1>1. OnceOK /\ OnceOK' /\ StateOK /\ Monotone
  BY OnceKept, NextMonotone DEF KeptOK, OnceOK
<1>2. ASSUME NEW k \in Tokens, session'[k].status = "completed"
      PROVE  \E s \in Subs : Opened(s)' /\ chain'[s].token = k
  BY <1>1, <1>2, CompletedOpened DEF Monotone
<1>3. ASSUME crashes' = 0, NEW i \in 1..Len(log'), log'[i].kind = "subscribe", Pending(i)'
      PROVE  session'[chain'[log'[i].of].token].status # "completed"
  BY <1>3, UnjudgedKept
<1>4. ASSUME faults' = 0, NEW i \in Tx PROVE hs'[i].pc # "failCaught"
  <2>1. faults = 0
    BY <1>1, <1>4, FaultsGrow DEF StateOK, TypeOK
  <2>2. hs[i].pc # "failCaught" /\ HandlerMove(i)
    BY <1>1, <2>1, NextMoves DEF KeptOK
  <2> QED
    BY <1>4, <2>1, <2>2 DEF HandlerMove
<1>5. ASSUME PlanIdsDiffer PROVE LinkOK'
  <2>1. PlanIdsPerMerchant /\ LinkOK
    BY <1>5 DEF PlanIdsDiffer, PlanIdsPerMerchant, KeptOK
  <2> QED
    BY <2>1, LinkKept
<1>6. ASSUME PlanIdsDiffer, NEW i \in Tx, hs'[i].pc = "failSession"
      PROVE  LET a == chain'[log'[i].of] IN
             session'[a.token].status # "absent" /\ session'[a.token].plan # a.plan
  BY <1>6, MismatchKept
<1> QED
  BY <1>1, <1>2, <1>3, <1>4, <1>5, <1>6 DEF KeptOK, PlanIdsDiffer

\* The invariant behind the completions.
THEOREM KeptInvariant == Spec => []KeptOK
<1>1. Init => KeptOK
  <2> SUFFICES ASSUME Init PROVE KeptOK
    OBVIOUS
  <2>1. OnceOK /\ LinkOK
    BY OnceInit, LinkInit
  <2>2. /\ \A k \in Tokens : session[k].status = "absent"
        /\ Len(log) = 0
        /\ \A i \in Tx : hs[i].pc = "idle"
    BY DEF Init, NoSession, IdleHandler
  <2> QED
    BY <2>1, <2>2 DEF KeptOK
<1>2. KeptOK /\ [Next]_vars => KeptOK'
  BY KeptKept
<1> QED
  BY <1>1, <1>2, PTL DEF Spec

\* What one step may do to a completed session.
LEMMA CompletionStep ==
  ASSUME KeptOK, [Next]_vars, NEW k \in Tokens,
         session[k].status = "completed", session'[k].status # "completed"
  PROVE  \/ CancelSession(k)
         \/ /\ crashes > 0
            /\ faults > 0 \/ \E p, q \in Plans : p # q /\ PlanId[p] = PlanId[q]
<1>1. StateOK /\ OnceOK /\ crashes \in Nat /\ faults \in Nat
  BY DEF KeptOK, OnceOK, StateOK, TypeOK
<1>2. CASE ~CancelSession(k)
  <2>1. PICK i \in Tx : /\ hs[i].pc \in {"failSession", "failCaught"}
                        /\ k = chain[log[i].of].token
    BY <1>1, <1>2, SessionMoves
  <2>2. i \in 1..Len(log) /\ log[i].kind = "subscribe"
    <3>1. i <= Len(log) /\ log[i].kind = "subscribe"
      BY <1>1, <2>1 DEF StateOK, HandlersOK, HandlerOK, CreatePCs, LinkPCs
    <3> QED
      BY <1>1, <3>1, LogFacts DEF Tx
  <2>3. Pending(i)
    BY <2>1 DEF Pending, EarlyPCs
  <2>4. crashes > 0
    <3>1. crashes # 0
      BY <2>1, <2>2, <2>3 DEF KeptOK
    <3> QED
      BY <1>1, <3>1
  <2>5. ASSUME faults = 0, PlanIdsDiffer PROVE FALSE
    <3>1. hs[i].pc = "failSession" /\ LinkOK
      BY <2>1, <2>5 DEF KeptOK
    <3>2. session[k].plan # chain[log[i].of].plan
      BY <2>1, <2>5, <3>1 DEF KeptOK
    <3>3. PICK s \in Subs : /\ Opened(s) /\ chain[s].token = k
                            /\ chain[s].plan = session[k].plan
      BY <3>1 DEF LinkOK, CompletedSessionsVerified, Opened
    <3>4. log[i].of \in Subs /\ Opened(log[i].of)
      BY <1>1, <2>2, TxStays DEF SubKinds
    <3>5. s = log[i].of
      BY <1>1, <2>1, <3>3, <3>4 DEF OnceOK
    <3> QED
      BY <3>2, <3>3, <3>5
  <2>6. faults > 0 \/ \E p, q \in Plans : p # q /\ PlanId[p] = PlanId[q]
    BY <1>1, <2>5 DEF PlanIdsDiffer
  <2> QED
    BY <2>4, <2>6
<1> QED
  BY <1>2

\* Once the indexer has completed a session, only the cancel endpoint takes it
\* out of that status while the process runs; after a crash only the replay of
\* its creation can, and only through an error or a second plan under its id.
THEOREM CompletionsKept == Spec => CompletionKept
<1> DEFINE A == \A k \in Tokens :
             session[k].status = "completed" /\ session'[k].status # "completed" =>
               \/ CancelSession(k)
               \/ /\ crashes > 0
                  /\ faults > 0 \/ \E p, q \in Plans : p # q /\ PlanId[p] = PlanId[q]
<1>1. KeptOK /\ [Next]_vars => [A]_vars
  BY CompletionStep
<1>2. CompletionKept <=> [][A]_vars
  BY DEF CompletionKept
<1> HIDE DEF A
<1> QED
  BY <1>1, <1>2, KeptInvariant, PTL DEF Spec
================================================================================
