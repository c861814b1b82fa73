-------------------------------- MODULE Indexer --------------------------------
(****************************************************************************)
(* The Solana indexer of the server (src/src/indexer) with the checkout     *)
(* endpoints that share its tables (src/src/checkout).                      *)
(*                                                                          *)
(* The chain is external: it accepts subscriptions, payments and            *)
(* cancellations and emits one event per transaction.  The indexer copies   *)
(* it into the database along three paths that share no lock:               *)
(*   - live handlers, one asynchronous handler per log notification, which  *)
(*     interleave at every await (startLogListener);                        *)
(*   - at boot, a sequential backfill of the transactions after the saved   *)
(*     checkpoint, newest first (backfillMissedTransactions);               *)
(*   - at boot and every hour, a sync that reads whole account snapshots    *)
(*     and overwrites rows (syncAllAccounts).                               *)
(* What runs between two awaits is one action.  The process may crash       *)
(* between any two of them; the database survives.                          *)
(****************************************************************************)
EXTENDS Integers, Sequences, FiniteSets

CONSTANTS
  Subs,          \* subscription accounts (PDAs)
  Plans,         \* merchant plan accounts (PDAs)
  Tokens,        \* session tokens: the session ids the API can hand out
  Wallets,       \* subscription wallet accounts
  MerchantOf,    \* MerchantOf[p]: the merchant that registered plan p
  PlanId,        \* PlanId[p]: the merchant-chosen id; not unique by itself
  WalletOf,      \* WalletOf[s]: the wallet subscription s pays from
  InitPlans,     \* plans on chain before the server first starts
  InitWallets,   \* wallets on chain before the server first starts
  SlotSteps,     \* how far the slot advances from one transaction to the next
  SigLimit,      \* page size of getSignaturesForAddress (1000 in the code)
  MaxTx,         \* bound: transactions on chain
  MaxCrashes,    \* bound: crashes of the server process
  MaxFaults,     \* bound: lost notifications, database and RPC errors
  Null           \* the null reference

ASSUME ConstantsAssumption ==
  /\ WalletOf \in [Subs -> Wallets]
  /\ InitPlans \subseteq Plans
  /\ InitWallets \subseteq Wallets
  /\ SlotSteps \subseteq {0, 1}
  /\ SigLimit \in Nat \ {0}
  /\ MaxTx \in Nat
  /\ MaxCrashes \in Nat
  /\ MaxFaults \in Nat
  /\ IsFiniteSet(Subs)
  /\ Null \notin Subs \union Plans \union Tokens \union Wallets

VARIABLES
  \* the chain
  chain,         \* chain[s]: the subscription account s
  chainPlans,    \* plan accounts on chain
  chainWallets,  \* wallet accounts on chain
  log,           \* the transactions, in chain order
  \* the database
  session,       \* checkout_sessions
  planRow,       \* merchant_plans
  walletRows,    \* subscription_wallets: which rows exist
  subRow,        \* subscriptions
  recorded,      \* transactions: recorded signatures, as indices of log
  checkpoint,    \* indexer_state.last_processed_slot; 0 while there is no row
  \* the server process
  boot,          \* progress of onModuleInit
  lastSlot,      \* lastProcessedSlot as loaded at boot
  page,          \* backfill: indices of log still to visit, newest first
  hs,            \* hs[i]: the handler of transaction i
  sync,          \* the running syncAllAccounts
  \* what the outside was told, and the counters of the bounds
  submitted,     \* sessions answered "Verification in progress"
  sends,         \* sends[i]: notify calls made for transaction i
  crashes, faults

chainVars == <<chain, chainPlans, chainWallets, log>>
procVars  == <<boot, lastSlot, page, hs, sync>>
vars == <<chain, chainPlans, chainWallets, log,
          session, planRow, walletRows, subRow, recorded, checkpoint,
          boot, lastSlot, page, hs, sync,
          submitted, sends, crashes, faults>>

Tx == 1..MaxTx
--------------------------------------------------------------------------------
(* The shape of the state.                                                  *)

Account == [status : {"none", "active", "cancelled"}, plan : Plans \union {Null},
            token : Tokens \union {Null}, pays : Nat]
NoAccount == [status |-> "none", plan |-> Null, token |-> Null, pays |-> 0]

Transaction == [kind : {"plan", "wallet", "subscribe", "pay", "cancel"},
                of   : Subs \union Plans \union Wallets,
                n    : Nat,
                slot : Nat]

Session == [status : {"absent", "pending", "completed", "failed", "cancelled"},
            plan : Plans \union {Null}, sub : Subs \union {Null}]
NoSession == [status |-> "absent", plan |-> Null, sub |-> Null]

PlanRow == [here : BOOLEAN, subscribers : Int, revenue : Nat]
NoPlanRow == [here |-> FALSE, subscribers |-> 0, revenue |-> 0]

SubRow == [here : BOOLEAN, plan : Plans \union {Null}, token : Tokens \union {Null},
           active : BOOLEAN, paid : Nat, count : Nat]
NoSubRow == [here |-> FALSE, plan |-> Null, token |-> Null,
             active |-> FALSE, paid |-> 0, count |-> 0]

PlanSnap == [plan : Plans, subscribers : Nat]
SubSnap  == [sub : Subs, active : BOOLEAN, pays : Nat]

HandlerPCs == {"idle", "findSub", "findPlan", "refindPlan", "readPlans", "writePlans",
               "findSession", "failSession", "failCaught", "completeSession",
               "createSub", "incPlan", "payRow", "readRevenue", "payPlan", "deactivate",
               "decPlan", "touchWallet", "upsertWallet", "record", "notify",
               "save"}
Handler == [pc : HandlerPCs, plan : Plans \union {Null}, val : Nat,
            snap : SUBSET PlanSnap]
IdleHandler == [pc |-> "idle", plan |-> Null, val |-> 0, snap |-> {}]

Syncer == [pc : {"idle", "writePlans", "writeWallets", "writeSubs"},
           plans : SUBSET PlanSnap, wallets : SUBSET Wallets,
           subs : SUBSET SubSnap]
IdleSync == [pc |-> "idle", plans |-> {}, wallets |-> {}, subs |-> {}]

TypeOK ==
  /\ chain \in [Subs -> Account]
  /\ chainPlans \subseteq Plans
  /\ chainWallets \subseteq Wallets
  /\ log \in Seq(Transaction) /\ Len(log) <= MaxTx
  /\ session \in [Tokens -> Session]
  /\ planRow \in [Plans -> PlanRow]
  /\ walletRows \subseteq Wallets
  /\ subRow \in [Subs -> SubRow]
  /\ recorded \subseteq Tx
  /\ checkpoint \in Nat
  /\ boot \in {"down", "fetch", "backfill", "startSync", "syncing", "up"}
  /\ lastSlot \in Nat
  /\ page \in Seq(Tx)
  /\ hs \in [Tx -> Handler]
  /\ sync \in Syncer
  /\ submitted \subseteq Tokens
  /\ sends \in [Tx -> Nat]
  /\ crashes \in Nat /\ faults \in Nat

Init ==
  /\ chain = [s \in Subs |-> NoAccount]
  /\ chainPlans = InitPlans
  /\ chainWallets = InitWallets
  /\ log = <<>>
  /\ session = [k \in Tokens |-> NoSession]
  /\ planRow = [p \in Plans |-> NoPlanRow]
  /\ walletRows = {}
  /\ subRow = [s \in Subs |-> NoSubRow]
  /\ recorded = {}
  /\ checkpoint = 0
  /\ boot = "down"
  /\ lastSlot = 0
  /\ page = <<>>
  /\ hs = [i \in Tx |-> IdleHandler]
  /\ sync = IdleSync
  /\ submitted = {}
  /\ sends = [i \in Tx |-> 0]
  /\ crashes = 0
  /\ faults = 0
--------------------------------------------------------------------------------
(* The chain (external).  A transaction reaches the listener only when the  *)
(* process is subscribed to the logs at that moment; its handler is then on *)
(* its way, and runs interleaved with the handlers of other notifications.  *)

CurrentSlot == IF log = <<>> THEN 1 ELSE log[Len(log)].slot

\* The handlers of the three account kinds start at different first calls.
FirstStep(kind) ==
  IF kind = "plan" THEN "readPlans"
  ELSE IF kind = "wallet" THEN "upsertWallet" ELSE "findSub"

Started(kind) == [IdleHandler EXCEPT !.pc = FirstStep(kind)]

Emit(kind, of, n) ==
  /\ Len(log) < MaxTx
  /\ \E d \in SlotSteps :
       log' = Append(log, [kind |-> kind, of |-> of, n |-> n,
                           slot |-> CurrentSlot + d])
  /\ hs' = IF boot = "up" THEN [hs EXCEPT ![Len(log) + 1] = Started(kind)]
                          ELSE hs
  /\ UNCHANGED <<session, planRow, walletRows, subRow, recorded, checkpoint,
                 boot, lastSlot, page, sync, submitted, sends, crashes,
                 faults>>

ChainRegisterPlan(p) ==
  /\ p \notin chainPlans
  /\ chainPlans' = chainPlans \union {p}
  /\ Emit("plan", p, 0)
  /\ UNCHANGED <<chain, chainWallets>>

ChainCreateWallet(w) ==
  /\ w \notin chainWallets
  /\ chainWallets' = chainWallets \union {w}
  /\ Emit("wallet", w, 0)
  /\ UNCHANGED <<chain, chainPlans>>

\* The program keeps a tracker account per session token, so a token serves
\* one subscription only.
ChainSubscribe(s, p, k) ==
  /\ chain[s].status = "none"
  /\ p \in chainPlans
  /\ WalletOf[s] \in chainWallets
  /\ \A t \in Subs : chain[t].token # k
  /\ chain' = [chain EXCEPT ![s] = [status |-> "active", plan |-> p,
                                    token |-> k, pays |-> 0]]
  /\ Emit("subscribe", s, 0)
  /\ UNCHANGED <<chainPlans, chainWallets>>

ChainPay(s) ==
  /\ chain[s].status = "active"
  /\ chain' = [chain EXCEPT ![s].pays = @ + 1]
  /\ Emit("pay", s, chain[s].pays + 1)
  /\ UNCHANGED <<chainPlans, chainWallets>>

ChainCancel(s) ==
  /\ chain[s].status = "active"
  /\ chain' = [chain EXCEPT ![s].status = "cancelled"]
  /\ Emit("cancel", s, 0)
  /\ UNCHANGED <<chainPlans, chainWallets>>

ActiveOn(p) == {s \in Subs : chain[s].status = "active" /\ chain[s].plan = p}
--------------------------------------------------------------------------------
(* The checkout endpoints.  They need a running process: Nest listens only  *)
(* after onModuleInit.                                                      *)

Up == boot = "up"

\* createCheckoutSession: the plan is looked up by merchant and plan id, and
\* the new session id is random, so no account carries it yet.
CreateSession(k, p) ==
  /\ Up
  /\ session[k].status = "absent"
  /\ \A s \in Subs : chain[s].token # k
  /\ planRow[p].here
  /\ session' = [session EXCEPT ![k] = [status |-> "pending", plan |-> p,
                                        sub |-> Null]]
  /\ UNCHANGED <<chainVars, planRow, walletRows, subRow, recorded, checkpoint,
                 procVars, submitted, sends, crashes, faults>>

\* completeCheckoutSession stores nothing: it answers "Verification in
\* progress" unless the indexer has completed the session already.
CompleteSession(k) ==
  /\ Up
  /\ session[k].status \notin {"absent", "completed"}
  /\ submitted' = submitted \union {k}
  /\ UNCHANGED <<chainVars, session, planRow, walletRows, subRow, recorded,
                 checkpoint, procVars, sends, crashes, faults>>

\* cancelCheckoutSession looks at neither the status nor the expiry.
CancelSession(k) ==
  /\ Up
  /\ session[k].status # "absent"
  /\ session' = [session EXCEPT ![k].status = "cancelled"]
  /\ UNCHANGED <<chainVars, planRow, walletRows, subRow, recorded, checkpoint,
                 procVars, submitted, sends, crashes, faults>>
--------------------------------------------------------------------------------
(* Rows written from chain state, by the sync and by the handlers.          *)

PlanSnapshot ==
  {[plan |-> p, subscribers |-> Cardinality(ActiveOn(p))] : p \in chainPlans}

UpsertPlan(x) ==
  planRow' = [planRow EXCEPT ![x.plan] =
                [here |-> TRUE, subscribers |-> x.subscribers,
                 revenue |-> @.revenue]]

SubSnapshot ==
  {[sub |-> s, active |-> chain[s].status = "active", pays |-> chain[s].pays] :
     s \in {t \in Subs : chain[t].status # "none"}}

\* Mutant: the session lookup is dropped.
UpsertSubWithoutSession(x) ==
  LET a == chain[x.sub] IN
  IF planRow[a.plan].here
  THEN subRow' = [subRow EXCEPT ![x.sub] =
                    [here |-> TRUE, plan |-> a.plan, token |-> a.token,
                     active |-> x.active, paid |-> x.pays, count |-> x.pays]]
  ELSE UNCHANGED subRow

\* Mutant: an existing row keeps its isActive.
UpsertSubKeepingActive(x) ==
  LET a == chain[x.sub] IN
  IF session[a.token].status # "absent" /\ planRow[a.plan].here
  THEN subRow' = [subRow EXCEPT ![x.sub] =
                    [here |-> TRUE, plan |-> a.plan, token |-> a.token,
                     active |-> IF @.here THEN @.active ELSE x.active,
                     paid |-> x.pays, count |-> x.pays]]
  ELSE UNCHANGED subRow

\* syncSubscriptions skips an account whose session or plan row is missing;
\* otherwise it inserts the row, or overwrites its payment state.
UpsertSub(x) ==
  LET a == chain[x.sub] IN
  IF session[a.token].status # "absent" /\ planRow[a.plan].here
  THEN subRow' = [subRow EXCEPT ![x.sub] =
                    [here   |-> TRUE,
                     plan   |-> IF @.here THEN @.plan ELSE a.plan,
                     token  |-> IF @.here THEN @.token ELSE a.token,
                     active |-> x.active,
                     paid   |-> x.pays,
                     count  |-> x.pays]]
  ELSE UNCHANGED subRow
--------------------------------------------------------------------------------
(* The handler of one transaction.  At boot it is run by the backfill,      *)
(* later by the log listener, which then saves the slot as the checkpoint.  *)

Kind(i) == log[i].kind

\* The handler returns: the listener goes on to save the checkpoint, the
\* backfill takes the next signature.
Returned == IF boot = "backfill" THEN "idle" ELSE "save"

AtPC(i, pc) == hs[i].pc = pc
GoTo(i, pc) ==
  hs' = [hs EXCEPT ![i] = IF pc = "idle" THEN IdleHandler
                                         ELSE [@ EXCEPT !.pc = pc]]

Here(i) == subRow[log[i].of].here

\* Mutant: a creation that finds its row resumes at the transaction record.
HFindSubResuming(i) ==
  /\ AtPC(i, "findSub")
  /\ \/ Kind(i) = "subscribe" /\ GoTo(i, IF Here(i) THEN "record" ELSE "findPlan")
     \/ /\ Kind(i) = "pay" /\ Here(i)
        /\ hs' = [hs EXCEPT ![i].pc = "payRow", ![i].val = subRow[log[i].of].paid]
     \/ Kind(i) = "cancel" /\ Here(i) /\ GoTo(i, "deactivate")
     \/ Kind(i) # "subscribe" /\ ~Here(i) /\ GoTo(i, Returned)
  /\ UNCHANGED <<session, planRow, walletRows, subRow, recorded, checkpoint,
                 sends>>

\* prisma.subscription.findUnique opens three handlers: a creation returns if
\* the row exists, a payment and a cancellation return if it does not.
HFindSub(i) ==
  /\ AtPC(i, "findSub")
  /\ \/ Kind(i) = "subscribe" /\ ~Here(i) /\ GoTo(i, "findPlan")
     \/ /\ Kind(i) = "pay" /\ Here(i)
        /\ hs' = [hs EXCEPT ![i].pc = "payRow", ![i].val = subRow[log[i].of].paid]
     \/ Kind(i) = "cancel" /\ Here(i) /\ GoTo(i, "deactivate")
     \/ (Here(i) <=> Kind(i) = "subscribe") /\ GoTo(i, Returned)
  /\ UNCHANGED <<session, planRow, walletRows, subRow, recorded, checkpoint,
                 sends>>

\* findFirst by plan id alone, in no stated order: any row with that id.
\* Without one the handler syncs the plans and looks again.
HFindPlan(i) ==
  /\ hs[i].pc \in {"findPlan", "refindPlan"}
  /\ LET id == PlanId[chain[log[i].of].plan]
         rows == {p \in Plans : planRow[p].here /\ PlanId[p] = id}
     IN \/ /\ rows # {}
           /\ \E p \in rows :
                hs' = [hs EXCEPT ![i].plan = p, ![i].pc = "findSession"]
        \/ /\ rows = {}
           /\ GoTo(i, IF AtPC(i, "findPlan") THEN "readPlans" ELSE Returned)
  /\ UNCHANGED <<session, planRow, walletRows, subRow, recorded, checkpoint,
                 sends>>

\* syncMerchantPlans as called from a handler: one RPC, then one upsert per
\* plan.
HReadPlans(i) ==
  /\ AtPC(i, "readPlans")
  /\ hs' = [hs EXCEPT ![i].pc = "writePlans", ![i].snap = PlanSnapshot]
  /\ UNCHANGED <<session, planRow, walletRows, subRow, recorded, checkpoint,
                 sends>>

HWritePlan(i) ==
  /\ AtPC(i, "writePlans")
  /\ \E x \in hs[i].snap :
       /\ UpsertPlan(x)
       /\ hs' = [hs EXCEPT ![i].snap = @ \ {x}]
  /\ UNCHANGED <<session, walletRows, subRow, recorded, checkpoint, sends>>

HPlansWritten(i) ==
  /\ AtPC(i, "writePlans")
  /\ hs[i].snap = {}
  /\ GoTo(i, IF Kind(i) = "subscribe" THEN "refindPlan" ELSE Returned)
  /\ UNCHANGED <<session, planRow, walletRows, subRow, recorded, checkpoint,
                 sends>>

\* Mutant: only the merchant is compared.
HFindSessionMerchantOnly(i) ==
  /\ AtPC(i, "findSession")
  /\ LET a == chain[log[i].of]
         c == session[a.token]
     IN GoTo(i, CASE c.status = "absent" -> Returned
                  [] c.status = "completed" -> Returned
                  [] OTHER -> IF MerchantOf[c.plan] = MerchantOf[hs[i].plan]
                              THEN "completeSession" ELSE "failSession")
  /\ UNCHANGED <<session, planRow, walletRows, subRow, recorded, checkpoint,
                 sends>>

\* The session lookup and the verification made on what it returned.
HFindSession(i) ==
  /\ AtPC(i, "findSession")
  /\ LET a == chain[log[i].of]
         c == session[a.token]
         mismatch == \/ MerchantOf[c.plan] # MerchantOf[a.plan]
                     \/ c.plan # hs[i].plan
     IN \/ /\ c.status = "absent"
           /\ GoTo(i, Returned)
        \/ /\ c.status # "absent" /\ mismatch
           /\ GoTo(i, "failSession")
        \/ /\ c.status = "completed" /\ ~mismatch
           /\ GoTo(i, Returned)
        \/ /\ c.status \notin {"absent", "completed"} /\ ~mismatch
           /\ GoTo(i, "completeSession")
  /\ UNCHANGED <<session, planRow, walletRows, subRow, recorded, checkpoint,
                 sends>>

\* The session is marked failed on a mismatch, and by the catch block.
HFailSession(i) ==
  /\ hs[i].pc \in {"failSession", "failCaught"}
  /\ LET k == chain[log[i].of].token
     IN session' = IF session[k].status = "absent" THEN session
                   ELSE [session EXCEPT ![k].status = "failed"]
  /\ GoTo(i, Returned)
  /\ UNCHANGED <<planRow, walletRows, subRow, recorded, checkpoint, sends>>

HCompleteSession(i) ==
  /\ AtPC(i, "completeSession")
  /\ session' = [session EXCEPT ![chain[log[i].of].token].status = "completed",
                                ![chain[log[i].of].token].sub = log[i].of]
  /\ GoTo(i, "createSub")
  /\ UNCHANGED <<planRow, walletRows, subRow, recorded, checkpoint, sends>>

\* Mutant: the handler goes on after the violation of the primary key.
HCreateSubGoingOn(i) ==
  /\ AtPC(i, "createSub")
  /\ LET s == log[i].of
     IN \/ /\ subRow[s].here
           /\ GoTo(i, "notify")
           /\ UNCHANGED subRow
        \/ /\ ~subRow[s].here
           /\ subRow' = [subRow EXCEPT ![s] =
                           [here |-> TRUE, plan |-> hs[i].plan,
                            token |-> chain[s].token, active |-> TRUE,
                            paid |-> 0, count |-> 0]]
           /\ GoTo(i, "incPlan")
  /\ UNCHANGED <<session, planRow, walletRows, recorded, checkpoint, sends>>

\* subscription.create violates the primary key when the sync inserted the row
\* since findSub: the handler ends without saving the checkpoint.
HCreateSub(i) ==
  /\ AtPC(i, "createSub")
  /\ LET s == log[i].of
     IN \/ /\ subRow[s].here
           /\ GoTo(i, "idle")
           /\ UNCHANGED subRow
        \/ /\ ~subRow[s].here
           /\ subRow' = [subRow EXCEPT ![s] =
                           [here |-> TRUE, plan |-> hs[i].plan,
                            token |-> chain[s].token, active |-> TRUE,
                            paid |-> 0, count |-> 0]]
           /\ GoTo(i, "incPlan")
  /\ UNCHANGED <<session, planRow, walletRows, recorded, checkpoint, sends>>

HIncPlan(i) ==
  /\ AtPC(i, "incPlan")
  /\ planRow' = [planRow EXCEPT ![hs[i].plan].subscribers = @ + 1]
  /\ GoTo(i, "touchWallet")
  /\ UNCHANGED <<session, walletRows, subRow, recorded, checkpoint, sends>>

\* subscriptionWallet.update rejects when the wallet row does not exist.  The
\* counters it changes are left out.
HTouchWallet(i) ==
  /\ AtPC(i, "touchWallet")
  /\ GoTo(i, IF WalletOf[log[i].of] \in walletRows THEN "record" ELSE "idle")
  /\ UNCHANGED <<session, planRow, walletRows, subRow, recorded, checkpoint,
                 sends>>

HUpsertWallet(i) ==
  /\ AtPC(i, "upsertWallet")
  /\ walletRows' = walletRows \union {log[i].of}
  /\ GoTo(i, Returned)
  /\ UNCHANGED <<session, planRow, subRow, recorded, checkpoint, sends>>

\* The payment handler: totalPaid and totalRevenue are read in one step and
\* written, one amount higher, in a later one.  Every payment is one unit.
HPayRow(i) ==
  /\ AtPC(i, "payRow")
  /\ subRow' = [subRow EXCEPT ![log[i].of].paid = hs[i].val + 1,
                              ![log[i].of].count = log[i].n]
  /\ GoTo(i, "readRevenue")
  /\ UNCHANGED <<session, planRow, walletRows, recorded, checkpoint, sends>>

HReadRevenue(i) ==
  /\ AtPC(i, "readRevenue")
  /\ hs' = [hs EXCEPT ![i].pc = "payPlan",
                      ![i].val = planRow[subRow[log[i].of].plan].revenue]
  /\ UNCHANGED <<session, planRow, walletRows, subRow, recorded, checkpoint,
                 sends>>

\* Mutant: the payment number is added instead of the amount.
HPayPlanByNumber(i) ==
  /\ AtPC(i, "payPlan")
  /\ planRow' = [planRow EXCEPT ![subRow[log[i].of].plan].revenue =
                   hs[i].val + log[i].n]
  /\ GoTo(i, "record")
  /\ UNCHANGED <<session, walletRows, subRow, recorded, checkpoint, sends>>

HPayPlan(i) ==
  /\ AtPC(i, "payPlan")
  /\ planRow' = [planRow EXCEPT ![subRow[log[i].of].plan].revenue =
                   hs[i].val + 1]
  /\ GoTo(i, "record")
  /\ UNCHANGED <<session, walletRows, subRow, recorded, checkpoint, sends>>

\* Mutant: the cancellation takes the payment in course back.
HDeactivateUncounting(i) ==
  /\ AtPC(i, "deactivate")
  /\ subRow' = [subRow EXCEPT ![log[i].of].active = FALSE,
                              ![log[i].of].count = @ - 1]
  /\ GoTo(i, "decPlan")
  /\ UNCHANGED <<session, planRow, walletRows, recorded, checkpoint, sends>>

\* The cancellation handler does not look at isActive.
HDeactivate(i) ==
  /\ AtPC(i, "deactivate")
  /\ subRow' = [subRow EXCEPT ![log[i].of].active = FALSE]
  /\ GoTo(i, "decPlan")
  /\ UNCHANGED <<session, planRow, walletRows, recorded, checkpoint, sends>>

HDecPlan(i) ==
  /\ AtPC(i, "decPlan")
  /\ planRow' = [planRow EXCEPT ![subRow[log[i].of].plan].subscribers = @ - 1]
  /\ GoTo(i, "touchWallet")
  /\ UNCHANGED <<session, walletRows, subRow, recorded, checkpoint, sends>>

\* recordTransaction inserts the signature unless it is there.  Its lookup and
\* its insert are one step: no other handler writes this signature.
HRecord(i) ==
  /\ AtPC(i, "record")
  /\ recorded' = recorded \union {i}
  /\ GoTo(i, "notify")
  /\ UNCHANGED <<session, planRow, walletRows, subRow, checkpoint, sends>>

HNotify(i) ==
  /\ AtPC(i, "notify")
  /\ sends' = [sends EXCEPT ![i] = @ + 1]
  /\ GoTo(i, Returned)
  /\ UNCHANGED <<session, planRow, walletRows, subRow, recorded, checkpoint>>

\* Handlers finish in any order, so the checkpoint may move backwards and may
\* pass over a transaction whose handler is still running.
HSave(i) ==
  /\ AtPC(i, "save")
  /\ checkpoint' = log[i].slot
  /\ GoTo(i, "idle")
  /\ UNCHANGED <<session, planRow, walletRows, subRow, recorded, sends>>

HandlerStep(i) ==
  \/ HFindSub(i)     \/ HFindPlan(i)      \/ HReadPlans(i)  \/ HWritePlan(i)
  \/ HPlansWritten(i) \/ HFindSession(i)  \/ HFailSession(i)
  \/ HCompleteSession(i) \/ HCreateSub(i) \/ HIncPlan(i)    \/ HTouchWallet(i)
  \/ HUpsertWallet(i) \/ HPayRow(i)       \/ HReadRevenue(i) \/ HPayPlan(i)
  \/ HDeactivate(i)  \/ HDecPlan(i)       \/ HRecord(i)     \/ HNotify(i)
  \/ HSave(i)

Handle(i) ==
  /\ HandlerStep(i)
  /\ UNCHANGED <<chainVars, boot, lastSlot, page, sync, submitted,
                 crashes, faults>>

Running == {i \in Tx : hs[i].pc # "idle"}

\* Mutant: the catch block covers the creation of the row as well.
HandlerErrorWideCatch(i) ==
  /\ i \in Running
  /\ faults < MaxFaults
  /\ faults' = faults + 1
  /\ GoTo(i, IF hs[i].pc \in {"findSession", "failSession", "completeSession",
                           "createSub"}
             THEN "failCaught"
             ELSE IF hs[i].pc \in {"failCaught", "notify"} THEN Returned
             ELSE "idle")
  /\ UNCHANGED <<chainVars, session, planRow, walletRows, subRow, recorded,
                 checkpoint, boot, lastSlot, page, sync, submitted,
                 sends, crashes>>

\* A database or RPC call of the handler rejects.  While the session is being
\* linked the catch block marks it failed; an error of the mark itself, or of
\* the webhook, is swallowed; any other error ends the handler.  At the first
\* step this is also a notification that never arrived.
HandlerError(i) ==
  /\ i \in Running
  /\ faults < MaxFaults
  /\ faults' = faults + 1
  /\ GoTo(i, IF hs[i].pc \in {"findSession", "failSession", "completeSession"}
             THEN "failCaught"
             ELSE IF hs[i].pc \in {"failCaught", "notify"} THEN Returned
             ELSE "idle")
  /\ UNCHANGED <<chainVars, session, planRow, walletRows, subRow, recorded,
                 checkpoint, boot, lastSlot, page, sync, submitted,
                 sends, crashes>>
--------------------------------------------------------------------------------
(* syncAllAccounts: three account snapshots, each written row by row.  The  *)
(* isIndexing flag is sync.pc # "idle".                                     *)

\* Run once by onModuleInit and then by the hourly cron.
SyncBegin ==
  /\ sync.pc = "idle"
  /\ \/ boot = "startSync" /\ boot' = "syncing"
     \/ boot = "up" /\ UNCHANGED boot
  /\ sync' = [IdleSync EXCEPT !.pc = "writePlans", !.plans = PlanSnapshot]
  /\ UNCHANGED <<planRow, walletRows, subRow>>

SyncWritePlan ==
  /\ \E x \in sync.plans :
       /\ UpsertPlan(x)
       /\ sync' = [sync EXCEPT !.plans = @ \ {x}]
  /\ UNCHANGED <<walletRows, subRow, boot>>

SyncReadWallets ==
  /\ sync.pc = "writePlans" /\ sync.plans = {}
  /\ sync' = [sync EXCEPT !.pc = "writeWallets", !.wallets = chainWallets]
  /\ UNCHANGED <<planRow, walletRows, subRow, boot>>

SyncWriteWallet ==
  /\ \E w \in sync.wallets :
       /\ walletRows' = walletRows \union {w}
       /\ sync' = [sync EXCEPT !.wallets = @ \ {w}]
  /\ UNCHANGED <<planRow, subRow, boot>>

SyncReadSubs ==
  /\ sync.pc = "writeWallets" /\ sync.wallets = {}
  /\ sync' = [sync EXCEPT !.pc = "writeSubs", !.subs = SubSnapshot]
  /\ UNCHANGED <<planRow, walletRows, subRow, boot>>

SyncWriteSub ==
  /\ \E x \in sync.subs :
       /\ UpsertSub(x)
       /\ sync' = [sync EXCEPT !.subs = @ \ {x}]
  /\ UNCHANGED <<planRow, walletRows, boot>>

SyncEnd ==
  /\ sync.pc = "writeSubs" /\ sync.subs = {}
  /\ sync' = IdleSync
  /\ UNCHANGED <<planRow, walletRows, subRow, boot>>

Sync ==
  /\ \/ SyncBegin       \/ SyncWritePlan \/ SyncReadWallets
     \/ SyncWriteWallet \/ SyncReadSubs  \/ SyncWriteSub \/ SyncEnd
  /\ UNCHANGED <<chainVars, session, recorded, checkpoint, lastSlot, page, hs,
                 submitted, sends, crashes, faults>>

\* An RPC or database error ends the whole sync, except that an error while one
\* subscription is written skips that subscription.  The flag is released.
SyncError ==
  /\ sync.pc # "idle"
  /\ faults < MaxFaults
  /\ faults' = faults + 1
  /\ \/ sync' = IdleSync
     \/ \E x \in sync.subs : sync' = [sync EXCEPT !.subs = @ \ {x}]
  /\ UNCHANGED <<chainVars, session, planRow, walletRows, subRow, recorded,
                 checkpoint, boot, lastSlot, page, hs, submitted, sends,
                 crashes>>
--------------------------------------------------------------------------------
(* onModuleInit: load the checkpoint, backfill, sync, listen.               *)

\* On the first run the current slot becomes the checkpoint.
BootLoad ==
  /\ boot = "down"
  /\ lastSlot' = IF checkpoint = 0 THEN CurrentSlot ELSE checkpoint
  /\ checkpoint' = lastSlot'
  /\ boot' = "fetch"
  /\ UNCHANGED <<page, hs, faults>>

\* One page of signatures, newest first, down to the checkpoint: a slot equal
\* to it counts as processed.
BootFetch ==
  /\ boot = "fetch"
  /\ LET n == Len(log)
         todo == {i \in 1..n : log[i].slot > lastSlot /\ n - i < SigLimit}
     IN page' = [j \in 1..Cardinality(todo) |-> n + 1 - j]
  /\ boot' = "backfill"
  /\ UNCHANGED <<checkpoint, lastSlot, hs, faults>>

\* getSlot or getSignaturesForAddress fails: no backfill, the boot goes on.
BootFetchError ==
  /\ boot = "fetch"
  /\ faults < MaxFaults
  /\ faults' = faults + 1
  /\ boot' = "startSync"
  /\ UNCHANGED <<checkpoint, lastSlot, page, hs>>

BackfillIdle == boot = "backfill" /\ Running = {}

BackfillNext ==
  /\ BackfillIdle
  /\ page # <<>>
  /\ page' = Tail(page)
  /\ hs' = [hs EXCEPT ![Head(page)] = Started(Kind(Head(page)))]
  /\ UNCHANGED <<checkpoint, boot, lastSlot, faults>>

BackfillDone ==
  /\ BackfillIdle
  /\ page = <<>>
  /\ boot' = "startSync"
  /\ UNCHANGED <<checkpoint, lastSlot, page, hs, faults>>

BootListen ==
  /\ boot = "syncing"
  /\ sync.pc = "idle"
  /\ boot' = "up"
  /\ UNCHANGED <<checkpoint, lastSlot, page, hs, faults>>

Boot ==
  /\ \/ BootLoad     \/ BootFetch    \/ BootFetchError
     \/ BackfillNext \/ BackfillDone \/ BootListen
  /\ UNCHANGED <<chainVars, session, planRow, walletRows, subRow, recorded,
                 sync, submitted, sends, crashes>>

Crash ==
  /\ boot # "down"
  /\ crashes < MaxCrashes
  /\ crashes' = crashes + 1
  /\ boot' = "down"
  /\ lastSlot' = 0
  /\ page' = <<>>
  /\ hs' = [i \in Tx |-> IdleHandler]
  /\ sync' = IdleSync
  /\ UNCHANGED <<chainVars, session, planRow, walletRows, subRow, recorded,
                 checkpoint, submitted, sends, faults>>
--------------------------------------------------------------------------------
Chain ==
  \/ \E p \in Plans : ChainRegisterPlan(p)
  \/ \E w \in Wallets : ChainCreateWallet(w)
  \/ \E s \in Subs, p \in Plans, k \in Tokens : ChainSubscribe(s, p, k)
  \/ \E s \in Subs : ChainPay(s) \/ ChainCancel(s)

Checkout ==
  \/ \E k \in Tokens, p \in Plans : CreateSession(k, p)
  \/ \E k \in Tokens : CompleteSession(k) \/ CancelSession(k)

Next ==
  \/ Chain
  \/ Checkout
  \/ \E i \in Tx : Handle(i) \/ HandlerError(i)
  \/ Sync
  \/ SyncError
  \/ Boot
  \/ Crash

Spec == Init /\ [][Next]_vars

\* The event loop runs every continuation and the cron fires every hour; the
\* supervisor restarts a crashed process.  Nothing obliges the chain, the
\* clients, a crash or a fault to happen.
Fairness ==
  /\ \A i \in Tx : WF_vars(Handle(i))
  /\ WF_vars(Sync)
  /\ WF_vars(Boot)

FairSpec == Spec /\ Fairness
--------------------------------------------------------------------------------
(* Properties.                                                              *)

\* Merchants do not reuse a plan id (the account seeds allow it across mints).
PlanIdsPerMerchant ==
  \A p, q \in Plans :
    MerchantOf[p] = MerchantOf[q] /\ PlanId[p] = PlanId[q] => p = q

\* A session reads "completed" only if the chain holds the subscription it
\* names, opened with this session's token on this session's plan.  The
\* verification reads the session several awaits before the write.
CompletedSessionsVerified ==
  \A k \in Tokens : session[k].status = "completed" =>
    \E s \in Subs : /\ s = session[k].sub
                    /\ chain[s].status # "none"
                    /\ chain[s].token = k
                    /\ chain[s].plan = session[k].plan

\* Whichever of handler and sync inserted it, a subscription row has an account
\* behind it, the account's token and plan, and a session to take the customer
\* from.
SubscriptionRowsBacked ==
  \A s \in Subs : subRow[s].here =>
    /\ chain[s].status # "none"
    /\ subRow[s].token = chain[s].token
    /\ subRow[s].plan = chain[s].plan
    /\ session[subRow[s].token].status # "absent"
    /\ planRow[subRow[s].plan].here

\* subscription.created is sent at most once per subscription, through
\* restarts, backfills that replay the event and syncs that insert the row.
CreatedAnnouncedOnce ==
  \A i \in DOMAIN log : log[i].kind = "subscribe" => sends[i] <= 1

\* A merchant told of an event finds it in the tables: the transaction is
\* recorded, the subscription row is there, and for a creation the session was
\* completed (it can only have been cancelled since).
AnnouncedIsDurable ==
  \A i \in DOMAIN log : sends[i] > 0 =>
    /\ i \in recorded
    /\ subRow[log[i].of].here
    /\ log[i].kind = "subscribe" =>
         session[chain[log[i].of].token].status \in {"completed", "cancelled"}

\* Until the process first crashes every payment is handled at most once, so a
\* plan's revenue never exceeds what its subscribers paid: lost updates of
\* interleaved handlers only lower it, and the sync never writes it.
PaidOn(p) == {i \in DOMAIN log : log[i].kind = "pay" /\ chain[log[i].of].plan = p}
RevenueNotOverstated ==
  crashes = 0 => \A p \in Plans : planRow[p].revenue <= Cardinality(PaidOn(p))

\* A completed session leaves that status by the cancel endpoint.  Only the
\* replay of its creation after a crash can take a completion back: when the
\* replay meets an error, or another plan under the same id.
CompletionKept ==
  [][\A k \in Tokens :
       session[k].status = "completed" /\ session'[k].status # "completed" =>
         \/ CancelSession(k)
         \/ /\ crashes > 0
            /\ faults > 0 \/ \E p, q \in Plans : p # q /\ PlanId[p] = PlanId[q]]_vars

\* The subscriptions on chain, as checkout sees them.
Subscribed ==
  {<<chain[s].token, chain[s].plan, s>> : s \in {t \in Subs : chain[t].status # "none"}}

Checked == INSTANCE CheckoutContract WITH subscribed <- Subscribed

\* Handlers, replays, syncs, cancellations and crashes together implement the
\* abstract checkout: every step of theirs is a step of the contract or none.
KeepsCheckout == Checked!Spec

\* Once the chain is quiet the hourly sync repairs every row the handlers left
\* wrong (missed, replayed, reordered or lost updates), stale snapshots and late
\* handlers included.
Mirrors ==
  /\ \A p \in chainPlans :
       planRow[p].here /\ planRow[p].subscribers = Cardinality(ActiveOn(p))
  /\ chainWallets \subseteq walletRows
  /\ \A s \in Subs :
       chain[s].status # "none" /\ session[chain[s].token].status # "absent" =>
         /\ subRow[s].here
         /\ subRow[s].active <=> chain[s].status = "active"
         /\ subRow[s].paid = chain[s].pays
         /\ subRow[s].count = chain[s].pays
EventuallyMirrored == <>[]Mirrors
--------------------------------------------------------------------------------
(* Statements of the repository that the code does not keep.                *)

\* schema.prisma: 'failed' means that the indexer found issues.  A failed
\* session has no subscription on chain that matches its merchant and plan.
FailedSessionsHaveIssues ==
  \A k \in Tokens : session[k].status = "failed" =>
    ~ \E s \in Subs : /\ chain[s].status # "none"
                      /\ chain[s].token = k
                      /\ chain[s].plan = session[k].plan

\* completeCheckoutSession: "Verification in progress", "All verification
\* happens in the indexer".  A submitted session whose subscription is on chain
\* is eventually verified (or cancelled by its user).
SubmittedSessionsSettle ==
  \A k \in Tokens :
    (k \in submitted /\ \E s \in Subs : chain[s].token = k)
      ~> session[k].status \in {"completed", "failed", "cancelled"}
================================================================================
