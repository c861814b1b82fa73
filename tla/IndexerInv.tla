------------------------------ MODULE IndexerInv -------------------------------
(****************************************************************************)
(* The inductive invariants behind the theorems of IndexerProofs: what a    *)
(* handler may rely on at each of its steps, although the chain, the sync   *)
(* and the other handlers ran since it read the database.                   *)
(****************************************************************************)
EXTENDS Indexer

SubKinds == {"subscribe", "pay", "cancel"}

LinkPCs    == {"findSession", "failSession", "failCaught", "completeSession",
               "createSub"}
CreatePCs  == {"findPlan", "refindPlan", "incPlan"} \union LinkPCs
PayPCs     == {"payRow", "readRevenue", "payPlan"}
CancelPCs  == {"deactivate", "decPlan"}
SharedPCs  == {"touchWallet", "record", "notify"}
\* The steps after the handler has found or created the subscription row.
RowPCs     == {"incPlan"} \union PayPCs \union CancelPCs \union SharedPCs

Opened(s) == chain[s].status # "none"

\* An account has a plan and a token once it is open, and no token before.
AccountsOK ==
  \A s \in Subs : /\ Opened(s) => chain[s].plan \in Plans /\ chain[s].token \in Tokens
                  /\ ~Opened(s) => chain[s].token = Null

\* A transaction names an account of its kind.
TxOK(i) ==
  /\ log[i].kind = "wallet" => log[i].of \in Wallets
  /\ log[i].kind \in SubKinds => log[i].of \in Subs /\ Opened(log[i].of)

LogOK == \A i \in 1..Len(log) : TxOK(i)

RowsOK == \A s \in Subs : subRow[s].here => subRow[s].plan \in Plans

PageOK == \A j \in DOMAIN page : page[j] <= Len(log)

\* The accounts of a subscription snapshot stay open while it is written.
SnapshotOK == \A x \in sync.subs : Opened(x.sub)

\* A running handler works on a transaction of the kind its step is for, and
\* keeps the row and the plan it has found.
HandlerOK(i, h) ==
  h.pc # "idle" =>
    /\ i <= Len(log)
    /\ h.pc \in {"findSub"} \union SharedPCs => log[i].kind \in SubKinds
    /\ h.pc \in CreatePCs => log[i].kind = "subscribe"
    /\ h.pc \in PayPCs => log[i].kind = "pay"
    /\ h.pc \in CancelPCs => log[i].kind = "cancel"
    /\ h.pc = "upsertWallet" => log[i].kind = "wallet"
    /\ h.pc \in {"readPlans", "writePlans"} => log[i].kind \in {"plan", "subscribe"}
    /\ h.pc \in LinkPCs \union {"incPlan"} => h.plan \in Plans
    /\ h.pc \in RowPCs => subRow[log[i].of].here

HandlersOK == \A i \in Tx : HandlerOK(i, hs[i])

\* The well-formedness of the state: inductive by itself.
StateOK ==
  /\ TypeOK
  /\ AccountsOK
  /\ LogOK
  /\ RowsOK
  /\ PageOK
  /\ SnapshotOK
  /\ HandlersOK
--------------------------------------------------------------------------------
\* What a creation handler knows at each step of the verification: the plan row
\* it found has the id of the account's plan; once the session matched, it is
\* the account's plan and the session's.
LinkStepOK(i, h) ==
  LET a == chain[log[i].of] IN
  /\ h.pc \in LinkPCs => /\ planRow[h.plan].here
                         /\ PlanId[h.plan] = PlanId[a.plan]
  /\ h.pc \in {"completeSession", "createSub"} =>
       /\ h.plan = a.plan
       /\ session[a.token].status # "absent"
       /\ session[a.token].plan = h.plan

LinkOK ==
  /\ StateOK
  /\ CompletedSessionsVerified
  /\ SubscriptionRowsBacked
  /\ \A i \in Tx : LinkStepOK(i, hs[i])

\* A creation that was announced has its row, so a handler that runs again stops
\* at findSub; one that is past findSub has announced nothing yet.
AnnounceStepOK(i) ==
  /\ i > Len(log) => sends[i] = 0
  /\ i <= Len(log) /\ log[i].kind = "subscribe" =>
       /\ sends[i] <= 1
       /\ sends[i] > 0 => subRow[log[i].of].here
       /\ hs[i].pc \notin {"idle", "findSub", "save"} => sends[i] = 0

AnnounceOK == StateOK /\ \A i \in Tx : AnnounceStepOK(i)
--------------------------------------------------------------------------------
\* A transaction is handled once between two crashes: no handler runs before the
\* backfill, and none runs for a transaction still on the page.  A session token
\* serves one account, and an account is opened by one transaction.
OnceOK ==
  /\ StateOK
  /\ \A s, t \in Subs :
       Opened(s) /\ Opened(t) /\ chain[s].token = chain[t].token => s = t
  /\ \A i, j \in 1..Len(log) :
       /\ log[i].kind = "subscribe" /\ log[j].kind = "subscribe"
       /\ log[i].of = log[j].of
       => i = j
  /\ boot \in {"down", "fetch"} => \A i \in Tx : hs[i].pc = "idle"
  /\ \A a, b \in DOMAIN page : page[a] = page[b] => a = b
  /\ \A a \in DOMAIN page : hs[page[a]].pc = "idle"

\* The steps before the effect of a transaction shows: a session completed, or a
\* payment added to the revenue of its plan.
EarlyPCs == {"findSub", "findPlan", "refindPlan", "readPlans", "writePlans",
             "findSession", "failSession", "failCaught", "completeSession"}
              \union PayPCs

OnPage(i) == \E a \in DOMAIN page : page[a] = i

\* Transaction i may still have its effect.
Pending(i) == \/ boot \in {"down", "fetch"}
              \/ OnPage(i)
              \/ hs[i].pc \in EarlyPCs

\* What a merchant has been told, or is about to be told, is in the tables.
DurableStepOK(i) ==
  /\ sends[i] > 0 \/ hs[i].pc = "notify" => i \in recorded
  /\ sends[i] > 0 => log[i].kind \in SubKinds /\ subRow[log[i].of].here
  /\ /\ log[i].kind = "subscribe"
     /\ sends[i] > 0 \/ hs[i].pc \in {"createSub", "incPlan"} \union SharedPCs
     => session[chain[log[i].of].token].status \in {"completed", "cancelled"}

DurableOK ==
  /\ OnceOK
  /\ AnnounceOK
  /\ \A i \in 1..Len(log) : DurableStepOK(i)

\* The payments on plan p whose handler can no longer add to its revenue.
Spent(p) == {i \in PaidOn(p) : ~Pending(i)}

RevenueOK ==
  /\ OnceOK
  /\ LinkOK
  /\ crashes = 0 =>
       /\ \A p \in Plans : planRow[p].revenue <= Cardinality(Spent(p))
       /\ \A i \in Tx : hs[i].pc = "payPlan" =>
            hs[i].val <= Cardinality(Spent(subRow[log[i].of].plan))

\* No two plans have the same id.
PlanIdsDiffer == \A p, q \in Plans : PlanId[p] = PlanId[q] => p = q

\* Before the first crash nothing completes a session whose creation is still
\* to be judged; after it, only an error or a second plan under the same id
\* makes the replay of a creation find fault with the session it completed.
KeptOK ==
  /\ OnceOK
  /\ \A k \in Tokens : session[k].status = "completed" =>
       \E s \in Subs : Opened(s) /\ chain[s].token = k
  /\ crashes = 0 => \A i \in 1..Len(log) :
       log[i].kind = "subscribe" /\ Pending(i) =>
         session[chain[log[i].of].token].status # "completed"
  /\ faults = 0 => \A i \in Tx : hs[i].pc # "failCaught"
  /\ PlanIdsDiffer =>
       /\ LinkOK
       /\ \A i \in Tx : hs[i].pc = "failSession" =>
            LET a == chain[log[i].of] IN
            session[a.token].status # "absent" /\ session[a.token].plan # a.plan
================================================================================
