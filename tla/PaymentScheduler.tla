-------------------------- MODULE PaymentScheduler --------------------------
(***************************************************************************)
(* Recurring payments: the rows of scheduledPayment, the cron job that     *)
(* executes those that are due one after the other, the transactions it    *)
(* sends, and what runs beside it: the program on chain, the indexer's     *)
(* writes to the subscription rows, cancellations, crashes, failing        *)
(* statements.                                                             *)
(*                                                                         *)
(* There is no clock.  A time that matters is the end of the interval that *)
(* a payment began, so the time stamp of a subscription is the number of   *)
(* its last payment, and an account knows whether the interval after its   *)
(* last one has elapsed.                                                   *)
(***************************************************************************)
EXTENDS Integers, Sequences, FiniteSets

CONSTANTS
    Subs,        \* subscriptions
    BatchSize,   \* BATCH_SIZE
    MaxRetries,  \* MAX_RETRIES
    MaxSends,    \* maxRetries of sendTransactionWithRetry
    MaxCount,    \* bound: payments of one subscription on chain
    MaxCancels,  \* bound: calls of cancelScheduledPayments
    MaxFaults,   \* bound: statements that fail
    MaxCrashes   \* bound: crashes

ASSUME SubsFinite == IsFiniteSet(Subs)
ASSUME LimitsPositive == /\ BatchSize \in Nat \ {0} /\ MaxRetries \in Nat \ {0}
                         /\ MaxSends \in Nat \ {0}
ASSUME BoundsNatural == /\ MaxCount \in Nat /\ MaxCancels \in Nat
                        /\ MaxFaults \in Nat /\ MaxCrashes \in Nat

VARIABLES
    chain,   \* the subscription accounts: active, payments made, interval over
    subRow,  \* the subscription rows: active, last payment, in milliseconds
    rows,    \* the scheduledPayment rows, in the order of their creation
    job,     \* the cron job: where it stands, its batch, row, copy and sends
    cancels, faults, crashes

vars == <<chain, subRow, rows, job, cancels, faults, crashes>>
Budgets == <<cancels, faults, crashes>>

Account == [active : BOOLEAN, count : Nat, elapsed : BOOLEAN]
SubRow == [active : BOOLEAN, last : Nat, millis : BOOLEAN]

(* scheduledFor is the end of the interval that payment number "after"     *)
(* began, or five minutes after a failure, or past, or thousands of years  *)
(* ahead.  "runs" counts executions, "payment" is the payment that         *)
(* completed the row: neither is a column.                                 *)
Times == {"interval", "delay", "past", "never"}
Statuses == {"pending", "processing", "completed", "failed", "cancelled", "deleted"}
PaymentRow == [sub : Subs, at : Times, after : Nat, status : Statuses,
               retries : Nat, runs : Nat, payment : Nat]

PCs == {"idle", "next", "mark", "findSub", "inactive", "verify", "send", "complete",
        "updateSub", "findNext", "createNext", "notify", "catch", "notifyFailed"}
Executing == PCs \ {"idle", "next"}
Job == [pc : PCs, todo : SUBSET Nat, row : Nat, copy : SubRow, sends : Nat]

NoCopy == [active |-> FALSE, last |-> 0, millis |-> FALSE]
Idle == [pc |-> "idle", todo |-> {}, row |-> 0, copy |-> NoCopy, sends |-> 0]

(* The end of the interval after the last payment in a subscription row.   *)
(* The time stamp is read as seconds, though the indexer's payment handler *)
(* writes milliseconds.                                                    *)
NextRow(s, copy) ==
    [sub |-> s, at |-> IF copy.millis THEN "never" ELSE "interval", after |-> copy.last,
     status |-> "pending", retries |-> 0, runs |-> 0, payment |-> 0]

(* Types; a job under way has its rows, and no row of its batch is ahead.  *)
TypeOK ==
    /\ chain \in [Subs -> Account]
    /\ subRow \in [Subs -> SubRow]
    /\ rows \in Seq(PaymentRow)
    /\ job \in Job
    /\ job.todo \subseteq DOMAIN rows
    /\ job.pc \in Executing => job.row \in DOMAIN rows \ job.todo
    /\ cancels \in 0..MaxCancels /\ faults \in 0..MaxFaults /\ crashes \in 0..MaxCrashes

(* A subscription has made its first payment, and has a row for the next.  *)
Init ==
    /\ chain = [s \in Subs |-> [active |-> TRUE, count |-> 1, elapsed |-> FALSE]]
    /\ subRow \in [Subs -> {[active |-> TRUE, last |-> 1, millis |-> b] : b \in BOOLEAN}]
    /\ \E order \in [1..Cardinality(Subs) -> Subs] :
          /\ \A i, j \in DOMAIN order : order[i] = order[j] => i = j
          /\ rows = [i \in DOMAIN order |->
                        NextRow(order[i], [active |-> TRUE, last |-> 1, millis |-> FALSE])]
    /\ job = Idle
    /\ cancels = 0 /\ faults = 0 /\ crashes = 0

-----------------------------------------------------------------------------
(* The program, the passing of time, and the indexer. *)

IntervalElapses(s) ==
    /\ ~chain[s].elapsed
    /\ chain' = [chain EXCEPT ![s].elapsed = TRUE]
    /\ UNCHANGED <<subRow, rows, job, Budgets>>

ChainCancel(s) ==
    /\ chain[s].active
    /\ chain' = [chain EXCEPT ![s].active = FALSE]
    /\ UNCHANGED <<subRow, rows, job, Budgets>>

(* The program refuses a payment before the interval has elapsed.          *)
Accepts(s) == chain[s].active /\ chain[s].elapsed /\ chain[s].count < MaxCount
Charge(s) == chain' = [chain EXCEPT ![s].count = @ + 1, ![s].elapsed = FALSE]

(* The hourly sync copies the account into the row.                        *)
MirrorAccount(s) ==
    /\ subRow' = [subRow EXCEPT ![s] = [active |-> chain[s].active, last |-> chain[s].count,
                                        millis |-> FALSE]]
    /\ UNCHANGED <<chain, rows, job, Budgets>>

(* The handler of the PaymentExecuted event stamps the row with Date.now().*)
StampMillis(s) ==
    /\ chain[s].count > 1
    /\ subRow' = [subRow EXCEPT ![s].last = chain[s].count, ![s].millis = TRUE]
    /\ UNCHANGED <<chain, rows, job, Budgets>>

(* The handler of the cancellation event.                                  *)
Deactivate(s) ==
    /\ ~chain[s].active
    /\ subRow' = [subRow EXCEPT ![s].active = FALSE]
    /\ UNCHANGED <<chain, rows, job, Budgets>>

DelayElapses(i) ==
    /\ rows[i].at = "delay"
    /\ rows' = [rows EXCEPT ![i].at = "past"]
    /\ UNCHANGED <<chain, subRow, job, Budgets>>

-----------------------------------------------------------------------------
(* The other operations of the service. *)

CancelScheduledPayments(s) ==
    /\ cancels < MaxCancels /\ cancels' = cancels + 1
    /\ rows' = [i \in DOMAIN rows |->
                   IF rows[i].sub = s /\ rows[i].status = "pending"
                   THEN [rows[i] EXCEPT !.status = "cancelled"] ELSE rows[i]]
    /\ UNCHANGED <<chain, subRow, job, faults, crashes>>

(* Thirty days after a row was completed, never while it is executed.      *)
CleanupOldPayments(i) ==
    /\ rows[i].status = "completed" /\ ~(job.pc \in Executing /\ job.row = i)
    /\ rows' = [rows EXCEPT ![i].status = "deleted"]
    /\ UNCHANGED <<chain, subRow, job, Budgets>>

-----------------------------------------------------------------------------
(* processDuePayments. *)

Past(i) ==
    \/ rows[i].at = "past"
    \/ /\ rows[i].at = "interval"
       /\ \/ rows[i].after < chain[rows[i].sub].count
          \/ rows[i].after = chain[rows[i].sub].count /\ chain[rows[i].sub].elapsed

Due == {i \in DOMAIN rows : rows[i].status = "pending" /\ Past(i)}

(* isProcessing is the job not being idle.                                 *)
ProcessDuePayments ==
    /\ job.pc = "idle" /\ Due # {}
    /\ \E B \in SUBSET Due :
          /\ Cardinality(B) = BatchSize \/ (B = Due /\ Cardinality(B) < BatchSize)
          /\ job' = [job EXCEPT !.pc = "next", !.todo = B]
    /\ UNCHANGED <<chain, subRow, rows, Budgets>>

(* Mutant: the flag is not reset after the batch.                          *)
NextPaymentLocked ==
    /\ job.pc = "next"
    /\ \/ \E i \in job.todo : job' = [job EXCEPT !.pc = "mark", !.row = i, !.todo = @ \ {i}]
       \/ job.todo = {} /\ job' = [Idle EXCEPT !.pc = "next"]
    /\ UNCHANGED <<chain, subRow, rows, Budgets>>

(* Mutant: a row stays in the batch when its turn comes.                   *)
NextPaymentKeeping ==
    /\ job.pc = "next"
    /\ \/ \E i \in job.todo : job' = [job EXCEPT !.pc = "mark", !.row = i]
       \/ job.todo = {} /\ job' = Idle
    /\ UNCHANGED <<chain, subRow, rows, Budgets>>

NextPayment ==
    /\ job.pc = "next"
    /\ \/ \E i \in job.todo : job' = [job EXCEPT !.pc = "mark", !.row = i, !.todo = @ \ {i}]
       \/ job.todo = {} /\ job' = Idle
    /\ UNCHANGED <<chain, subRow, rows, Budgets>>

-----------------------------------------------------------------------------
(* executePayment, one step per await. *)

Sub == rows[job.row].sub
Goto(p) == job' = [job EXCEPT !.pc = p]
SetRow(r) == rows' = [rows EXCEPT ![job.row] = r]

(* The row is marked whatever became of it since the batch was read.       *)
MarkProcessing ==
    /\ job.pc = "mark"
    /\ SetRow([rows[job.row] EXCEPT !.status = "processing", !.runs = @ + 1])
    /\ Goto("findSub")
    /\ UNCHANGED <<chain, subRow, Budgets>>

FindSub ==
    /\ job.pc = "findSub"
    /\ job' = [job EXCEPT !.copy = subRow[Sub], !.sends = 0,
                          !.pc = IF subRow[Sub].active THEN "verify" ELSE "inactive"]
    /\ UNCHANGED <<chain, subRow, rows, Budgets>>

FailInactive ==
    /\ job.pc = "inactive"
    /\ SetRow([rows[job.row] EXCEPT !.status = "failed"])
    /\ Goto("next")
    /\ UNCHANGED <<chain, subRow, Budgets>>

(* verifySubscription reads the account; any error makes it invalid.       *)
Verify ==
    /\ job.pc = "verify"
    /\ \/ chain[Sub].active /\ chain[Sub].elapsed /\ Goto("send")
       \/ Goto("catch")
    /\ UNCHANGED <<chain, subRow, rows, Budgets>>

(* Mutant: a transaction is taken for confirmed once it was sent.          *)
SendAssumed ==
    /\ job.pc = "send"
    /\ (Accepts(Sub) /\ Charge(Sub)) \/ UNCHANGED chain
    /\ job' = [job EXCEPT !.pc = "complete", !.sends = @ + 1]
    /\ UNCHANGED <<subRow, rows, Budgets>>

(* One attempt: confirmed; or an error, although it may have landed, after *)
(* which a new block hash may or may not be had for the next attempt.      *)
Send ==
    /\ job.pc = "send"
    /\ \/ /\ Accepts(Sub) /\ Charge(Sub)
          /\ job' = [job EXCEPT !.pc = "complete", !.sends = @ + 1]
       \/ /\ (Accepts(Sub) /\ Charge(Sub)) \/ UNCHANGED chain
          /\ \E p \in {"send", "catch"} :
                /\ p = "send" => job.sends + 1 < MaxSends
                /\ job' = [job EXCEPT !.pc = p, !.sends = @ + 1]
    /\ UNCHANGED <<subRow, rows, Budgets>>

(* The transaction that was confirmed is the last one of the subscription. *)
Complete ==
    /\ job.pc = "complete"
    /\ SetRow([rows[job.row] EXCEPT !.status = "completed", !.payment = chain[Sub].count])
    /\ Goto("updateSub")
    /\ UNCHANGED <<chain, subRow, Budgets>>

UpdateSub ==
    /\ job.pc = "updateSub"
    /\ subRow' = [subRow EXCEPT ![Sub].last = chain[Sub].count, ![Sub].millis = FALSE]
    /\ Goto("findNext")
    /\ UNCHANGED <<chain, rows, Budgets>>

(* scheduleNextPayment, with the subscription read before the payment.     *)
FindNext ==
    /\ job.pc = "findNext"
    /\ Goto(IF \E i \in DOMAIN rows : rows[i].sub = Sub /\ rows[i].status = "pending"
            THEN "notify" ELSE "createNext")
    /\ UNCHANGED <<chain, subRow, rows, Budgets>>

CreateNext ==
    /\ job.pc = "createNext"
    /\ rows' = Append(rows, NextRow(Sub, job.copy))
    /\ Goto("notify")
    /\ UNCHANGED <<chain, subRow, Budgets>>

(* Mutant: an error of the webhook service reaches the outer catch.        *)
NotifyThrowing ==
    /\ job.pc = "notify"
    /\ Goto("next") \/ Goto("catch")
    /\ UNCHANGED <<chain, subRow, rows, Budgets>>

(* An error of the webhook service is caught on the spot.                  *)
Notify ==
    /\ job.pc = "notify"
    /\ Goto("next")
    /\ UNCHANGED <<chain, subRow, rows, Budgets>>

(* Mutant: one attempt more than MAX_RETRIES.                              *)
CatchOneMore ==
    /\ job.pc = "catch"
    /\ LET retries == rows[job.row].retries + 1
           again == retries <= MaxRetries
       IN  /\ SetRow([rows[job.row] EXCEPT
                        !.retries = retries,
                        !.status = IF again THEN "pending" ELSE "failed",
                        !.at = IF again THEN "delay" ELSE @])
           /\ Goto(IF again THEN "next" ELSE "notifyFailed")
    /\ UNCHANGED <<chain, subRow, Budgets>>

(* The outer catch.                                                        *)
Catch ==
    /\ job.pc = "catch"
    /\ LET retries == rows[job.row].retries + 1
           again == retries < MaxRetries
       IN  /\ SetRow([rows[job.row] EXCEPT
                        !.retries = retries,
                        !.status = IF again THEN "pending" ELSE "failed",
                        !.at = IF again THEN "delay" ELSE @])
           /\ Goto(IF again THEN "next" ELSE "notifyFailed")
    /\ UNCHANGED <<chain, subRow, Budgets>>

NotifyFailed ==
    /\ job.pc = "notifyFailed"
    /\ Goto("next")
    /\ UNCHANGED <<chain, subRow, rows, Budgets>>

(* A statement fails without effect: into the catch, or, from within it,   *)
(* out of executePayment to the loop over the batch.                       *)
StatementError ==
    /\ faults < MaxFaults /\ faults' = faults + 1
    /\ \/ /\ job.pc \in {"mark", "findSub", "inactive", "complete", "updateSub",
                         "findNext", "createNext"}
          /\ Goto("catch")
       \/ job.pc \in {"catch", "notifyFailed"} /\ Goto("next")
    /\ UNCHANGED <<chain, subRow, rows, cancels, crashes>>

Crash ==
    /\ crashes < MaxCrashes /\ crashes' = crashes + 1
    /\ job.pc # "idle" /\ job' = Idle
    /\ UNCHANGED <<chain, subRow, rows, cancels, faults>>

-----------------------------------------------------------------------------
Execution ==
    \/ NextPayment \/ MarkProcessing \/ FindSub \/ FailInactive \/ Verify \/ Send
    \/ Complete \/ UpdateSub \/ FindNext \/ CreateNext \/ Notify \/ Catch \/ NotifyFailed

Environment ==
    \/ \E s \in Subs : \/ IntervalElapses(s) \/ ChainCancel(s) \/ MirrorAccount(s)
                       \/ StampMillis(s) \/ Deactivate(s) \/ CancelScheduledPayments(s)
    \/ \E i \in DOMAIN rows : DelayElapses(i) \/ CleanupOldPayments(i)

Next == ProcessDuePayments \/ Execution \/ Environment \/ StatementError \/ Crash

Spec == Init /\ [][Next]_vars

(* The cron job runs every minute, a promise settles, five minutes pass.   *)
Fairness ==
    /\ WF_vars(ProcessDuePayments)
    /\ WF_vars(Execution)
    /\ WF_vars(\E i \in DOMAIN rows : DelayElapses(i))

FairSpec == Spec /\ Fairness

-----------------------------------------------------------------------------
(* Properties. *)

(* Two rows of a subscription are never completed by the same payment, and *)
(* the payment of a completed row was made: an attempt that failed without *)
(* a confirmation, a row executed again and a stale follow-up included.    *)
CompletedDistinct ==
    /\ \A i \in DOMAIN rows : rows[i].payment <= chain[rows[i].sub].count
    /\ \A i, j \in DOMAIN rows :
          i # j /\ rows[i].sub = rows[j].sub /\ rows[i].payment = rows[j].payment
             => rows[i].payment = 0

(* A subscription never has two rows that are still to be executed: a row  *)
(* put back by the outer catch never meets the follow-up it created.       *)
OneOpenRow ==
    \A i, j \in DOMAIN rows :
       /\ rows[i].sub = rows[j].sub
       /\ {rows[i].status, rows[j].status} \subseteq {"pending", "processing"}
       => i = j

(* However errors, crashes and cancellations meet, no row is executed more *)
(* often than MAX_RETRIES allows.                                          *)
ExecutionsBounded == \A i \in DOMAIN rows : rows[i].runs <= MaxRetries

(* The inductive form of the three.  A row is live while it is open or may *)
(* still be put back: distinct live rows belong to distinct subscriptions. *)
Waiting(i) == i \in job.todo \/ (job.pc = "mark" /\ job.row = i)
Running(i) == job.pc \in Executing \ {"mark", "notify", "notifyFailed"} /\ job.row = i
Live(i) == rows[i].status \in {"pending", "processing"} \/ Waiting(i) \/ Running(i)

LiveOK == \A i, j \in DOMAIN rows :
             Live(i) /\ Live(j) /\ rows[i].sub = rows[j].sub => i = j

RunsOK == \A i \in DOMAIN rows :
             /\ rows[i].runs <= MaxRetries
             /\ rows[i].status = "pending" \/ Waiting(i)
                   => rows[i].runs <= rows[i].retries /\ rows[i].retries < MaxRetries
             /\ Running(i)
                   => rows[i].runs <= rows[i].retries + 1 /\ rows[i].retries < MaxRetries

PaidOK == /\ CompletedDistinct
          /\ job.pc = "complete" => \A i \in DOMAIN rows :
                rows[i].sub = Sub => rows[i].payment < chain[Sub].count
          /\ job.pc \in {"updateSub", "findNext", "createNext"} =>
                rows[job.row].status = "completed"

(* Rows are open once, executed MAX_RETRIES times at most and completed by *)
(* payments of their own, in a form that every step preserves.             *)
RowsOK == LiveOK /\ RunsOK /\ PaidOK

(* Every row that is due reaches an outcome, although the calls to the     *)
(* chain may go on failing.  Only a crash or a failing statement leaves a  *)
(* row behind: 'processing', with no execution that would ever settle it.  *)
Settled(i) == i \in DOMAIN rows /\ rows[i].status \notin {"pending", "processing"}
Abandoned(i) ==
    /\ i \in DOMAIN rows /\ rows[i].status = "processing"
    /\ crashes + faults > 0 /\ ~(job.pc \in Executing /\ job.row = i)
DueRowsSettle ==
    \A i \in 1..(Cardinality(Subs) * MaxCount) : i \in Due ~> Settled(i) \/ Abandoned(i)
=============================================================================
