----------------------- MODULE PaymentSchedulerProofs -----------------------
(***************************************************************************)
(* For any number of subscriptions, sizes of batches, retries, faults and  *)
(* crashes: the variables keep their types, a subscription has at most one *)
(* open row, a row is executed at most MAX_RETRIES times, and no two rows  *)
(* are completed by one payment.                                           *)
(***************************************************************************)
EXTENDS PaymentScheduler, FiniteSetTheorems, TLAPS

LEMMA RowTyped ==
    ASSUME TypeOK, NEW i \in DOMAIN rows
    PROVE  /\ rows[i] \in PaymentRow
           /\ rows[i].sub \in Subs /\ rows[i].status \in Statuses
           /\ rows[i].retries \in Nat /\ rows[i].runs \in Nat /\ rows[i].payment \in Nat
<1>1. rows[i] \in PaymentRow
  BY DEF TypeOK
<1> QED BY <1>1 DEF PaymentRow

LEMMA AccountTyped ==
    ASSUME TypeOK, NEW s \in Subs
    PROVE  chain[s] \in Account /\ chain[s].count \in Nat /\ subRow[s] \in SubRow
<1>1. chain[s] \in Account /\ subRow[s] \in SubRow
  BY DEF TypeOK
<1> QED BY <1>1 DEF Account

(* What writing one row leaves behind.                                     *)
LEMMA SetRowEffect ==
    ASSUME TypeOK, job.pc \in Executing, NEW r \in PaymentRow, SetRow(r)
    PROVE  /\ job.row \in DOMAIN rows
           /\ rows' \in Seq(PaymentRow) /\ DOMAIN rows' = DOMAIN rows
           /\ rows'[job.row] = r
           /\ \A i \in DOMAIN rows : i # job.row => rows'[i] = rows[i]
<1>1. rows \in Seq(PaymentRow) /\ job.row \in DOMAIN rows
  BY DEF TypeOK
<1>2. rows' = [rows EXCEPT ![job.row] = r]
  BY DEF SetRow
<1> QED BY <1>1, <1>2

LEMMA GotoEffect ==
    ASSUME TypeOK, NEW p \in PCs, Goto(p)
    PROVE  /\ job' \in Job /\ job'.pc = p
           /\ job'.todo = job.todo /\ job'.row = job.row /\ job'.copy = job.copy
BY DEF Goto, TypeOK, Job

LEMMA AccountIs ==
    \A a, e \in BOOLEAN, n \in Nat : [active |-> a, count |-> n, elapsed |-> e] \in Account
BY DEF Account

LEMMA AccountExcept ==
    ASSUME NEW a \in Account, NEW b \in BOOLEAN
    PROVE  /\ [a EXCEPT !.elapsed = b] \in Account /\ [a EXCEPT !.elapsed = b].count = a.count
           /\ [a EXCEPT !.active = b] \in Account /\ [a EXCEPT !.active = b].count = a.count
BY DEF Account

LEMMA AccountCharged ==
    ASSUME NEW a \in Account, NEW b \in BOOLEAN, NEW n \in Nat
    PROVE  LET c == [a EXCEPT !.count = n, !.elapsed = b] IN c \in Account /\ c.count = n
BY DEF Account

LEMMA SubRowExcept ==
    ASSUME NEW r \in SubRow, NEW b \in BOOLEAN, NEW n \in Nat
    PROVE  /\ [r EXCEPT !.last = n, !.millis = b] \in SubRow
           /\ [r EXCEPT !.active = b] \in SubRow
BY DEF SubRow

LEMMA SubRowIs ==
    \A a, b \in BOOLEAN, n \in Nat : [active |-> a, last |-> n, millis |-> b] \in SubRow
BY DEF SubRow

LEMMA NextRowIs ==
    ASSUME NEW s \in Subs, NEW c \in SubRow
    PROVE  LET r == NextRow(s, c)
           IN  /\ r \in PaymentRow
               /\ r.sub = s /\ r.status = "pending"
               /\ r.retries = 0 /\ r.runs = 0 /\ r.payment = 0
<1>1. c.last \in Nat
  BY DEF SubRow
<1>2. PICK t \in Times : t = IF c.millis THEN "never" ELSE "interval"
  BY DEF Times
<1>3. NextRow(s, c) = [sub |-> s, at |-> t, after |-> c.last, status |-> "pending",
                       retries |-> 0, runs |-> 0, payment |-> 0]
  BY <1>2 DEF NextRow
<1>4. "pending" \in Statuses
  BY DEF Statuses
<1> QED BY <1>1, <1>3, <1>4 DEF PaymentRow

LEMMA IdleTyped == Idle \in Job /\ Idle.pc = "idle" /\ Idle.todo = {}
<1>1. NoCopy \in SubRow
  BY SubRowIs DEF NoCopy
<1> QED BY <1>1, LimitsPositive DEF Idle, Job, PCs

LEMMA InitOK == Init => TypeOK /\ RowsOK
<1> SUFFICES ASSUME Init PROVE TypeOK /\ RowsOK
  OBVIOUS
<1>1. PICK copy \in SubRow, order \in [1..Cardinality(Subs) -> Subs] :
         /\ \A i, j \in DOMAIN order : order[i] = order[j] => i = j
         /\ rows = [i \in DOMAIN order |-> NextRow(order[i], copy)]
  BY SubRowIs DEF Init
<1>2. Cardinality(Subs) \in Nat
  BY SubsFinite, FS_CardinalityType
<1>3. \A s \in Subs : /\ NextRow(s, copy) \in PaymentRow
                      /\ NextRow(s, copy).sub = s /\ NextRow(s, copy).status = "pending"
                      /\ NextRow(s, copy).retries = 0 /\ NextRow(s, copy).runs = 0
                      /\ NextRow(s, copy).payment = 0
  BY NextRowIs
<1>4. rows \in Seq(PaymentRow) /\ DOMAIN rows = 1..Cardinality(Subs)
  BY <1>1, <1>2, <1>3
<1>5. \A i \in DOMAIN rows : /\ rows[i] = NextRow(order[i], copy)
                             /\ order[i] \in Subs /\ rows[i].sub = order[i]
  BY <1>1, <1>3
<1>6. job \in Job /\ job.pc = "idle" /\ job.todo = {}
  BY IdleTyped DEF Init
<1>7. chain \in [Subs -> Account] /\ \A s \in Subs : chain[s].count = 1
  <2>1. chain = [s \in Subs |-> [active |-> TRUE, count |-> 1, elapsed |-> FALSE]]
    BY DEF Init
  <2>2. [active |-> TRUE, count |-> 1, elapsed |-> FALSE] \in Account
    BY AccountIs
  <2> QED BY <2>1, <2>2
<1>8. subRow \in [Subs -> SubRow]
  <2>1. {[active |-> TRUE, last |-> 1, millis |-> b] : b \in BOOLEAN} \subseteq SubRow
    BY SubRowIs
  <2> QED BY <2>1 DEF Init
<1>9. TypeOK
  BY <1>4, <1>6, <1>7, <1>8, BoundsNatural DEF TypeOK, Executing, Init
<1>10. LiveOK
  BY <1>1, <1>4, <1>5 DEF LiveOK
<1>11. RunsOK
  BY <1>3, <1>5, <1>6, LimitsPositive DEF RunsOK, Running, Executing
<1>12. PaidOK
  BY <1>3, <1>5, <1>6, <1>7 DEF PaidOK, CompletedDistinct
<1> QED BY <1>9, <1>10, <1>11, <1>12 DEF RowsOK

-----------------------------------------------------------------------------
(* Steps beside the job. *)

LEMMA SameRows ==
    ASSUME TypeOK, RowsOK, UNCHANGED <<rows, job>>,
           \A s \in Subs : chain'[s].count = chain[s].count
    PROVE  RowsOK'
<1>1. \A i \in DOMAIN rows : rows[i].sub \in Subs
  BY RowTyped
<1>2. job.pc \in Executing => job.row \in DOMAIN rows
  BY DEF TypeOK
<1>3. LiveOK' /\ RunsOK'
  BY DEF RowsOK, LiveOK, RunsOK, Live, Waiting, Running
<1>4. PaidOK'
  BY <1>1, <1>2 DEF RowsOK, PaidOK, CompletedDistinct, Sub, Executing, PCs
<1> QED BY <1>3, <1>4 DEF RowsOK

LEMMA ChainStep ==
    ASSUME TypeOK, RowsOK, NEW s \in Subs, IntervalElapses(s) \/ ChainCancel(s)
    PROVE  TypeOK' /\ RowsOK'
<1>1. PICK f \in [Subs -> Account] : f = chain
  BY DEF TypeOK
<1>2. PICK a \in Account : a.count = f[s].count /\ chain' = [f EXCEPT ![s] = a]
  <2>1. CASE IntervalElapses(s)
    <3>1. chain' = [f EXCEPT ![s] = [f[s] EXCEPT !.elapsed = TRUE]]
      BY <1>1, <2>1 DEF IntervalElapses
    <3> QED BY <3>1, AccountExcept
  <2>2. CASE ChainCancel(s)
    <3>1. chain' = [f EXCEPT ![s] = [f[s] EXCEPT !.active = FALSE]]
      BY <1>1, <2>2 DEF ChainCancel
    <3> QED BY <3>1, AccountExcept
  <2> QED BY <2>1, <2>2
<1>3. chain' \in [Subs -> Account] /\ \A x \in Subs : chain'[x].count = chain[x].count
  BY <1>1, <1>2
<1>4. UNCHANGED <<subRow, rows, job, Budgets>>
  BY DEF IntervalElapses, ChainCancel
<1>5. TypeOK'
  BY <1>3, <1>4 DEF TypeOK, Budgets
<1> QED BY <1>3, <1>4, <1>5, SameRows

LEMMA SubRowStep ==
    ASSUME TypeOK, RowsOK, NEW s \in Subs, MirrorAccount(s) \/ StampMillis(s) \/ Deactivate(s)
    PROVE  TypeOK' /\ RowsOK'
<1>1. UNCHANGED <<chain, rows, job, Budgets>>
  BY DEF MirrorAccount, StampMillis, Deactivate
<1>2. PICK f \in [Subs -> SubRow] : f = subRow
  BY DEF TypeOK
<1>3. PICK r \in SubRow : subRow' = [f EXCEPT ![s] = r]
  <2>1. CASE MirrorAccount(s)
    <3>1. PICK a \in BOOLEAN, k \in Nat : a = chain[s].active /\ k = chain[s].count
      BY AccountTyped DEF Account
    <3>2. [active |-> a, last |-> k, millis |-> FALSE] \in SubRow
      BY SubRowIs
    <3> QED BY <1>2, <2>1, <3>1, <3>2 DEF MirrorAccount
  <2>2. CASE StampMillis(s)
    <3>1. chain[s].count \in Nat
      BY AccountTyped
    <3>2. subRow' = [f EXCEPT ![s] = [f[s] EXCEPT !.last = chain[s].count, !.millis = TRUE]]
      BY <1>2, <2>2 DEF StampMillis
    <3> QED BY <3>1, <3>2, SubRowExcept
  <2>3. CASE Deactivate(s)
    <3>1. subRow' = [f EXCEPT ![s] = [f[s] EXCEPT !.active = FALSE]]
      BY <1>2, <2>3 DEF Deactivate
    <3> QED BY <3>1, SubRowExcept
  <2> QED BY <2>1, <2>2, <2>3
<1>4. subRow' \in [Subs -> SubRow]
  BY <1>3
<1>5. TypeOK'
  BY <1>1, <1>4 DEF TypeOK, Budgets
<1> QED BY <1>1, <1>5, SameRows

(* A row changes in its time, or stops being open.                         *)
LEMMA RowsTouched ==
    ASSUME TypeOK, RowsOK, UNCHANGED <<chain, subRow, job>>,
           rows' \in Seq(PaymentRow), DOMAIN rows' = DOMAIN rows,
           \A i \in DOMAIN rows :
              /\ rows'[i].sub = rows[i].sub /\ rows'[i].retries = rows[i].retries
              /\ rows'[i].runs = rows[i].runs /\ rows'[i].payment = rows[i].payment
              /\ \/ rows'[i].status = rows[i].status
                 \/ rows'[i].status \notin {"pending", "processing"}
              /\ job.pc \in Executing /\ job.row = i /\ rows[i].status = "completed"
                    => rows'[i].status = "completed"
    PROVE  RowsOK'
<1>1. job.pc \in Executing => job.row \in DOMAIN rows
  BY DEF TypeOK
<1>2. LiveOK'
  BY DEF RowsOK, LiveOK, Live, Waiting, Running
<1>3. RunsOK'
  BY DEF RowsOK, RunsOK, Waiting, Running
<1>4. PaidOK'
  BY <1>1 DEF RowsOK, PaidOK, CompletedDistinct, Sub, Executing, PCs
<1> QED BY <1>2, <1>3, <1>4 DEF RowsOK

LEMMA DelayStep ==
    ASSUME TypeOK, RowsOK, NEW i \in DOMAIN rows, DelayElapses(i) \/ CleanupOldPayments(i)
    PROVE  TypeOK' /\ RowsOK'
<1>1. UNCHANGED <<chain, subRow, job, Budgets>>
  BY DEF DelayElapses, CleanupOldPayments
<1>2. PICK row \in PaymentRow : row = rows[i]
  BY RowTyped
<1>3. PICK r \in PaymentRow :
         /\ rows' = [rows EXCEPT ![i] = r]
         /\ r.sub = row.sub /\ r.retries = row.retries /\ r.runs = row.runs
         /\ r.payment = row.payment
         /\ r.status = row.status \/ r.status \notin {"pending", "processing"}
         /\ job.pc \in Executing /\ job.row = i /\ row.status = "completed"
               => r.status = "completed"
  <2>1. CASE DelayElapses(i)
    <3>1. [row EXCEPT !.at = "past"] \in PaymentRow
      BY DEF PaymentRow, Times
    <3> QED BY <1>2, <2>1, <3>1 DEF DelayElapses, PaymentRow
  <2>2. CASE CleanupOldPayments(i)
    <3>1. [row EXCEPT !.status = "deleted"] \in PaymentRow
      BY DEF PaymentRow, Statuses
    <3> QED BY <1>2, <2>2, <3>1 DEF CleanupOldPayments, PaymentRow
  <2> QED BY <2>1, <2>2
<1>4. rows \in Seq(PaymentRow)
  BY DEF TypeOK
<1>5. rows' \in Seq(PaymentRow) /\ DOMAIN rows' = DOMAIN rows
      /\ rows'[i] = r /\ \A x \in DOMAIN rows : x # i => rows'[x] = rows[x]
  BY <1>3, <1>4
<1>6. TypeOK'
  BY <1>1, <1>5 DEF TypeOK, Budgets
<1> QED BY <1>1, <1>2, <1>3, <1>5, <1>6, RowsTouched

LEMMA CancelStep ==
    ASSUME TypeOK, RowsOK, NEW s \in Subs, CancelScheduledPayments(s)
    PROVE  TypeOK' /\ RowsOK'
<1>1. UNCHANGED <<chain, subRow, job, faults, crashes>> /\ cancels' \in 0..MaxCancels
  BY BoundsNatural DEF CancelScheduledPayments, TypeOK
<1>2. rows \in Seq(PaymentRow)
  BY DEF TypeOK
<1>3. \A row \in PaymentRow : /\ [row EXCEPT !.status = "cancelled"] \in PaymentRow
                              /\ [row EXCEPT !.status = "cancelled"].status = "cancelled"
                              /\ [row EXCEPT !.status = "cancelled"].sub = row.sub
                              /\ [row EXCEPT !.status = "cancelled"].retries = row.retries
                              /\ [row EXCEPT !.status = "cancelled"].runs = row.runs
                              /\ [row EXCEPT !.status = "cancelled"].payment = row.payment
  BY DEF PaymentRow, Statuses
<1>4. rows' = [i \in DOMAIN rows |->
                  IF rows[i].sub = s /\ rows[i].status = "pending"
                  THEN [rows[i] EXCEPT !.status = "cancelled"] ELSE rows[i]]
  BY DEF CancelScheduledPayments
<1>5. rows' \in Seq(PaymentRow) /\ DOMAIN rows' = DOMAIN rows
  <2>1. DOMAIN rows = 1..Len(rows) /\ Len(rows) \in Nat /\ \A i \in DOMAIN rows : rows[i] \in PaymentRow
    BY <1>2
  <2>2. rows' \in [1..Len(rows) -> PaymentRow]
    BY <1>3, <1>4, <2>1
  <2> QED BY <1>4, <2>1, <2>2
<1>6. \A i \in DOMAIN rows :
         /\ rows'[i].sub = rows[i].sub /\ rows'[i].retries = rows[i].retries
         /\ rows'[i].runs = rows[i].runs /\ rows'[i].payment = rows[i].payment
         /\ rows'[i].status = rows[i].status
               \/ (rows[i].status = "pending" /\ rows'[i].status = "cancelled")
  BY <1>3, <1>4, RowTyped
<1>7. TypeOK'
  BY <1>1, <1>5 DEF TypeOK
<1>8. RowsOK'
  BY <1>1, <1>5, <1>6, RowsTouched
<1> QED BY <1>7, <1>8

-----------------------------------------------------------------------------
(* Steps of the job. *)

LEMMA PCsAre ==
    /\ Executing = {"mark", "findSub", "inactive", "verify", "send", "complete", "updateSub",
                    "findNext", "createNext", "notify", "catch", "notifyFailed"}
    /\ PCs = Executing \cup {"idle", "next"}
BY DEF Executing, PCs

LEMMA BatchStep ==
    ASSUME TypeOK, RowsOK, ProcessDuePayments \/ NextPayment \/ Crash
    PROVE  TypeOK' /\ RowsOK'
<1>1. UNCHANGED <<chain, subRow, rows, cancels, faults>> /\ crashes' \in 0..MaxCrashes
  <2>1. CASE ProcessDuePayments
    BY <2>1 DEF ProcessDuePayments, Budgets, TypeOK
  <2>2. CASE NextPayment
    BY <2>2 DEF NextPayment, Budgets, TypeOK
  <2>3. CASE Crash
    BY <2>3, BoundsNatural DEF Crash, TypeOK
  <2> QED BY <2>1, <2>2, <2>3
<1>2. rows \in Seq(PaymentRow) /\ DOMAIN rows \subseteq Nat
  BY DEF TypeOK
<1>3. /\ job' \in Job /\ job'.todo \subseteq DOMAIN rows
      /\ job'.pc \in Executing => job'.pc = "mark" /\ job'.row \in DOMAIN rows \ job'.todo
      /\ \A i \in DOMAIN rows : Waiting(i)' => Waiting(i) \/ rows[i].status = "pending"
  <2>1. CASE ProcessDuePayments
    <3>1. PICK B \in SUBSET Due : job' = [job EXCEPT !.pc = "next", !.todo = B]
      BY <2>1 DEF ProcessDuePayments
    <3>2. B \subseteq DOMAIN rows /\ \A i \in B : rows[i].status = "pending"
      BY DEF Due
    <3> QED BY <1>2, <3>1, <3>2, PCsAre DEF TypeOK, Job, Waiting
  <2>2. CASE NextPayment
    <3>1. CASE job.todo = {} /\ job' = Idle
      BY <3>1, IdleTyped, PCsAre DEF Waiting
    <3>2. ASSUME NEW i \in job.todo,
                 job' = [job EXCEPT !.pc = "mark", !.row = i, !.todo = @ \ {i}]
          PROVE  <1>3!1 /\ <1>3!2 /\ <1>3!3
      BY <1>2, <3>2, PCsAre DEF TypeOK, Job, Waiting
    <3> QED BY <2>2, <3>1, <3>2 DEF NextPayment
  <2>3. CASE Crash
    BY <2>3, IdleTyped, PCsAre DEF Crash, Waiting
  <2> QED BY <2>1, <2>2, <2>3
<1>4. TypeOK'
  BY <1>1, <1>3 DEF TypeOK
<1>5. \A i \in DOMAIN rows : ~Running(i)' /\ (Live(i)' => Live(i))
  BY <1>1, <1>3, PCsAre DEF Live, Running
<1>6. LiveOK'
  BY <1>1, <1>5 DEF RowsOK, LiveOK
<1>7. RunsOK'
  BY <1>1, <1>3, <1>5 DEF RowsOK, RunsOK
<1>8. PaidOK'
  BY <1>1, <1>3, PCsAre DEF RowsOK, PaidOK, CompletedDistinct
<1> QED BY <1>4, <1>6, <1>7, <1>8 DEF RowsOK

(* The job moves on; what it executes is Running at most if it was before. *)
LEMMA JobMoves ==
    ASSUME TypeOK, RowsOK, UNCHANGED rows, job.pc \in Executing,
           job' \in Job, job'.row = job.row, job'.todo = job.todo,
           \A s \in Subs : chain[s].count <= chain'[s].count /\ chain'[s].count \in Nat,
           job'.pc # "mark",
           job'.pc \in Executing \ {"notify", "notifyFailed"} =>
              job.pc \notin {"notify", "notifyFailed"},
           job'.pc = "complete" => chain'[Sub].count = chain[Sub].count + 1,
           job'.pc \in {"updateSub", "findNext", "createNext"} =>
              job.pc \in {"updateSub", "findNext"}
    PROVE  RowsOK' /\ job'.todo \subseteq DOMAIN rows'
           /\ (job'.pc \in Executing => job'.row \in DOMAIN rows' \ job'.todo)
<1>1. job.row \in DOMAIN rows /\ job.row \notin job.todo /\ job.todo \subseteq DOMAIN rows
  BY DEF TypeOK
<1>2. \A i \in DOMAIN rows : /\ Waiting(i)' => Waiting(i)
                             /\ Running(i)' => Running(i) \/ Waiting(i)
  BY PCsAre DEF Waiting, Running
<1>3. LiveOK'
  BY <1>2 DEF RowsOK, LiveOK, Live
<1>4. RunsOK'
  <2> SUFFICES ASSUME NEW i \in DOMAIN rows
               PROVE  /\ rows[i].runs <= MaxRetries
                      /\ rows[i].status = "pending" \/ Waiting(i)'
                            => rows[i].runs <= rows[i].retries /\ rows[i].retries < MaxRetries
                      /\ Running(i)'
                            => rows[i].runs <= rows[i].retries + 1 /\ rows[i].retries < MaxRetries
    BY DEF RunsOK
  <2>1. rows[i].runs \in Nat /\ rows[i].retries \in Nat
    BY RowTyped
  <2> QED BY <1>2, <2>1 DEF RowsOK, RunsOK
<1>5. \A i \in DOMAIN rows : /\ rows[i].sub \in Subs /\ rows[i].payment \in Nat
                             /\ chain[rows[i].sub].count \in Nat
                             /\ rows[i].payment <= chain[rows[i].sub].count
  BY RowTyped, AccountTyped DEF RowsOK, PaidOK, CompletedDistinct
<1>6. CompletedDistinct'
  BY <1>5 DEF RowsOK, PaidOK, CompletedDistinct
<1>7. Sub' = Sub /\ Sub \in Subs
  BY <1>1, <1>5 DEF Sub
<1>8. job'.pc = "complete" => \A i \in DOMAIN rows :
         rows[i].sub = Sub => rows[i].payment < chain'[Sub].count
  BY <1>5, <1>7
<1>9. PaidOK'
  BY <1>6, <1>7, <1>8 DEF RowsOK, PaidOK
<1> QED BY <1>1, <1>3, <1>4, <1>9 DEF RowsOK

LEMMA MoveStep ==
    ASSUME TypeOK, RowsOK,
           FindSub \/ Verify \/ UpdateSub \/ FindNext \/ Notify \/ NotifyFailed \/ StatementError
    PROVE  TypeOK' /\ RowsOK'
<1>1. job.pc \in Executing /\ UNCHANGED <<chain, rows, cancels, crashes>> /\ faults' \in 0..MaxFaults
  BY PCsAre, BoundsNatural DEF FindSub, Verify, UpdateSub, FindNext, Notify, NotifyFailed,
     StatementError, Budgets, TypeOK
<1>2. Sub \in Subs
  BY <1>1, RowTyped DEF Sub, TypeOK
<1>3. subRow' \in [Subs -> SubRow]
  <2>1. CASE UpdateSub
    <3>1. PICK f \in [Subs -> SubRow] : f = subRow
      BY DEF TypeOK
    <3>2. chain[Sub].count \in Nat
      BY <1>2, AccountTyped
    <3>3. subRow' = [f EXCEPT ![Sub] = [f[Sub] EXCEPT !.last = chain[Sub].count, !.millis = FALSE]]
      BY <2>1, <3>1 DEF UpdateSub
    <3> QED BY <1>2, <3>2, <3>3, SubRowExcept
  <2>2. CASE ~UpdateSub
    BY <2>2 DEF FindSub, Verify, FindNext, Notify, NotifyFailed, StatementError, TypeOK
  <2> QED BY <2>1, <2>2
<1>4. /\ job' \in Job /\ job'.row = job.row /\ job'.todo = job.todo
      /\ job'.pc \in (Executing \ {"mark", "complete"}) \cup {"next"}
      /\ job'.pc \in Executing \ {"notify", "notifyFailed"} =>
              job.pc \notin {"notify", "notifyFailed"}
      /\ job'.pc \in {"updateSub", "findNext", "createNext"} =>
              job.pc \in {"updateSub", "findNext"}
  <2>1. CASE FindSub
    <3>1. PICK copy \in SubRow : copy = subRow[Sub]
      BY <1>2, AccountTyped
    <3>2. PICK p \in {"verify", "inactive"} :
             job' = [job EXCEPT !.copy = copy, !.sends = 0, !.pc = p]
      BY <2>1, <3>1 DEF FindSub
    <3>3. job \in Job /\ p \in PCs
      BY PCsAre DEF TypeOK
    <3>4. /\ job' \in Job /\ job'.row = job.row /\ job'.todo = job.todo /\ job'.pc = p
      BY <3>2, <3>3 DEF Job
    <3> QED BY <2>1, <3>4, PCsAre DEF FindSub
  <2>2. CASE ~FindSub
    <3> DEFINE Ok(p) == /\ Goto(p)
                        /\ p \notin {"notify", "next"} => job.pc \notin {"notify", "notifyFailed"}
                        /\ p \in {"findNext", "createNext"} => job.pc \in {"updateSub", "findNext"}
    <3>1. ASSUME Verify PROVE \E p \in {"send", "catch", "findNext", "notify", "createNext", "next"} : Ok(p)
      BY <3>1 DEF Verify
    <3>2. ASSUME UpdateSub PROVE \E p \in {"send", "catch", "findNext", "notify", "createNext", "next"} : Ok(p)
      BY <3>2 DEF UpdateSub
    <3>3. ASSUME FindNext PROVE \E p \in {"send", "catch", "findNext", "notify", "createNext", "next"} : Ok(p)
      BY <3>3 DEF FindNext
    <3>4. ASSUME Notify \/ NotifyFailed PROVE \E p \in {"send", "catch", "findNext", "notify", "createNext", "next"} : Ok(p)
      BY <3>4 DEF Notify, NotifyFailed
    <3>5. ASSUME StatementError PROVE \E p \in {"send", "catch", "findNext", "notify", "createNext", "next"} : Ok(p)
      BY <3>5 DEF StatementError
    <3>6. \E p \in {"send", "catch", "findNext", "notify", "createNext", "next"} : Ok(p)
      BY <2>2, <3>1, <3>2, <3>3, <3>4, <3>5
    <3>7. PICK p \in {"send", "catch", "findNext", "notify", "createNext", "next"} : Ok(p)
      BY <3>6
    <3>8. p \in PCs
      BY <3>7, PCsAre
    <3>9. job' \in Job /\ job'.pc = p /\ job'.todo = job.todo /\ job'.row = job.row
      BY <3>7, <3>8, GotoEffect
    <3> QED BY <3>7, <3>9, PCsAre
  <2> QED BY <2>1, <2>2
<1>5. \A s \in Subs : chain[s].count <= chain'[s].count /\ chain'[s].count \in Nat
  BY <1>1, AccountTyped
<1>6. RowsOK' /\ job'.todo \subseteq DOMAIN rows'
      /\ (job'.pc \in Executing => job'.row \in DOMAIN rows' \ job'.todo)
  BY <1>1, <1>4, <1>5, JobMoves, PCsAre
<1> QED BY <1>1, <1>3, <1>4, <1>6 DEF TypeOK

LEMMA SendStep ==
    ASSUME TypeOK, RowsOK, Send
    PROVE  TypeOK' /\ RowsOK'
<1>1. job.pc = "send" /\ job.pc \in Executing /\ UNCHANGED <<subRow, rows, Budgets>>
  BY PCsAre DEF Send
<1>2. Sub \in Subs
  BY <1>1, RowTyped DEF Sub, TypeOK
<1>3. PICK f \in [Subs -> Account] : f = chain
  BY DEF TypeOK
<1>4. /\ chain' \in [Subs -> Account]
      /\ \A s \in Subs : chain[s].count <= chain'[s].count /\ chain'[s].count \in Nat
      /\ Charge(Sub) => chain'[Sub].count = chain[Sub].count + 1
  <2>1. CASE Charge(Sub)
    <3> DEFINE n == chain[Sub].count + 1
    <3>0. n \in Nat
      BY <1>2, AccountTyped
    <3>1. chain' = [f EXCEPT ![Sub] = [f[Sub] EXCEPT !.count = n, !.elapsed = FALSE]]
      BY <1>3, <2>1 DEF Charge
    <3>2. chain' \in [Subs -> Account] /\ chain'[Sub].count = chain[Sub].count + 1
      BY <1>2, <1>3, <3>0, <3>1, AccountCharged
    <3>3. \A s \in Subs : s # Sub => chain'[s] = chain[s]
      BY <1>3, <3>1
    <3> QED BY <3>2, <3>3, AccountTyped
  <2>2. CASE ~Charge(Sub)
    BY <1>3, <2>2, AccountTyped DEF Send
  <2> QED BY <2>1, <2>2
<1>5. PICK p \in {"complete", "send", "catch"} :
         job' = [job EXCEPT !.pc = p, !.sends = @ + 1] /\ (p = "complete" => Charge(Sub))
  BY DEF Send
<1>6. job' \in Job /\ job'.pc = p /\ job'.row = job.row /\ job'.todo = job.todo
  <2>1. job \in Job /\ p \in PCs
    BY PCsAre DEF TypeOK
  <2>2. job.sends + 1 \in Nat
    BY <2>1 DEF Job
  <2> QED BY <1>5, <2>1, <2>2 DEF Job
<1>7. RowsOK' /\ job'.todo \subseteq DOMAIN rows'
      /\ (job'.pc \in Executing => job'.row \in DOMAIN rows' \ job'.todo)
  BY <1>1, <1>4, <1>5, <1>6, JobMoves, PCsAre
<1> QED BY <1>1, <1>4, <1>6, <1>7 DEF TypeOK, Budgets

LEMMA RowExcept ==
    ASSUME NEW r \in PaymentRow, NEW st \in Statuses, NEW n \in Nat
    PROVE  /\ [r EXCEPT !.status = st, !.runs = n] \in PaymentRow
           /\ [r EXCEPT !.status = st] \in PaymentRow
           /\ [r EXCEPT !.status = st, !.payment = n] \in PaymentRow
           /\ \A t \in Times : [r EXCEPT !.retries = n, !.status = st, !.at = t] \in PaymentRow
BY DEF PaymentRow

(* The row being executed is replaced by r, and the job moves on.          *)
LEMMA WriteStep ==
    ASSUME TypeOK, RowsOK, job.pc \in Executing, UNCHANGED <<chain, subRow, Budgets>>,
           NEW row \in PaymentRow, row = rows[job.row],
           NEW r \in PaymentRow, SetRow(r), r.sub = row.sub,
           NEW p \in PCs \ {"mark", "complete"}, Goto(p),
           r.status \in {"pending", "processing"}
                 \/ p \in Executing \ {"notify", "notifyFailed"} => Live(job.row),
           r.runs <= MaxRetries,
           r.status = "pending" => r.runs <= r.retries /\ r.retries < MaxRetries,
           p \in Executing \ {"notify", "notifyFailed"} =>
              r.runs <= r.retries + 1 /\ r.retries < MaxRetries,
           r.payment = row.payment \/ (job.pc = "complete" /\ r.payment = chain[Sub].count),
           p \in {"updateSub", "findNext", "createNext"} => r.status = "completed"
    PROVE  TypeOK' /\ RowsOK'
<1>1. /\ job.row \in DOMAIN rows
      /\ rows' \in Seq(PaymentRow) /\ DOMAIN rows' = DOMAIN rows
      /\ rows'[job.row] = r
      /\ \A i \in DOMAIN rows : i # job.row => rows'[i] = rows[i]
  BY SetRowEffect
<1>2. job' \in Job /\ job'.pc = p /\ job'.todo = job.todo /\ job'.row = job.row
  BY GotoEffect
<1>3. job.row \notin job.todo
  BY DEF TypeOK
<1>4. TypeOK'
  BY <1>1, <1>2, <1>3 DEF TypeOK, Budgets
<1>5. \A i \in DOMAIN rows :
         /\ rows'[i].sub = rows[i].sub
         /\ i # job.row => ~Running(i)' /\ (Waiting(i)' => Waiting(i))
         /\ i = job.row => ~Waiting(i)' /\ (Running(i)' <=> p \in Executing \ {"notify", "notifyFailed"})
  BY <1>1, <1>2, <1>3, PCsAre DEF Waiting, Running
<1>6. LiveOK'
  <2>1. \A i \in DOMAIN rows : Live(i)' => Live(i)
    BY <1>1, <1>5 DEF Live
  <2> QED BY <1>1, <1>5, <2>1 DEF RowsOK, LiveOK
<1>7. RunsOK'
  <2> SUFFICES ASSUME NEW i \in DOMAIN rows
               PROVE  /\ rows'[i].runs <= MaxRetries
                      /\ rows'[i].status = "pending" \/ Waiting(i)'
                            => rows'[i].runs <= rows'[i].retries /\ rows'[i].retries < MaxRetries
                      /\ Running(i)' => /\ rows'[i].runs <= rows'[i].retries + 1
                                       /\ rows'[i].retries < MaxRetries
    BY <1>1 DEF RunsOK
  <2>1. CASE i = job.row
    BY <1>1, <1>5, <2>1
  <2>2. CASE i # job.row
    BY <1>1, <1>5, <2>2 DEF RowsOK, RunsOK
  <2> QED BY <2>1, <2>2
<1>8. CompletedDistinct'
  <2>1. CASE r.payment = row.payment
    <3>1. \A i \in DOMAIN rows : rows'[i].payment = rows[i].payment
      BY <1>1, <2>1
    <3> QED BY <1>1, <1>5, <3>1 DEF RowsOK, PaidOK, CompletedDistinct
  <2>2. CASE job.pc = "complete" /\ r.payment = chain[Sub].count
    <3>1. /\ \A i \in DOMAIN rows : rows[i].sub = Sub => rows[i].payment < chain[Sub].count
          /\ CompletedDistinct
      BY <2>2 DEF RowsOK, PaidOK
    <3>2. \A i \in DOMAIN rows : rows[i].payment \in Nat
      BY RowTyped
    <3>3. chain[Sub].count \in Nat
      BY <1>1, RowTyped, AccountTyped DEF Sub
    <3> DEFINE k == chain[Sub].count
    <3>4. /\ rows'[job.row].payment = k /\ rows[job.row].sub = Sub
          /\ \A i \in DOMAIN rows : i # job.row => rows'[i].payment = rows[i].payment
          /\ \A i \in DOMAIN rows : rows[i].sub = Sub => rows[i].payment # k
      BY <1>1, <2>2, <3>1, <3>2, <3>3 DEF Sub
    <3>5. \A i \in DOMAIN rows' : rows'[i].payment <= chain'[rows'[i].sub].count
      BY <1>1, <1>5, <3>1, <3>3, <3>4 DEF CompletedDistinct
    <3>6. ASSUME NEW i \in DOMAIN rows', NEW j \in DOMAIN rows', i # j,
                 rows'[i].sub = rows'[j].sub, rows'[i].payment = rows'[j].payment
          PROVE  rows'[i].payment = 0
      <4>1. rows[i].sub = rows[j].sub /\ i \in DOMAIN rows /\ j \in DOMAIN rows
        BY <1>1, <1>5, <3>6
      <4>2. i # job.row /\ j # job.row
        BY <3>4, <3>6, <4>1
      <4> QED BY <3>1, <3>4, <3>6, <4>1, <4>2 DEF CompletedDistinct
    <3> QED BY <3>5, <3>6 DEF CompletedDistinct
  <2> QED BY <2>1, <2>2
<1>9. PaidOK'
  BY <1>1, <1>2, <1>8 DEF PaidOK
<1> QED BY <1>4, <1>6, <1>7, <1>9 DEF RowsOK

LEMMA MarkStep ==
    ASSUME TypeOK, RowsOK, MarkProcessing
    PROVE  TypeOK' /\ RowsOK'
<1>1. /\ job.pc = "mark" /\ job.pc \in Executing /\ UNCHANGED <<chain, subRow, Budgets>>
      /\ Goto("findSub") /\ "findSub" \in PCs
  BY PCsAre DEF MarkProcessing
<1>2. PICK row \in PaymentRow : row = rows[job.row] /\ row.runs \in Nat /\ row.retries \in Nat
  BY <1>1, RowTyped DEF TypeOK
<1> DEFINE r == [row EXCEPT !.status = "processing", !.runs = row.runs + 1]
<1>3. SetRow(r) /\ r \in PaymentRow
  <2>1. "processing" \in Statuses /\ row.runs + 1 \in Nat
    BY <1>2 DEF Statuses
  <2> QED BY <1>2, <2>1, RowExcept DEF MarkProcessing, SetRow
<1>4. /\ r.status = "processing" /\ r.runs = row.runs + 1 /\ r.sub = row.sub
      /\ r.retries = row.retries /\ r.payment = row.payment
  BY DEF PaymentRow
<1>5. Waiting(job.row) /\ job.row \in DOMAIN rows
  BY <1>1 DEF Waiting, TypeOK
<1>6. row.runs <= row.retries /\ row.retries < MaxRetries
  BY <1>2, <1>5 DEF RowsOK, RunsOK
<1>7. MaxRetries \in Nat /\ Live(job.row)
  BY <1>5, LimitsPositive DEF Live
<1> HIDE DEF r
<1> QED BY <1>1, <1>2, <1>3, <1>4, <1>6, <1>7, WriteStep

LEMMA FailInactiveStep ==
    ASSUME TypeOK, RowsOK, FailInactive
    PROVE  TypeOK' /\ RowsOK'
<1>1. /\ job.pc = "inactive" /\ job.pc \in Executing /\ UNCHANGED <<chain, subRow, Budgets>>
      /\ Goto("next") /\ "next" \in PCs /\ "next" \notin Executing
  BY PCsAre DEF FailInactive
<1>2. PICK row \in PaymentRow : row = rows[job.row] /\ row.runs <= MaxRetries
  BY <1>1, RowTyped DEF TypeOK, RowsOK, RunsOK
<1> DEFINE r == [row EXCEPT !.status = "failed"]
<1>3. SetRow(r) /\ r \in PaymentRow
  BY <1>2 DEF FailInactive, SetRow, PaymentRow, Statuses
<1>4. /\ r.status = "failed" /\ r.runs = row.runs /\ r.sub = row.sub /\ r.payment = row.payment
  BY DEF PaymentRow
<1> HIDE DEF r
<1> QED BY <1>1, <1>2, <1>3, <1>4, WriteStep

LEMMA CompleteStep ==
    ASSUME TypeOK, RowsOK, Complete
    PROVE  TypeOK' /\ RowsOK'
<1>1. /\ job.pc = "complete" /\ job.pc \in Executing /\ UNCHANGED <<chain, subRow, Budgets>>
      /\ Goto("updateSub") /\ "updateSub" \in PCs
  BY PCsAre DEF Complete
<1>2. PICK row \in PaymentRow : row = rows[job.row]
  BY <1>1, RowTyped DEF TypeOK
<1>3. chain[Sub].count \in Nat
  BY <1>1, RowTyped, AccountTyped DEF Sub, TypeOK
<1>4. PICK n \in Nat : n = chain[Sub].count
  BY <1>3
<1> DEFINE r == [row EXCEPT !.status = "completed", !.payment = n]
<1>5. SetRow(r) /\ r \in PaymentRow
  <2>1. "completed" \in Statuses
    BY DEF Statuses
  <2> QED BY <1>2, <1>4, <2>1, RowExcept DEF Complete, SetRow
<1>6. /\ r.status = "completed" /\ r.runs = row.runs /\ r.sub = row.sub
      /\ r.retries = row.retries /\ r.payment = n
  BY DEF PaymentRow
<1>7. Running(job.row) /\ Live(job.row) /\ job.row \in DOMAIN rows
  BY <1>1 DEF Running, Live, TypeOK
<1>8. row.runs <= MaxRetries /\ row.runs <= row.retries + 1 /\ row.retries < MaxRetries
  BY <1>2, <1>7 DEF RowsOK, RunsOK
<1> HIDE DEF r
<1> QED BY <1>1, <1>2, <1>4, <1>5, <1>6, <1>7, <1>8, WriteStep

LEMMA CatchStep ==
    ASSUME TypeOK, RowsOK, Catch
    PROVE  TypeOK' /\ RowsOK'
<1>1. job.pc = "catch" /\ job.pc \in Executing /\ UNCHANGED <<chain, subRow, Budgets>>
  BY PCsAre DEF Catch
<1>2. PICK row \in PaymentRow : /\ row = rows[job.row] /\ row.retries \in Nat
                                /\ row.runs \in Nat /\ row.at \in Times
  BY <1>1, RowTyped DEF TypeOK, PaymentRow
<1>3. Running(job.row) /\ Live(job.row) /\ job.row \in DOMAIN rows
  BY <1>1 DEF Running, Live, TypeOK
<1>4. row.runs <= MaxRetries /\ row.runs <= row.retries + 1
  BY <1>2, <1>3 DEF RowsOK, RunsOK
<1> DEFINE n == row.retries + 1
           again == n < MaxRetries
<1>5. PICK st \in {"pending", "failed"}, t \in Times, p \in {"next", "notifyFailed"} :
         /\ st = IF again THEN "pending" ELSE "failed"
         /\ t = IF again THEN "delay" ELSE row.at
         /\ p = IF again THEN "next" ELSE "notifyFailed"
  BY <1>2 DEF Times
<1> DEFINE r == [row EXCEPT !.retries = n, !.status = st, !.at = t]
<1>6. SetRow(r) /\ Goto(p)
  BY <1>2, <1>5 DEF Catch, SetRow
<1>7. r \in PaymentRow
  <2>1. st \in Statuses /\ n \in Nat
    BY <1>2, <1>5 DEF Statuses
  <2> QED BY <2>1, RowExcept
<1>8. /\ r.status = st /\ r.runs = row.runs /\ r.sub = row.sub
      /\ r.retries = n /\ r.payment = row.payment
  BY DEF PaymentRow
<1>9. p \in PCs \ {"mark", "complete"} /\ p \notin Executing \ {"notify", "notifyFailed"}
  BY PCsAre
<1>10. st = "pending" => n < MaxRetries
  BY <1>5
<1> HIDE DEF r
<1> QED BY <1>1, <1>2, <1>3, <1>4, <1>6, <1>7, <1>8, <1>9, <1>10, WriteStep

(* The follow-up is the last row; the row just executed is live no more.   *)
LEMMA CreateNextStep ==
    ASSUME TypeOK, RowsOK, CreateNext
    PROVE  TypeOK' /\ RowsOK'
<1>1. /\ job.pc = "createNext" /\ job.pc \in Executing /\ UNCHANGED <<chain, subRow, Budgets>>
      /\ Goto("notify") /\ "notify" \in PCs
  BY PCsAre DEF CreateNext
<1>2. job.row \in DOMAIN rows /\ job.row \notin job.todo /\ rows \in Seq(PaymentRow)
  BY <1>1 DEF TypeOK
<1>3. Sub \in Subs /\ job.copy \in SubRow
  BY <1>2, RowTyped DEF Sub, TypeOK, Job
<1>4. PICK r \in PaymentRow : /\ rows' = Append(rows, r)
                              /\ r.sub = Sub /\ r.status = "pending"
                              /\ r.retries = 0 /\ r.runs = 0 /\ r.payment = 0
  BY <1>3, NextRowIs DEF CreateNext
<1> DEFINE last == Len(rows) + 1
<1>5. /\ rows' \in Seq(PaymentRow) /\ DOMAIN rows' = DOMAIN rows \cup {last}
      /\ last \notin DOMAIN rows /\ rows'[last] = r
      /\ \A i \in DOMAIN rows : rows'[i] = rows[i]
  BY <1>2, <1>4
<1>6. job' \in Job /\ job'.pc = "notify" /\ job'.todo = job.todo /\ job'.row = job.row
  BY <1>1, GotoEffect
<1>7. TypeOK'
  BY <1>1, <1>2, <1>5, <1>6 DEF TypeOK, Budgets
<1>8. \A i \in DOMAIN rows' : ~Running(i)' /\ (Waiting(i)' => i \in DOMAIN rows /\ Waiting(i))
  BY <1>6 DEF Running, Waiting, TypeOK
<1>9. LiveOK'
  <2>1. Live(job.row) /\ ~Live(job.row)'
    BY <1>1, <1>2, <1>5, <1>6 DEF Live, Running, Waiting, RowsOK, PaidOK
  <2>2. \A i \in DOMAIN rows : Live(i)' => Live(i) /\ i # job.row
    BY <1>5, <1>6, <1>8, <2>1 DEF Live
  <2>3. \A i \in DOMAIN rows : Live(i)' => rows'[i].sub # Sub
    BY <1>2, <1>5, <2>1, <2>2 DEF RowsOK, LiveOK, Sub
  <2> QED BY <1>4, <1>5, <2>2, <2>3 DEF RowsOK, LiveOK
<1>10. RunsOK'
  BY <1>4, <1>5, <1>8, LimitsPositive DEF RowsOK, RunsOK
<1>11. PaidOK'
  <2>1. chain[Sub].count \in Nat
    BY <1>3, AccountTyped
  <2> QED BY <1>1, <1>4, <1>5, <1>6, <2>1 DEF RowsOK, PaidOK, CompletedDistinct
<1> QED BY <1>7, <1>9, <1>10, <1>11 DEF RowsOK

-----------------------------------------------------------------------------
LEMMA NextOK == TypeOK /\ RowsOK /\ [Next]_vars => TypeOK' /\ RowsOK'
<1> SUFFICES ASSUME TypeOK, RowsOK, [Next]_vars PROVE TypeOK' /\ RowsOK'
  OBVIOUS
<1>1. CASE ProcessDuePayments \/ NextPayment \/ Crash
  BY <1>1, BatchStep
<1>2. CASE FindSub \/ Verify \/ UpdateSub \/ FindNext \/ Notify \/ NotifyFailed \/ StatementError
  BY <1>2, MoveStep
<1>3. CASE MarkProcessing \/ FailInactive \/ Send \/ Complete \/ CreateNext \/ Catch
  BY <1>3, MarkStep, FailInactiveStep, SendStep, CompleteStep, CreateNextStep, CatchStep
<1>4. CASE Environment
  <2>1. ASSUME NEW s \in Subs, IntervalElapses(s) \/ ChainCancel(s)
        PROVE  TypeOK' /\ RowsOK'
    BY <2>1, ChainStep
  <2>2. ASSUME NEW s \in Subs, MirrorAccount(s) \/ StampMillis(s) \/ Deactivate(s)
        PROVE  TypeOK' /\ RowsOK'
    BY <2>2, SubRowStep
  <2>3. ASSUME NEW s \in Subs, CancelScheduledPayments(s)
        PROVE  TypeOK' /\ RowsOK'
    BY <2>3, CancelStep
  <2>4. ASSUME NEW i \in DOMAIN rows, DelayElapses(i) \/ CleanupOldPayments(i)
        PROVE  TypeOK' /\ RowsOK'
    BY <2>4, DelayStep
  <2> QED BY <1>4, <2>1, <2>2, <2>3, <2>4 DEF Environment
<1>5. CASE UNCHANGED vars
  <2>1. UNCHANGED <<chain, subRow, rows, job, cancels, faults, crashes>>
    BY <1>5 DEF vars, Budgets
  <2>2. TypeOK'
    BY <2>1 DEF TypeOK
  <2> QED BY <2>1, <2>2, SameRows
<1> QED BY <1>1, <1>2, <1>3, <1>4, <1>5 DEF Next, Execution

(* The types, and what every reachable table of payments satisfies.        *)
THEOREM PaymentRowsInvariant == Spec => [](TypeOK /\ RowsOK)
<1> QED BY InitOK, NextOK, PTL DEF Spec

(* A subscription never has two open rows.                                 *)
THEOREM OneRowIsOpen == Spec => []OneOpenRow
<1>1. RowsOK => OneOpenRow
  BY DEF RowsOK, LiveOK, Live, OneOpenRow
<1> QED BY <1>1, PaymentRowsInvariant, PTL

(* No row is executed more often than MAX_RETRIES allows.                  *)
THEOREM ExecutionsAreBounded == Spec => []ExecutionsBounded
<1>1. RowsOK => ExecutionsBounded
  BY DEF RowsOK, RunsOK, ExecutionsBounded
<1> QED BY <1>1, PaymentRowsInvariant, PTL

(* No two rows of a subscription are completed by one payment.             *)
THEOREM CompletedAreDistinct == Spec => []CompletedDistinct
<1>1. RowsOK => CompletedDistinct
  BY DEF RowsOK, PaidOK
<1> QED BY <1>1, PaymentRowsInvariant, PTL

(* The payment rows, the subscription rows and the job keep their types:   *)
(* the row a job executes and the ones it still has to take exist          *)
(* (processDuePayments, executePayment).                                   *)
THEOREM TypeCorrect == Spec => []TypeOK
<1> QED BY PaymentRowsInvariant, PTL
=============================================================================
