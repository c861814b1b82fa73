-------------------------- MODULE WebhookDelivery --------------------------
(***************************************************************************)
(* Webhook delivery for one merchant.  An event starts one delivery for    *)
(* every endpoint that listens for it; the deliveries run concurrently,    *)
(* each an asynchronous function with a step for every await: create the   *)
(* log row, post, update the log row, update the endpoint's counters, and  *)
(* after an error write both again and set a timer for the next attempt.   *)
(* Each attempt has a log row of its own.  The endpoint a delivery carries *)
(* is the row it read at the start; meanwhile the merchant may edit or     *)
(* delete it.  An exception out of an attempt that a timer started has no  *)
(* handler and ends the process, and with it every delivery and timer.     *)
(***************************************************************************)
EXTENDS Integers, Sequences, FiniteSets

CONSTANTS
    Events,         \* the calls of sendWebhook
    Endpoints,      \* the ids of webhookEndpoint rows
    InitEndpoints,  \* those that exist from the start
    Absent,         \* no such row yet
    Deleted,        \* the row is gone; an id is never used again
    MaxPosts,       \* bound: from this attempt on the receiver always answers
    MaxEdits,       \* bound: what the merchant does to the endpoints
    MaxFaults,      \* bound: database statements that fail
    MaxCrashes      \* bound: crashes other than those of a timer

ASSUME EndpointsInitial == InitEndpoints \subseteq Endpoints
ASSUME BoundsNatural == /\ MaxPosts \in Nat /\ MaxEdits \in Nat
                        /\ MaxFaults \in Nat /\ MaxCrashes \in Nat

VARIABLES
    endpoint,   \* the webhookEndpoint rows: active for the events, counters
    sent,       \* the events whose sendWebhook ran
    pc,         \* where each delivery stands
    snap,       \* the counters in the endpoint row a delivery carries
    logs,       \* the webhookLog rows of a delivery, one per attempt
    waits,      \* the entries of delays that its retries waited for
    edits, faults, crashes

vars == <<endpoint, sent, pc, snap, logs, waits, edits, faults, crashes>>
Budgets == <<edits, faults, crashes>>

Deliveries == Events \X Endpoints
EndpointOf(d) == d[2]

Counters == [ok : Nat, bad : Nat]
Row == [listens : BOOLEAN, ok : Nat, bad : Nat]
PCs == {"idle", "create", "post", "log", "stats", "logBad", "statsBad",
        "retry", "timer", "done", "lost"}
Running == PCs \ {"idle", "done", "lost"}

(* A log row, and with it what its attempt met: an answer of 2xx (ok), any *)
(* other below 500 (refused), or an error, an answer from 500 or a timeout.*)
Log == [status : {"pending", "success", "failed"}, retryCount : Nat,
        reply : {"none", "ok", "refused", "error"}]

NewRow == [listens |-> TRUE, ok |-> 0, bad |-> 0]
NewLog == [status |-> "pending", retryCount |-> 0, reply |-> "none"]

Exists(e) == endpoint[e] \notin {Absent, Deleted}
Attempt(d) == Len(logs[d])
LastLog(d) == logs[d][Attempt(d)]

(* Types of the variables; a delivery between its first log row and its    *)
(* outcome has a row, and no delay is looked up past the end of delays.    *)
TypeOK ==
    /\ endpoint \in [Endpoints -> Row \cup {Absent, Deleted}]
    /\ sent \subseteq Events
    /\ pc \in [Deliveries -> PCs]
    /\ snap \in [Deliveries -> Counters]
    /\ logs \in [Deliveries -> Seq(Log)]
    /\ waits \in [Deliveries -> Seq(1..3)]
    /\ \A d \in Deliveries : pc[d] \in Running \ {"create"} => logs[d] # <<>>
    /\ edits \in 0..MaxEdits /\ faults \in 0..MaxFaults /\ crashes \in 0..MaxCrashes

Init ==
    /\ endpoint = [e \in Endpoints |-> IF e \in InitEndpoints THEN NewRow ELSE Absent]
    /\ sent = {}
    /\ pc = [d \in Deliveries |-> "idle"]
    /\ snap = [d \in Deliveries |-> [ok |-> 0, bad |-> 0]]
    /\ logs = [d \in Deliveries |-> <<>>]
    /\ waits = [d \in Deliveries |-> <<>>]
    /\ edits = 0 /\ faults = 0 /\ crashes = 0

-----------------------------------------------------------------------------
(* The merchant's requests. *)

Edit == edits < MaxEdits /\ edits' = edits + 1
        /\ UNCHANGED <<sent, pc, snap, logs, waits, faults, crashes>>

CreateEndpoint(e) ==
    /\ endpoint[e] = Absent
    /\ endpoint' = [endpoint EXCEPT ![e] = NewRow]
    /\ Edit

(* isActive and events: whether the row is chosen for the events here.     *)
UpdateEndpoint(e) ==
    /\ Exists(e)
    /\ endpoint' = [endpoint EXCEPT ![e].listens = ~@]
    /\ Edit

DeleteEndpoint(e) ==
    /\ Exists(e)
    /\ endpoint' = [endpoint EXCEPT ![e] = Deleted]
    /\ Edit

-----------------------------------------------------------------------------
(* sendWebhook: one read of the endpoints, then a delivery for each. *)

Listening == {e \in Endpoints : Exists(e) /\ endpoint[e].listens}

SendWebhook(n) ==
    /\ n \notin sent
    /\ sent' = sent \cup {n}
    /\ pc' = [d \in Deliveries |->
                 IF d[1] = n /\ d[2] \in Listening THEN "create" ELSE pc[d]]
    /\ snap' = [d \in Deliveries |->
                 IF d[1] = n /\ d[2] \in Listening
                 THEN [ok |-> endpoint[d[2]].ok, bad |-> endpoint[d[2]].bad]
                 ELSE snap[d]]
    /\ UNCHANGED <<endpoint, logs, waits, Budgets>>

(* Its read fails: the event goes to nobody.                               *)
SendWebhookError(n) ==
    /\ n \notin sent
    /\ sent' = sent \cup {n}
    /\ faults < MaxFaults /\ faults' = faults + 1
    /\ UNCHANGED <<endpoint, pc, snap, logs, waits, edits, crashes>>

-----------------------------------------------------------------------------
(* deliverWebhook, one step per await. *)

Goto(d, p) == pc' = [pc EXCEPT ![d] = p]
UpdateLog(d, row) == logs' = [logs EXCEPT ![d][Attempt(d)] = row]

(* The process ends: deliveries and timers with it.                        *)
Dead == [d \in Deliveries |-> IF pc[d] \in Running THEN "lost" ELSE pc[d]]

(* An exception leaves the attempt.  The first one's reaches the caller of *)
(* sendWebhook; a retry's reaches nobody and ends the process.             *)
Reject(d) == IF waits[d] = <<>> THEN Goto(d, "lost") ELSE pc' = Dead

(* Mutant: no row for the attempt before its post.                         *)
CreateLogLater(d) ==
    /\ pc[d] = "create"
    /\ Goto(d, "post")
    /\ UNCHANGED <<endpoint, sent, snap, logs, waits, Budgets>>

CreateLog(d) ==
    /\ pc[d] = "create"
    /\ logs' = [logs EXCEPT ![d] = Append(@, NewLog)]
    /\ Goto(d, "post")
    /\ UNCHANGED <<endpoint, sent, snap, waits, Budgets>>

Post(d) ==
    /\ pc[d] = "post"
    /\ \E reply \in {"ok", "refused", "error"} :
          /\ reply = "error" => Attempt(d) < MaxPosts
          /\ UpdateLog(d, [LastLog(d) EXCEPT !.reply = reply])
          /\ Goto(d, IF reply = "error" THEN "logBad" ELSE "log")
    /\ UNCHANGED <<endpoint, sent, snap, waits, Budgets>>

(* Mutant: every answer below 500 taken for a success.                     *)
WriteLogUnchecked(d) ==
    /\ pc[d] = "log"
    /\ UpdateLog(d, [LastLog(d) EXCEPT !.status = "success"])
    /\ Goto(d, "stats")
    /\ UNCHANGED <<endpoint, sent, snap, waits, Budgets>>

WriteLog(d) ==
    /\ pc[d] = "log"
    /\ UpdateLog(d, [LastLog(d) EXCEPT !.status =
                        IF LastLog(d).reply = "ok" THEN "success" ELSE "failed"])
    /\ Goto(d, "stats")
    /\ UNCHANGED <<endpoint, sent, snap, waits, Budgets>>

(* Mutant: the failure counter is incremented by successes as well.        *)
WriteStatsBoth(d) ==
    /\ pc[d] = "stats"
    /\ LET e == EndpointOf(d) IN
       IF Exists(e)
       THEN /\ endpoint' = [endpoint EXCEPT ![e].ok = @ + 1, ![e].bad = @ + 1]
            /\ Goto(d, "done")
       ELSE Goto(d, "logBad") /\ UNCHANGED endpoint
    /\ UNCHANGED <<sent, snap, logs, waits, Budgets>>

(* One counter is incremented in the database, the other is written back   *)
(* as it was when the event was sent.  Without a row the update throws.    *)
WriteStats(d) ==
    /\ pc[d] = "stats"
    /\ LET e == EndpointOf(d) IN
       \/ /\ Exists(e) /\ LastLog(d).reply = "ok"
          /\ endpoint' = [endpoint EXCEPT ![e].ok = @ + 1, ![e].bad = snap[d].bad]
          /\ Goto(d, "done")
       \/ /\ Exists(e) /\ LastLog(d).reply # "ok"
          /\ endpoint' = [endpoint EXCEPT ![e].ok = snap[d].ok, ![e].bad = @ + 1]
          /\ Goto(d, "done")
       \/ /\ ~Exists(e)
          /\ Goto(d, "logBad") /\ UNCHANGED endpoint
    /\ UNCHANGED <<sent, snap, logs, waits, Budgets>>

(* The catch block. *)
WriteLogBad(d) ==
    /\ pc[d] = "logBad"
    /\ UpdateLog(d, [LastLog(d) EXCEPT !.status = "failed"])
    /\ Goto(d, "statsBad")
    /\ UNCHANGED <<endpoint, sent, snap, waits, Budgets>>

WriteStatsBad(d) ==
    /\ pc[d] = "statsBad"
    /\ LET e == EndpointOf(d) IN
       \/ /\ Exists(e)
          /\ endpoint' = [endpoint EXCEPT ![e].bad = @ + 1]
          /\ Goto(d, "retry")
       \/ /\ ~Exists(e)
          /\ Reject(d) /\ UNCHANGED endpoint
    /\ UNCHANGED <<sent, snap, logs, waits, Budgets>>

(* Mutant: a retry is not retried.                                         *)
ScheduleRetryOnce(d) ==
    /\ pc[d] = "retry"
    /\ IF waits[d] = <<>>
       THEN /\ waits' = [waits EXCEPT ![d] = Append(@, LastLog(d).retryCount + 1)]
            /\ Goto(d, "timer")
       ELSE Goto(d, "done") /\ UNCHANGED waits
    /\ UNCHANGED <<endpoint, sent, snap, logs, Budgets>>

(* The delay is looked up by the retry count of this attempt's log row.    *)
ScheduleRetry(d) ==
    /\ pc[d] = "retry"
    /\ IF LastLog(d).retryCount < 3
       THEN /\ waits' = [waits EXCEPT ![d] = Append(@, LastLog(d).retryCount + 1)]
            /\ Goto(d, "timer")
       ELSE Goto(d, "done") /\ UNCHANGED waits
    /\ UNCHANGED <<endpoint, sent, snap, logs, Budgets>>

(* Mutant: the next attempt starts before the old row is settled.          *)
TimerFiresReopening(d) ==
    /\ pc[d] = "timer"
    /\ UpdateLog(d, [LastLog(d) EXCEPT !.retryCount = @ + 1, !.status = "pending"])
    /\ Goto(d, "create")
    /\ UNCHANGED <<endpoint, sent, snap, waits, Budgets>>

(* The timer counts the retry on the old log row and delivers again.       *)
TimerFires(d) ==
    /\ pc[d] = "timer"
    /\ UpdateLog(d, [LastLog(d) EXCEPT !.retryCount = @ + 1])
    /\ Goto(d, "create")
    /\ UNCHANGED <<endpoint, sent, snap, waits, Budgets>>

(* A statement fails: inside the try block the catch block runs, elsewhere *)
(* the exception leaves the attempt.                                       *)
StatementError(d) ==
    /\ pc[d] \in Running \ {"post"}
    /\ faults < MaxFaults /\ faults' = faults + 1
    /\ IF pc[d] \in {"log", "stats"} THEN Goto(d, "logBad")
       ELSE Reject(d)
    /\ UNCHANGED <<endpoint, sent, snap, logs, waits, edits, crashes>>

Crash ==
    /\ \E d \in Deliveries : pc[d] \in Running
    /\ crashes < MaxCrashes /\ crashes' = crashes + 1
    /\ pc' = Dead
    /\ UNCHANGED <<endpoint, sent, snap, logs, waits, edits, faults>>

-----------------------------------------------------------------------------
Deliver(d) ==
    \/ CreateLog(d) \/ Post(d) \/ WriteLog(d) \/ WriteStats(d)
    \/ WriteLogBad(d) \/ WriteStatsBad(d) \/ ScheduleRetry(d) \/ TimerFires(d)

Next ==
    \/ \E e \in Endpoints : CreateEndpoint(e) \/ UpdateEndpoint(e) \/ DeleteEndpoint(e)
    \/ \E n \in Events : SendWebhook(n) \/ SendWebhookError(n)
    \/ \E d \in Deliveries : Deliver(d) \/ StatementError(d)
    \/ Crash

Spec == Init /\ [][Next]_vars

(* The event loop runs the continuations, the post ends after ten seconds  *)
(* at the latest, and timers fire.                                         *)
FairSpec == Spec /\ \A d \in Deliveries : WF_vars(Deliver(d))
-----------------------------------------------------------------------------
(* Of the attempts of a delivery only the last may be open or successful:  *)
(* a retry starts only once its predecessor's row reads failed and was     *)
(* counted, so no event is delivered again after a logged success          *)
(* (deliverWebhook, scheduleRetry).                                        *)
EarlierFailed(d) ==
    /\ \A a \in 1..Attempt(d) : a < Attempt(d) =>
           logs[d][a].status = "failed" /\ logs[d][a].retryCount = 1
    /\ pc[d] = "create" /\ logs[d] # <<>> =>
           LastLog(d).status = "failed" /\ LastLog(d).retryCount = 1

RetriesFollowFailures == \A d \in Deliveries : EarlierFailed(d)

(* What RetriesFollowFailures rests on: the last log row of a delivery     *)
(* under way, by where the delivery stands.                                *)
LastLogOK(d) ==
    /\ pc[d] \in {"post", "log", "stats", "logBad", "statsBad", "retry", "timer"} =>
           LastLog(d).retryCount = 0
    /\ pc[d] \in {"statsBad", "retry", "timer"} => LastLog(d).status = "failed"
    /\ pc[d] = "idle" => logs[d] = <<>>
    /\ pc[d] # "idle" => d[1] \in sent

AttemptsOK == \A d \in Deliveries : EarlierFailed(d) /\ LastLogOK(d)

(* The counters of an endpoint never claim more than its log rows show,    *)
(* although every delivery writes one of them back from a copy that may be *)
(* older than other deliveries' increments: such a write only loses counts *)
(* (deliverWebhook, the update of webhookEndpoint).                        *)
LoggedAs(e, status) ==
    UNION {{<<n, a>> : a \in {b \in DOMAIN logs[<<n, e>>] : logs[<<n, e>>][b].status = status}}
              : n \in Events}

CountersBacked ==
    \A e \in Endpoints : Exists(e) =>
        /\ endpoint[e].ok <= Cardinality(LoggedAs(e, "success"))
        /\ endpoint[e].bad <= Cardinality(LoggedAs(e, "failed"))

(* What the counters and the contract rest on.  A row reads success only   *)
(* after an answer of 2xx, and no delivery posts twice for one row.  The   *)
(* rows of an endpoint that its counters may show are those whose attempt  *)
(* is over: a row written between the post and the update of the counters  *)
(* is not among them, since its status may yet be written again.  The      *)
(* copies that deliveries write back show no more than those rows either.  *)
AnswerOK(d) ==
    /\ \A a \in DOMAIN logs[d] : logs[d][a].status = "success" => logs[d][a].reply = "ok"
    /\ pc[d] = "post" => LastLog(d).reply = "none"
    /\ pc[d] = "stats" =>
           LastLog(d).status = IF LastLog(d).reply = "ok" THEN "success" ELSE "failed"

Uncounted == {"post", "log", "stats", "logBad", "statsBad"}

Counted(e, status) ==
    {p \in LoggedAs(e, status) :
        pc[<<p[1], e>>] \in Uncounted => p[2] # Attempt(<<p[1], e>>)}

Shows(counters, e) ==
    /\ counters.ok <= Cardinality(Counted(e, "success"))
    /\ counters.bad <= Cardinality(Counted(e, "failed"))

RecordsOK ==
    /\ \A d \in Deliveries : AnswerOK(d) /\ Shows(snap[d], EndpointOf(d))
    /\ \A e \in Endpoints : Exists(e) => Shows(endpoint[e], e)

(* Delivery keeps its contract: an outcome is final, delivered means the   *)
(* receiver accepted an attempt, and only a fault, a deleted endpoint or a *)
(* crash loses a delivery.                                                 *)
Status(d) ==
    CASE pc[d] \in Running -> "trying"
      [] pc[d] = "done" -> IF LastLog(d).status = "success" THEN "delivered" ELSE "refused"
      [] OTHER -> pc[d]

Answered(d) == {a \in DOMAIN logs[d] : logs[d][a].reply = "ok"}

StatusView == [d \in Deliveries |-> Status(d)]
AcceptedView == [d \in Deliveries |-> Cardinality(Answered(d))]

Contract == INSTANCE DeliveryContract WITH status <- StatusView, accepted <- AcceptedView

KeepsContract == Contract!Spec

(* A delivery to a receiver that recovers before its MaxPosts-th attempt   *)
(* ends with an answer of the receiver, unless the delivery is lost        *)
(* (scheduleRetry sets a timer after every error).                         *)
DeliveriesSettle ==
    \A d \in Deliveries :
        pc[d] = "create" ~> \/ pc[d] = "done" /\ LastLog(d).reply # "error"
                           \/ pc[d] = "lost"
=============================================================================
