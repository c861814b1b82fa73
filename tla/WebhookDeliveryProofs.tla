----------------------- MODULE WebhookDeliveryProofs -----------------------
(***************************************************************************)
(* For any number of events, endpoints, attempts, faults and crashes: the  *)
(* variables keep their types, a delivery is retried only after its        *)
(* previous attempt was logged as failed, the counters of an endpoint show *)
(* no more than its log rows, and delivery implements DeliveryContract.    *)
(***************************************************************************)
EXTENDS WebhookDelivery, TLAPS, FiniteSetTheorems

(* What an update of the last log row of a delivery leaves behind.         *)
LEMMA UpdateLogEffect ==
    ASSUME TypeOK, NEW d \in Deliveries, NEW row \in Log, logs[d] # <<>>, UpdateLog(d, row)
    PROVE  /\ logs' \in [Deliveries -> Seq(Log)]
           /\ Attempt(d)' = Attempt(d) /\ Attempt(d) \in Nat \ {0}
           /\ LastLog(d)' = row
           /\ \A a \in 1..Attempt(d) : a < Attempt(d) => logs'[d][a] = logs[d][a]
           /\ \A x \in Deliveries : x # d => logs'[x] = logs[x]
<1> DEFINE s == logs[d]
           n == Len(s)
<1>1. s \in Seq(Log) /\ s # <<>> /\ n \in Nat \ {0} /\ logs \in [Deliveries -> Seq(Log)]
  BY DEF TypeOK
<1>2. logs' = [logs EXCEPT ![d] = [s EXCEPT ![n] = row]]
  BY DEF UpdateLog, Attempt
<1>3. [s EXCEPT ![n] = row] \in Seq(Log) /\ Len([s EXCEPT ![n] = row]) = n
  BY <1>1
<1>4. logs'[d] = [s EXCEPT ![n] = row] /\ \A x \in Deliveries : x # d => logs'[x] = logs[x]
  BY <1>1, <1>2
<1>5. logs' \in [Deliveries -> Seq(Log)]
  BY <1>1, <1>2, <1>3
<1>6. logs'[d][n] = row /\ \A a \in 1..n : a < n => logs'[d][a] = s[a]
  BY <1>1, <1>4
<1> QED BY <1>1, <1>3, <1>4, <1>5, <1>6 DEF Attempt, LastLog

(* The last log row of a delivery past its first statement.                *)
LEMMA LastLogTyped ==
    ASSUME TypeOK, NEW d \in Deliveries, pc[d] \in Running \ {"create"}
    PROVE  logs[d] # <<>> /\ LastLog(d) \in Log
<1>1. logs[d] # <<>> /\ logs[d] \in Seq(Log)
  BY DEF TypeOK
<1> QED BY <1>1 DEF LastLog, Attempt

LEMMA PCsAre == Running = {"create", "post", "log", "stats", "logBad", "statsBad", "retry", "timer"}
BY DEF Running, PCs

(* A delivery that dies keeps the types.                                   *)
LEMMA DeadTyped ==
    ASSUME TypeOK, pc' = Dead, UNCHANGED logs
    PROVE  /\ pc' \in [Deliveries -> PCs]
           /\ \A d \in Deliveries : pc'[d] \in Running \ {"create"} => logs'[d] # <<>>
BY PCsAre DEF TypeOK, Dead, PCs

LEMMA RejectTyped ==
    ASSUME TypeOK, NEW d \in Deliveries, Reject(d), UNCHANGED logs
    PROVE  /\ pc' \in [Deliveries -> PCs]
           /\ \A x \in Deliveries : pc'[x] \in Running \ {"create"} => logs'[x] # <<>>
<1>1. CASE waits[d] = <<>>
  BY <1>1, PCsAre DEF Reject, Goto, TypeOK, PCs
<1>2. CASE waits[d] # <<>>
  BY <1>2, DeadTyped DEF Reject
<1> QED BY <1>1, <1>2

(* A step from one place to another after the log row exists.              *)
LEMMA GotoTyped ==
    ASSUME TypeOK, NEW d \in Deliveries, NEW p \in PCs, Goto(d, p),
           logs' \in [Deliveries -> Seq(Log)], p \in Running \ {"create"} => logs'[d] # <<>>,
           \A x \in Deliveries : x # d => logs'[x] = logs[x]
    PROVE  /\ pc' \in [Deliveries -> PCs]
           /\ \A x \in Deliveries : pc'[x] \in Running \ {"create"} => logs'[x] # <<>>
BY DEF TypeOK, Goto

(* A step of a delivery that writes its last log row and goes on.          *)
LEMMA UpdateTyped ==
    ASSUME TypeOK, NEW d \in Deliveries, NEW row \in Log, logs[d] # <<>>,
           UpdateLog(d, row), NEW p \in PCs, Goto(d, p),
           UNCHANGED <<endpoint, sent, snap, waits, Budgets>>
    PROVE  TypeOK'
<1>1. /\ logs' \in [Deliveries -> Seq(Log)]
      /\ logs'[d] # <<>>
      /\ \A x \in Deliveries : x # d => logs'[x] = logs[x]
  BY UpdateLogEffect DEF Attempt
<1>2. /\ pc' \in [Deliveries -> PCs]
      /\ \A x \in Deliveries : pc'[x] \in Running \ {"create"} => logs'[x] # <<>>
  BY <1>1, GotoTyped
<1> QED BY <1>1, <1>2 DEF TypeOK, Budgets

(* A step of a delivery that leaves the log rows alone.                    *)
LEMMA MoveTyped ==
    ASSUME TypeOK, NEW d \in Deliveries, UNCHANGED <<sent, snap, logs>>,
           endpoint' \in [Endpoints -> Row \cup {Absent, Deleted}],
           waits' \in [Deliveries -> Seq(1..3)],
           edits' \in 0..MaxEdits, faults' \in 0..MaxFaults, crashes' \in 0..MaxCrashes,
           \/ pc[d] \in Running \ {"create"} /\ \E p \in PCs : Goto(d, p)
           \/ Reject(d)
           \/ pc' = Dead
    PROVE  TypeOK'
<1>1. /\ pc' \in [Deliveries -> PCs]
      /\ \A x \in Deliveries : pc'[x] \in Running \ {"create"} => logs'[x] # <<>>
  <2>1. CASE pc[d] \in Running \ {"create"} /\ \E p \in PCs : Goto(d, p)
    <3>1. PICK p \in PCs : Goto(d, p)
      BY <2>1
    <3> QED BY <2>1, <3>1 DEF TypeOK, Goto
  <2>2. CASE Reject(d)
    BY <2>2, RejectTyped
  <2>3. CASE pc' = Dead
    BY <2>3, DeadTyped
  <2> QED BY <2>1, <2>2, <2>3
<1> QED BY <1>1 DEF TypeOK

(* Every step keeps the types.                                             *)
LEMMA TypeStep == ASSUME TypeOK, AttemptsOK, [Next]_vars PROVE TypeOK'
<1> USE BoundsNatural
<1>1. ASSUME NEW e \in Endpoints, CreateEndpoint(e) PROVE TypeOK'
  <2>1. NewRow \in Row
    BY DEF NewRow, Row
  <2> QED BY <1>1, <2>1 DEF TypeOK, CreateEndpoint, Edit
<1>2. ASSUME NEW e \in Endpoints, UpdateEndpoint(e) PROVE TypeOK'
  <2>1. endpoint[e] \in Row
    BY <1>2 DEF UpdateEndpoint, Exists, TypeOK
  <2>2. [endpoint[e] EXCEPT !.listens = ~@] \in Row
    BY <2>1 DEF Row
  <2> QED BY <1>2, <2>2 DEF TypeOK, UpdateEndpoint, Edit
<1>3. ASSUME NEW e \in Endpoints, DeleteEndpoint(e) PROVE TypeOK'
  BY <1>3 DEF TypeOK, DeleteEndpoint, Edit
<1>4. ASSUME NEW n \in Events, SendWebhook(n) PROVE TypeOK'
  <2>1. pc' \in [Deliveries -> PCs]
    BY <1>4 DEF TypeOK, SendWebhook, PCs
  <2>2. \A d \in Deliveries : pc'[d] \in Running \ {"create"} => logs'[d] # <<>>
    BY <1>4 DEF TypeOK, SendWebhook
  <2>3. snap' \in [Deliveries -> Counters]
    <3>1. \A e \in Listening : endpoint[e] \in Row
      BY DEF Listening, Exists, TypeOK
    <3>2. \A e \in Listening : [ok |-> endpoint[e].ok, bad |-> endpoint[e].bad] \in Counters
      BY <3>1 DEF Row, Counters
    <3> QED BY <1>4, <3>2 DEF TypeOK, SendWebhook
  <2> QED BY <1>4, <2>1, <2>2, <2>3 DEF TypeOK, SendWebhook, Budgets
<1>5. ASSUME NEW n \in Events, SendWebhookError(n) PROVE TypeOK'
  BY <1>5 DEF TypeOK, SendWebhookError
<1>6. ASSUME NEW d \in Deliveries, CreateLog(d) PROVE TypeOK'
  <2>1. NewLog \in Log
    BY DEF NewLog, Log
  <2>2. logs[d] \in Seq(Log)
    BY DEF TypeOK
  <2>3. Append(logs[d], NewLog) \in Seq(Log) /\ Append(logs[d], NewLog) # <<>>
    <3>1. Append(logs[d], NewLog) \in Seq(Log)
          /\ Len(Append(logs[d], NewLog)) = Len(logs[d]) + 1 /\ Len(logs[d]) \in Nat
      BY <2>1, <2>2
    <3>2. Len(Append(logs[d], NewLog)) # 0
      BY <3>1
    <3>3. ASSUME Append(logs[d], NewLog) = <<>> PROVE FALSE
      <4>1. Len(Append(logs[d], NewLog)) = Len(<<>>)
        BY <3>3
      <4>2. Len(<<>>) = 0
        OBVIOUS
      <4> QED BY <3>2, <4>1, <4>2
    <3> QED BY <3>1, <3>3
  <2>4. logs' \in [Deliveries -> Seq(Log)] /\ logs'[d] # <<>>
        /\ \A x \in Deliveries : x # d => logs'[x] = logs[x]
    BY <1>6, <2>3 DEF TypeOK, CreateLog
  <2>5. /\ pc' \in [Deliveries -> PCs]
        /\ \A x \in Deliveries : pc'[x] \in Running \ {"create"} => logs'[x] # <<>>
    BY <1>6, <2>4 DEF TypeOK, CreateLog, Goto, PCs
  <2> QED BY <1>6, <2>4, <2>5 DEF TypeOK, CreateLog, Budgets
<1>7. ASSUME NEW d \in Deliveries, Post(d) PROVE TypeOK'
  <2>1. logs[d] # <<>> /\ LastLog(d) \in Log
    BY <1>7, PCsAre, LastLogTyped DEF Post
  <2>2. PICK reply \in {"ok", "refused", "error"} :
            /\ UpdateLog(d, [LastLog(d) EXCEPT !.reply = reply])
            /\ Goto(d, IF reply = "error" THEN "logBad" ELSE "log")
    BY <1>7 DEF Post
  <2>3. [LastLog(d) EXCEPT !.reply = reply] \in Log
    BY <2>1 DEF Log
  <2> QED BY <1>7, <2>1, <2>2, <2>3, UpdateTyped DEF Post, PCs
<1>8. ASSUME NEW d \in Deliveries, WriteLog(d) PROVE TypeOK'
  <2>1. logs[d] # <<>> /\ LastLog(d) \in Log
    BY <1>8, PCsAre, LastLogTyped DEF WriteLog
  <2>2. [LastLog(d) EXCEPT !.status =
            IF LastLog(d).reply = "ok" THEN "success" ELSE "failed"] \in Log
    BY <2>1 DEF Log
  <2> QED BY <1>8, <2>1, <2>2, UpdateTyped DEF WriteLog, PCs
<1>9. ASSUME NEW d \in Deliveries, WriteStats(d) PROVE TypeOK'
  <2>1. EndpointOf(d) \in Endpoints
    BY DEF Deliveries, EndpointOf
  <2>2. endpoint' \in [Endpoints -> Row \cup {Absent, Deleted}]
    <3> DEFINE e == EndpointOf(d)
    <3>1. CASE Exists(e)
      <4>1. endpoint[e] \in Row /\ snap[d] \in Counters
        BY <2>1, <3>1 DEF Exists, TypeOK
      <4>2. /\ [endpoint[e] EXCEPT !.ok = @ + 1, !.bad = snap[d].bad] \in Row
            /\ [endpoint[e] EXCEPT !.ok = snap[d].ok, !.bad = @ + 1] \in Row
        <5>1. ASSUME NEW r \in Row, NEW x \in Nat, NEW y \in Nat
              PROVE  [r EXCEPT !.ok = x, !.bad = y] \in Row
          BY DEF Row
        <5>2. endpoint[e].ok + 1 \in Nat /\ endpoint[e].bad + 1 \in Nat
              /\ snap[d].ok \in Nat /\ snap[d].bad \in Nat
          BY <4>1 DEF Row, Counters
        <5> QED BY <4>1, <5>1, <5>2
      <4>3. \/ endpoint' = [endpoint EXCEPT ![e] =
                                [endpoint[e] EXCEPT !.ok = @ + 1, !.bad = snap[d].bad]]
            \/ endpoint' = [endpoint EXCEPT ![e] =
                                [endpoint[e] EXCEPT !.ok = snap[d].ok, !.bad = @ + 1]]
        <5>1. CASE LastLog(d).reply = "ok"
          BY <1>9, <2>1, <3>1, <4>1, <5>1 DEF WriteStats, TypeOK, Row
        <5>2. CASE LastLog(d).reply # "ok"
          BY <1>9, <2>1, <3>1, <4>1, <5>2 DEF WriteStats, TypeOK, Row
        <5> QED BY <5>1, <5>2
      <4> QED BY <2>1, <4>2, <4>3 DEF TypeOK
    <3>2. CASE ~Exists(e)
      BY <1>9, <3>2 DEF WriteStats, TypeOK
    <3> QED BY <3>1, <3>2
  <2>3. pc[d] \in Running \ {"create"} /\ \E p \in PCs : Goto(d, p)
    BY <1>9, PCsAre DEF WriteStats, PCs
  <2> QED BY <1>9, <2>2, <2>3, MoveTyped DEF WriteStats, Budgets, TypeOK
<1>10. ASSUME NEW d \in Deliveries, WriteLogBad(d) PROVE TypeOK'
  <2>1. logs[d] # <<>> /\ LastLog(d) \in Log
    BY <1>10, PCsAre, LastLogTyped DEF WriteLogBad
  <2>2. [LastLog(d) EXCEPT !.status = "failed"] \in Log
    BY <2>1 DEF Log
  <2> QED BY <1>10, <2>1, <2>2, UpdateTyped DEF WriteLogBad, PCs
<1>11. ASSUME NEW d \in Deliveries, WriteStatsBad(d) PROVE TypeOK'
  <2>1. EndpointOf(d) \in Endpoints
    BY DEF Deliveries, EndpointOf
  <2>2. endpoint' \in [Endpoints -> Row \cup {Absent, Deleted}]
    <3>1. CASE Exists(EndpointOf(d))
      <4>1. endpoint[EndpointOf(d)] \in Row
        BY <2>1, <3>1 DEF Exists, TypeOK
      <4>2. [endpoint[EndpointOf(d)] EXCEPT !.bad = @ + 1] \in Row
        BY <4>1 DEF Row
      <4> QED BY <1>11, <2>1, <3>1, <4>2 DEF WriteStatsBad, TypeOK
    <3>2. CASE ~Exists(EndpointOf(d))
      BY <1>11, <3>2 DEF WriteStatsBad, TypeOK
    <3> QED BY <3>1, <3>2
  <2>3. \/ pc[d] \in Running \ {"create"} /\ \E p \in PCs : Goto(d, p)
        \/ Reject(d)
    BY <1>11, PCsAre DEF WriteStatsBad, PCs
  <2> QED BY <1>11, <2>2, <2>3, MoveTyped DEF WriteStatsBad, Budgets, TypeOK
<1>12. ASSUME NEW d \in Deliveries, ScheduleRetry(d) PROVE TypeOK'
  <2>1. pc[d] = "retry" /\ LastLog(d).retryCount = 0
    BY <1>12 DEF ScheduleRetry, AttemptsOK, LastLogOK
  <2>2. waits' \in [Deliveries -> Seq(1..3)]
    <3>1. waits[d] \in Seq(1..3)
      BY DEF TypeOK
    <3>2. Append(waits[d], 1) \in Seq(1..3)
      BY <3>1
    <3>3. waits' = [waits EXCEPT ![d] = Append(waits[d], 0 + 1)]
      BY <1>12, <2>1 DEF ScheduleRetry
    <3>4. waits \in [Deliveries -> Seq(1..3)]
      BY DEF TypeOK
    <3> QED BY <3>2, <3>3, <3>4
  <2>3. pc[d] \in Running \ {"create"} /\ \E p \in PCs : Goto(d, p)
    BY <1>12, <2>1, PCsAre DEF ScheduleRetry, PCs
  <2> QED BY <1>12, <2>2, <2>3, MoveTyped DEF ScheduleRetry, Budgets, TypeOK
<1>13. ASSUME NEW d \in Deliveries, TimerFires(d) PROVE TypeOK'
  <2>1. logs[d] # <<>> /\ LastLog(d) \in Log
    BY <1>13, PCsAre, LastLogTyped DEF TimerFires
  <2>2. [LastLog(d) EXCEPT !.retryCount = @ + 1] \in Log
    BY <2>1 DEF Log
  <2> QED BY <1>13, <2>1, <2>2, UpdateTyped DEF TimerFires, PCs
<1>14. ASSUME NEW d \in Deliveries, StatementError(d) PROVE TypeOK'
  <2>1. \/ pc[d] \in Running \ {"create"} /\ \E p \in PCs : Goto(d, p)
        \/ Reject(d)
    BY <1>14, PCsAre DEF StatementError, PCs
  <2> QED BY <1>14, <2>1, MoveTyped DEF StatementError, TypeOK
<1>15. ASSUME Crash PROVE TypeOK'
  <2>1. /\ pc' \in [Deliveries -> PCs]
        /\ \A x \in Deliveries : pc'[x] \in Running \ {"create"} => logs'[x] # <<>>
    BY <1>15, DeadTyped DEF Crash
  <2> QED BY <1>15, <2>1 DEF Crash, TypeOK
<1>16. ASSUME UNCHANGED vars PROVE TypeOK'
  BY <1>16 DEF TypeOK, vars
<1> QED BY <1>1, <1>2, <1>3, <1>4, <1>5, <1>6, <1>7, <1>8, <1>9, <1>10, <1>11, <1>12,
           <1>13, <1>14, <1>15, <1>16 DEF Next, Deliver

-----------------------------------------------------------------------------
(* A delivery whose log rows a step leaves alone, and which stays where it *)
(* is or is over, keeps its attempts in order.                             *)
LEMMA AttemptsKept ==
    ASSUME NEW x \in Deliveries, EarlierFailed(x), LastLogOK(x),
           logs'[x] = logs[x], sent \subseteq sent',
           pc'[x] = pc[x] \/ (pc[x] # "idle" /\ pc'[x] \in {"lost", "done"})
    PROVE  EarlierFailed(x)' /\ LastLogOK(x)'
BY DEF EarlierFailed, LastLogOK, LastLog, Attempt

(* The same for every delivery, when one of them is over or all are.       *)
LEMMA RejectKeeps ==
    ASSUME TypeOK, AttemptsOK, NEW d \in Deliveries, pc[d] # "idle", UNCHANGED <<sent, logs>>,
           Reject(d) \/ pc' = Dead
    PROVE  AttemptsOK'
<1>1. \A x \in Deliveries : /\ pc'[x] = pc[x] \/ (pc[x] # "idle" /\ pc'[x] = "lost")
                            /\ logs'[x] = logs[x]
  BY PCsAre DEF Reject, Goto, Dead, TypeOK
<1> QED BY <1>1, AttemptsKept DEF AttemptsOK

(* A delivery that goes on without touching its rows: where it arrives, it *)
(* may rely on no more than where it was.                                  *)
LEMMA GotoKeeps ==
    ASSUME TypeOK, AttemptsOK, NEW d \in Deliveries, UNCHANGED <<sent, logs>>,
           NEW p \in PCs, Goto(d, p),
           \/ pc[d] # "idle" /\ p = "done"
           \/ pc[d] \in {"log", "stats"} /\ p = "logBad"
           \/ pc[d] = "statsBad" /\ p = "retry"
           \/ pc[d] = "retry" /\ p = "timer"
    PROVE  AttemptsOK'
<1> SUFFICES ASSUME NEW x \in Deliveries PROVE EarlierFailed(x)' /\ LastLogOK(x)'
  BY DEF AttemptsOK
<1>1. EarlierFailed(x) /\ LastLogOK(x) /\ logs'[x] = logs[x]
  BY DEF AttemptsOK
<1>2. CASE x # d
  BY <1>1, <1>2, AttemptsKept DEF Goto, TypeOK
<1>3. CASE x = d
  <2>1. pc'[x] = p
    BY <1>3 DEF Goto, TypeOK
  <2> QED BY <1>1, <1>3, <2>1 DEF EarlierFailed, LastLogOK, LastLog, Attempt
<1> QED BY <1>2, <1>3

(* A delivery that writes its last row and goes on keeps its earlier rows; *)
(* what the last row must read depends on where it arrives.                *)
LEMMA UpdateKeeps ==
    ASSUME TypeOK, AttemptsOK, NEW d \in Deliveries, NEW row \in Log, logs[d] # <<>>,
           UpdateLog(d, row), NEW p \in PCs \ {"idle"}, Goto(d, p),
           pc[d] # "idle", UNCHANGED sent,
           p = "create" => row.status = "failed" /\ row.retryCount = 1,
           p # "create" => row.retryCount = 0,
           p \in {"statsBad", "retry", "timer"} => row.status = "failed"
    PROVE  AttemptsOK'
<1> SUFFICES ASSUME NEW x \in Deliveries PROVE EarlierFailed(x)' /\ LastLogOK(x)'
  BY DEF AttemptsOK
<1>1. EarlierFailed(x) /\ LastLogOK(x)
  BY DEF AttemptsOK
<1>2. /\ Attempt(d)' = Attempt(d) /\ LastLog(d)' = row
      /\ \A a \in 1..Attempt(d) : a < Attempt(d) => logs'[d][a] = logs[d][a]
      /\ \A y \in Deliveries : y # d => logs'[y] = logs[y]
  BY UpdateLogEffect
<1>3. CASE x # d
  BY <1>1, <1>2, <1>3, AttemptsKept DEF Goto, TypeOK
<1>4. CASE x = d
  <2>1. pc'[d] = p
    BY DEF Goto, TypeOK
  <2>2. EarlierFailed(d)'
    BY <1>1, <1>2, <1>4, <2>1 DEF EarlierFailed
  <2>3. LastLogOK(d)'
    BY <1>1, <1>2, <1>4, <2>1 DEF LastLogOK
  <2> QED BY <1>4, <2>2, <2>3
<1> QED BY <1>3, <1>4

(* Every step keeps the order of the attempts.                             *)
LEMMA AttemptsStep == ASSUME TypeOK, AttemptsOK, [Next]_vars PROVE AttemptsOK'
<1>1. ASSUME UNCHANGED <<pc, logs>>, sent \subseteq sent' PROVE AttemptsOK'
  BY <1>1, AttemptsKept DEF AttemptsOK
<1>2. ASSUME NEW e \in Endpoints, CreateEndpoint(e) \/ UpdateEndpoint(e) \/ DeleteEndpoint(e)
      PROVE  AttemptsOK'
  BY <1>1, <1>2 DEF CreateEndpoint, UpdateEndpoint, DeleteEndpoint, Edit
<1>3. ASSUME NEW n \in Events, SendWebhook(n) PROVE AttemptsOK'
  <2> SUFFICES ASSUME NEW x \in Deliveries PROVE EarlierFailed(x)' /\ LastLogOK(x)'
    BY DEF AttemptsOK
  <2>1. EarlierFailed(x) /\ LastLogOK(x) /\ logs'[x] = logs[x]
    BY <1>3 DEF AttemptsOK, SendWebhook
  <2>2. pc'[x] = IF x[1] = n /\ x[2] \in Listening THEN "create" ELSE pc[x]
    BY <1>3 DEF SendWebhook
  <2>3. CASE pc'[x] = pc[x]
    BY <1>3, <2>1, <2>3, AttemptsKept DEF SendWebhook
  <2>4. CASE pc'[x] = "create" /\ pc[x] = "idle"
    <3>1. x[1] \in sent'
      BY <1>3, <2>2, <2>4 DEF SendWebhook
    <3>2. logs'[x] = <<>>
      BY <2>1, <2>4 DEF LastLogOK
    <3>3. Attempt(x)' = 0
      BY <3>2 DEF Attempt
    <3> QED BY <2>4, <3>1, <3>2, <3>3 DEF EarlierFailed, LastLogOK
  <2>5. pc[x] = "idle" \/ pc'[x] = pc[x]
    BY <1>3, <2>1, <2>2 DEF SendWebhook, LastLogOK
  <2> QED BY <2>2, <2>3, <2>4, <2>5
<1>4. ASSUME NEW n \in Events, SendWebhookError(n) PROVE AttemptsOK'
  BY <1>1, <1>4 DEF SendWebhookError
<1>5. ASSUME NEW d \in Deliveries, CreateLog(d) PROVE AttemptsOK'
  <2> SUFFICES ASSUME NEW x \in Deliveries PROVE EarlierFailed(x)' /\ LastLogOK(x)'
    BY DEF AttemptsOK
  <2>1. EarlierFailed(x) /\ LastLogOK(x)
    BY DEF AttemptsOK
  <2>2. CASE x # d
    BY <1>5, <2>1, <2>2, AttemptsKept DEF CreateLog, Goto, TypeOK
  <2>3. CASE x = d
    <3> DEFINE n == Len(logs[d])
    <3>1. pc[d] = "create" /\ pc'[d] = "post" /\ logs[d] \in Seq(Log) /\ n \in Nat
      BY <1>5 DEF CreateLog, Goto, TypeOK
    <3>2. NewLog \in Log /\ NewLog.retryCount = 0
      BY DEF NewLog, Log
    <3>3. logs'[d] = Append(logs[d], NewLog)
      BY <1>5 DEF CreateLog, TypeOK
    <3>4. Len(logs'[d]) = n + 1 /\ logs'[d][n + 1] = NewLog
          /\ \A a \in 1..n : logs'[d][a] = logs[d][a]
      BY <3>1, <3>2, <3>3
    <3>5. \A a \in 1..n : logs[d][a].status = "failed" /\ logs[d][a].retryCount = 1
      <4> SUFFICES ASSUME NEW a \in 1..n
                   PROVE  logs[d][a].status = "failed" /\ logs[d][a].retryCount = 1
        OBVIOUS
      <4>1. CASE a < n
        BY <2>1, <2>3, <4>1 DEF EarlierFailed, Attempt
      <4>2. CASE a = n
        <5>1. logs[d] # <<>>
          BY <3>1, <4>2
        <5> QED BY <2>1, <2>3, <3>1, <4>2, <5>1 DEF EarlierFailed, LastLog, Attempt
      <4> QED BY <3>1, <4>1, <4>2
    <3>6. EarlierFailed(d)'
      BY <3>1, <3>4, <3>5 DEF EarlierFailed, Attempt
    <3>7. LastLogOK(d)'
      BY <1>5, <2>1, <2>3, <3>1, <3>2, <3>4 DEF LastLogOK, LastLog, Attempt, CreateLog
    <3> QED BY <2>3, <3>6, <3>7
  <2> QED BY <2>2, <2>3
<1>6. ASSUME NEW d \in Deliveries, Post(d) PROVE AttemptsOK'
  <2>1. pc[d] = "post" /\ logs[d] # <<>> /\ LastLog(d) \in Log /\ LastLog(d).retryCount = 0
    BY <1>6, PCsAre, LastLogTyped DEF Post, AttemptsOK, LastLogOK
  <2>2. PICK reply \in {"ok", "refused", "error"} :
            /\ UpdateLog(d, [LastLog(d) EXCEPT !.reply = reply])
            /\ Goto(d, IF reply = "error" THEN "logBad" ELSE "log")
    BY <1>6 DEF Post
  <2>3. [LastLog(d) EXCEPT !.reply = reply] \in Log
        /\ [LastLog(d) EXCEPT !.reply = reply].retryCount = 0
    BY <2>1 DEF Log
  <2> QED BY <1>6, <2>1, <2>2, <2>3, UpdateKeeps DEF PCs, Post
<1>7. ASSUME NEW d \in Deliveries, WriteLog(d) PROVE AttemptsOK'
  <2>1. pc[d] = "log" /\ logs[d] # <<>> /\ LastLog(d) \in Log /\ LastLog(d).retryCount = 0
    BY <1>7, PCsAre, LastLogTyped DEF WriteLog, AttemptsOK, LastLogOK
  <2>2. PICK s \in {"success", "failed"} : UpdateLog(d, [LastLog(d) EXCEPT !.status = s])
    BY <1>7 DEF WriteLog
  <2>3. [LastLog(d) EXCEPT !.status = s] \in Log /\ [LastLog(d) EXCEPT !.status = s].retryCount = 0
    BY <2>1 DEF Log
  <2>4. Goto(d, "stats")
    BY <1>7 DEF WriteLog
  <2> QED BY <1>7, <2>1, <2>2, <2>3, <2>4, UpdateKeeps DEF PCs, WriteLog
<1>8. ASSUME NEW d \in Deliveries, WriteStats(d) PROVE AttemptsOK'
  BY <1>8, GotoKeeps DEF WriteStats, PCs
<1>9. ASSUME NEW d \in Deliveries, WriteLogBad(d) PROVE AttemptsOK'
  <2>1. pc[d] = "logBad" /\ logs[d] # <<>> /\ LastLog(d) \in Log /\ LastLog(d).retryCount = 0
    BY <1>9, PCsAre, LastLogTyped DEF WriteLogBad, AttemptsOK, LastLogOK
  <2>2. [LastLog(d) EXCEPT !.status = "failed"] \in Log
        /\ [LastLog(d) EXCEPT !.status = "failed"].retryCount = 0
        /\ [LastLog(d) EXCEPT !.status = "failed"].status = "failed"
    BY <2>1 DEF Log
  <2>3. UpdateLog(d, [LastLog(d) EXCEPT !.status = "failed"]) /\ Goto(d, "statsBad")
    BY <1>9 DEF WriteLogBad
  <2> QED BY <1>9, <2>1, <2>2, <2>3, UpdateKeeps DEF PCs, WriteLogBad
<1>10. ASSUME NEW d \in Deliveries, WriteStatsBad(d) PROVE AttemptsOK'
  BY <1>10, GotoKeeps, RejectKeeps DEF WriteStatsBad, PCs
<1>11. ASSUME NEW d \in Deliveries, ScheduleRetry(d) PROVE AttemptsOK'
  BY <1>11, GotoKeeps DEF ScheduleRetry, PCs
<1>12. ASSUME NEW d \in Deliveries, TimerFires(d) PROVE AttemptsOK'
  <2>1. /\ pc[d] = "timer" /\ logs[d] # <<>> /\ LastLog(d) \in Log
        /\ LastLog(d).retryCount = 0 /\ LastLog(d).status = "failed"
    BY <1>12, PCsAre, LastLogTyped DEF TimerFires, AttemptsOK, LastLogOK
  <2>2. [LastLog(d) EXCEPT !.retryCount = @ + 1] \in Log
        /\ [LastLog(d) EXCEPT !.retryCount = @ + 1].retryCount = 1
        /\ [LastLog(d) EXCEPT !.retryCount = @ + 1].status = "failed"
    BY <2>1 DEF Log
  <2>3. UpdateLog(d, [LastLog(d) EXCEPT !.retryCount = @ + 1]) /\ Goto(d, "create")
    BY <1>12 DEF TimerFires
  <2> QED BY <1>12, <2>1, <2>2, <2>3, UpdateKeeps DEF PCs, TimerFires
<1>13. ASSUME NEW d \in Deliveries, StatementError(d) PROVE AttemptsOK'
  BY <1>13, PCsAre, GotoKeeps, RejectKeeps DEF StatementError, PCs
<1>14. ASSUME Crash PROVE AttemptsOK'
  <2>1. PICK d \in Deliveries : pc[d] \in Running
    BY <1>14 DEF Crash
  <2> QED BY <1>14, <2>1, PCsAre, RejectKeeps DEF Crash
<1>15. ASSUME UNCHANGED vars PROVE AttemptsOK'
  BY <1>1, <1>15 DEF vars
<1> QED BY <1>2, <1>3, <1>4, <1>5, <1>6, <1>7, <1>8, <1>9, <1>10, <1>11, <1>12, <1>13,
           <1>14, <1>15 DEF Next, Deliver

LEMMA DeliveryInit == Init => TypeOK /\ AttemptsOK
<1> SUFFICES ASSUME Init PROVE TypeOK /\ AttemptsOK
  OBVIOUS
<1>1. NewRow \in Row /\ [ok |-> 0, bad |-> 0] \in Counters
  BY DEF NewRow, Row, Counters
<1>2. TypeOK
  BY <1>1, PCsAre, BoundsNatural DEF Init, TypeOK, PCs
<1>3. AttemptsOK
  BY DEF Init, AttemptsOK, EarlierFailed, LastLogOK, LastLog, Attempt
<1> QED BY <1>2, <1>3

(* The invariant of the deliveries: types, and the order of attempts.      *)
THEOREM DeliveryInvariant == Spec => [](TypeOK /\ AttemptsOK)
<1>1. TypeOK /\ AttemptsOK /\ [Next]_vars => (TypeOK /\ AttemptsOK)'
  BY TypeStep, AttemptsStep
<1> QED BY DeliveryInit, <1>1, PTL DEF Spec

(* Nothing is delivered again after a logged success: a further attempt    *)
(* starts only after its predecessor's row read failed and was counted     *)
(* (webhook.service.ts, deliverWebhook and scheduleRetry).                 *)
THEOREM RetriesOrdered == Spec => []RetriesFollowFailures
<1>1. AttemptsOK => RetriesFollowFailures
  BY DEF AttemptsOK, RetriesFollowFailures
<1> QED BY <1>1, DeliveryInvariant, PTL

(* The rows of endpoints and logs keep their types; an attempt that is past*)
(* its first statement has a log row to update, and no delay is looked up  *)
(* past the end of the table (deliverWebhook, scheduleRetry).              *)
THEOREM TypeCorrect == Spec => []TypeOK
<1> QED BY DeliveryInvariant, PTL
-----------------------------------------------------------------------------
(* What the rows say of the answers: a row reads success only after one of *)
(* 2xx.                                                                    *)
AnswersOK == \A d \in Deliveries : AnswerOK(d)

(* A delivery whose rows a step leaves alone.                              *)
LEMMA AnswersKept ==
    ASSUME TypeOK, NEW x \in Deliveries, AnswerOK(x), logs'[x] = logs[x],
           pc'[x] = pc[x] \/ pc'[x] \notin {"post", "stats"}
    PROVE  AnswerOK(x)'
BY DEF AnswerOK, LastLog, Attempt

(* All of them, when one moves on without a write or when some are over.   *)
LEMMA MoveAnswers ==
    ASSUME TypeOK, AnswersOK, UNCHANGED logs,
           \/ \E d \in Deliveries : \E p \in PCs \ {"post", "stats"} : Goto(d, p)
           \/ \E d \in Deliveries : Reject(d)
           \/ pc' = Dead
    PROVE  AnswersOK'
<1>1. \A x \in Deliveries : pc'[x] = pc[x] \/ pc'[x] \notin {"post", "stats"}
  BY DEF Reject, Goto, Dead, TypeOK
<1> QED BY <1>1, AnswersKept DEF AnswersOK

(* A delivery that writes its last row and goes on.                        *)
LEMMA UpdateAnswers ==
    ASSUME TypeOK, AnswersOK, NEW d \in Deliveries, NEW row \in Log, logs[d] # <<>>,
           UpdateLog(d, row), NEW p \in PCs \ {"post"}, Goto(d, p),
           row.status = "success" => row.reply = "ok",
           p = "stats" => row.status = IF row.reply = "ok" THEN "success" ELSE "failed"
    PROVE  AnswersOK'
<1> SUFFICES ASSUME NEW x \in Deliveries PROVE AnswerOK(x)'
  BY DEF AnswersOK
<1>1. /\ logs' \in [Deliveries -> Seq(Log)]
      /\ Attempt(d)' = Attempt(d) /\ Attempt(d) \in Nat \ {0} /\ LastLog(d)' = row
      /\ \A a \in 1..Attempt(d) : a < Attempt(d) => logs'[d][a] = logs[d][a]
      /\ \A y \in Deliveries : y # d => logs'[y] = logs[y]
  BY UpdateLogEffect
<1>2. CASE x # d
  BY <1>1, <1>2, AnswersKept DEF Goto, TypeOK, AnswersOK
<1>3. CASE x = d
  <2>1. pc'[d] = p
    BY DEF Goto, TypeOK
  <2>2. DOMAIN logs[d] = 1..Attempt(d) /\ DOMAIN logs'[d] = 1..Attempt(d)
    BY <1>1 DEF TypeOK, Attempt
  <2>3. ASSUME NEW a \in DOMAIN logs'[d], logs'[d][a].status = "success"
        PROVE  logs'[d][a].reply = "ok"
    <3>1. CASE a < Attempt(d)
      BY <1>1, <2>2, <2>3, <3>1 DEF AnswersOK, AnswerOK
    <3>2. CASE a = Attempt(d)
      BY <1>1, <2>3, <3>2 DEF LastLog
    <3> QED BY <1>1, <2>2, <3>1, <3>2
  <2> QED BY <1>1, <1>3, <2>1, <2>3 DEF AnswerOK
<1> QED BY <1>2, <1>3

(* What the first statement of an attempt leaves behind.                   *)
LEMMA CreateLogEffect ==
    ASSUME TypeOK, NEW d \in Deliveries, CreateLog(d)
    PROVE  /\ NewLog \in Log /\ Attempt(d) \in Nat
           /\ Attempt(d)' = Attempt(d) + 1 /\ LastLog(d)' = NewLog
           /\ DOMAIN logs[d] = 1..Attempt(d) /\ DOMAIN logs'[d] = 1..(Attempt(d) + 1)
           /\ \A a \in 1..Attempt(d) : logs'[d][a] = logs[d][a]
           /\ \A x \in Deliveries : x # d => logs'[x] = logs[x]
           /\ pc[d] = "create" /\ pc' = [pc EXCEPT ![d] = "post"]
<1> DEFINE n == Len(logs[d])
<1>1. NewLog \in Log /\ logs[d] \in Seq(Log) /\ n \in Nat
  BY DEF NewLog, Log, TypeOK
<1>2. logs'[d] = Append(logs[d], NewLog) /\ \A x \in Deliveries : x # d => logs'[x] = logs[x]
  BY DEF CreateLog, TypeOK
<1>3. /\ Len(logs'[d]) = n + 1 /\ logs'[d][n + 1] = NewLog
      /\ \A a \in 1..n : logs'[d][a] = logs[d][a]
      /\ DOMAIN logs[d] = 1..n /\ DOMAIN logs'[d] = 1..(n + 1)
  BY <1>1, <1>2
<1> QED BY <1>1, <1>2, <1>3 DEF Attempt, LastLog, CreateLog, Goto

(* Every step keeps what the rows say of the answers.                      *)
LEMMA AnswersStep == ASSUME TypeOK, AttemptsOK, AnswersOK, [Next]_vars PROVE AnswersOK'
<1>1. ASSUME UNCHANGED <<pc, logs>> PROVE AnswersOK'
  BY <1>1, AnswersKept DEF AnswersOK
<1>2. ASSUME NEW e \in Endpoints, CreateEndpoint(e) \/ UpdateEndpoint(e) \/ DeleteEndpoint(e)
      PROVE  AnswersOK'
  BY <1>1, <1>2 DEF CreateEndpoint, UpdateEndpoint, DeleteEndpoint, Edit
<1>3. ASSUME NEW n \in Events, SendWebhook(n) PROVE AnswersOK'
  <2>1. \A x \in Deliveries : /\ logs'[x] = logs[x]
                              /\ pc'[x] = pc[x] \/ pc'[x] \notin {"post", "stats"}
    BY <1>3 DEF SendWebhook
  <2> QED BY <2>1, AnswersKept DEF AnswersOK
<1>4. ASSUME NEW n \in Events, SendWebhookError(n) PROVE AnswersOK'
  BY <1>1, <1>4 DEF SendWebhookError
<1>5. ASSUME NEW d \in Deliveries, CreateLog(d) PROVE AnswersOK'
  <2> SUFFICES ASSUME NEW x \in Deliveries PROVE AnswerOK(x)'
    BY DEF AnswersOK
  <2>1. CASE x # d
    BY <1>5, <2>1, CreateLogEffect, AnswersKept DEF AnswersOK, TypeOK
  <2>2. CASE x = d
    <3>1. pc'[d] = "post" /\ LastLog(d)' = NewLog
      BY <1>5, CreateLogEffect DEF TypeOK
    <3>2. ASSUME NEW a \in DOMAIN logs'[d], logs'[d][a].status = "success"
          PROVE  logs'[d][a].reply = "ok"
      <4>1. Attempt(d) \in Nat /\ a \in 1..(Attempt(d) + 1)
        BY <1>5, CreateLogEffect
      <4>2. CASE a = Attempt(d) + 1
        <5>1. logs'[d][a] = NewLog
          BY <1>5, <4>2, CreateLogEffect DEF LastLog
        <5> QED BY <3>2, <5>1 DEF NewLog
      <4>3. CASE a \in 1..Attempt(d)
        <5>1. logs'[d][a] = logs[d][a] /\ a \in DOMAIN logs[d]
          BY <1>5, <4>3, CreateLogEffect
        <5> QED BY <3>2, <5>1 DEF AnswersOK, AnswerOK
      <4> QED BY <4>1, <4>2, <4>3
    <3> QED BY <2>2, <3>1, <3>2 DEF AnswerOK, NewLog
  <2> QED BY <2>1, <2>2
<1>6. ASSUME NEW d \in Deliveries, Post(d) PROVE AnswersOK'
  <2>1. logs[d] # <<>> /\ LastLog(d) \in Log /\ LastLog(d).status # "success"
    <3>1. logs[d] # <<>> /\ LastLog(d) \in Log /\ LastLog(d).reply = "none"
      BY <1>6, PCsAre, LastLogTyped DEF Post, AnswersOK, AnswerOK
    <3>2. Attempt(d) \in DOMAIN logs[d]
      BY <3>1 DEF TypeOK, Attempt
    <3> QED BY <3>1, <3>2 DEF AnswersOK, AnswerOK, LastLog
  <2>2. PICK reply \in {"ok", "refused", "error"} :
            /\ UpdateLog(d, [LastLog(d) EXCEPT !.reply = reply])
            /\ Goto(d, IF reply = "error" THEN "logBad" ELSE "log")
    BY <1>6 DEF Post
  <2>3. [LastLog(d) EXCEPT !.reply = reply] \in Log
        /\ [LastLog(d) EXCEPT !.reply = reply].status # "success"
    BY <2>1 DEF Log
  <2> QED BY <2>1, <2>2, <2>3, UpdateAnswers DEF PCs
<1>7. ASSUME NEW d \in Deliveries, WriteLog(d) PROVE AnswersOK'
  <2> DEFINE row == [LastLog(d) EXCEPT !.status =
                        IF LastLog(d).reply = "ok" THEN "success" ELSE "failed"]
  <2>1. logs[d] # <<>> /\ LastLog(d) \in Log
    BY <1>7, PCsAre, LastLogTyped DEF WriteLog
  <2>2. row \in Log /\ row.status = IF row.reply = "ok" THEN "success" ELSE "failed"
    BY <2>1 DEF Log
  <2>3. UpdateLog(d, row) /\ Goto(d, "stats")
    BY <1>7 DEF WriteLog
  <2> HIDE DEF row
  <2> QED BY <2>1, <2>2, <2>3, UpdateAnswers DEF PCs
<1>8. ASSUME NEW d \in Deliveries, WriteStats(d) PROVE AnswersOK'
  BY <1>8, MoveAnswers DEF WriteStats, PCs
<1>9. ASSUME NEW d \in Deliveries, WriteLogBad(d) PROVE AnswersOK'
  <2>1. logs[d] # <<>> /\ LastLog(d) \in Log
    BY <1>9, PCsAre, LastLogTyped DEF WriteLogBad
  <2>2. [LastLog(d) EXCEPT !.status = "failed"] \in Log
        /\ [LastLog(d) EXCEPT !.status = "failed"].status = "failed"
    BY <2>1 DEF Log
  <2>3. UpdateLog(d, [LastLog(d) EXCEPT !.status = "failed"]) /\ Goto(d, "statsBad")
    BY <1>9 DEF WriteLogBad
  <2> QED BY <2>1, <2>2, <2>3, UpdateAnswers DEF PCs
<1>10. ASSUME NEW d \in Deliveries, WriteStatsBad(d) PROVE AnswersOK'
  BY <1>10, MoveAnswers DEF WriteStatsBad, PCs
<1>11. ASSUME NEW d \in Deliveries, ScheduleRetry(d) PROVE AnswersOK'
  BY <1>11, MoveAnswers DEF ScheduleRetry, PCs
<1>12. ASSUME NEW d \in Deliveries, TimerFires(d) PROVE AnswersOK'
  <2>1. logs[d] # <<>> /\ LastLog(d) \in Log /\ LastLog(d).status = "failed"
    BY <1>12, PCsAre, LastLogTyped DEF TimerFires, AttemptsOK, LastLogOK
  <2>2. [LastLog(d) EXCEPT !.retryCount = @ + 1] \in Log
        /\ [LastLog(d) EXCEPT !.retryCount = @ + 1].status = "failed"
    BY <2>1 DEF Log
  <2>3. UpdateLog(d, [LastLog(d) EXCEPT !.retryCount = @ + 1]) /\ Goto(d, "create")
    BY <1>12 DEF TimerFires
  <2> QED BY <2>1, <2>2, <2>3, UpdateAnswers DEF PCs
<1>13. ASSUME NEW d \in Deliveries, StatementError(d) PROVE AnswersOK'
  BY <1>13, MoveAnswers DEF StatementError, PCs
<1>14. ASSUME Crash PROVE AnswersOK'
  BY <1>14, MoveAnswers DEF Crash
<1>15. ASSUME UNCHANGED vars PROVE AnswersOK'
  BY <1>1, <1>15 DEF vars
<1> QED BY <1>2, <1>3, <1>4, <1>5, <1>6, <1>7, <1>8, <1>9, <1>10, <1>11, <1>12, <1>13,
           <1>14, <1>15 DEF Next, Deliver

-----------------------------------------------------------------------------
(* The counters.  Own is what one delivery adds to Counted of its endpoint.*)
Own(x, st) ==
    {a \in DOMAIN logs[x] : /\ logs[x][a].status = st
                            /\ pc[x] \in Uncounted => a # Attempt(x)}

RowsOf(e) == {p \in Events \X Nat : p[2] \in DOMAIN logs[<<p[1], e>>]}
RowsFinite == \A e \in Endpoints : IsFiniteSet(RowsOf(e))

LEMMA LoggedMember ==
    ASSUME NEW e, NEW st, NEW p
    PROVE  p \in LoggedAs(e, st) <=>
               \E n \in Events : \E a \in DOMAIN logs[<<n, e>>] :
                   logs[<<n, e>>][a].status = st /\ p = <<n, a>>
<1> DEFINE of(n) == {<<n, a>> : a \in {b \in DOMAIN logs[<<n, e>>] : logs[<<n, e>>][b].status = st}}
<1>1. LoggedAs(e, st) = UNION {of(n) : n \in Events}
  BY DEF LoggedAs
<1>2. \A n : p \in of(n) <=> \E a \in DOMAIN logs[<<n, e>>] :
                                  logs[<<n, e>>][a].status = st /\ p = <<n, a>>
  OBVIOUS
<1> HIDE DEF of
<1>3. p \in UNION {of(n) : n \in Events} <=> \E n \in Events : p \in of(n)
  OBVIOUS
<1> QED BY <1>1, <1>2, <1>3

(* Counted, delivery by delivery.                                          *)
CountedIsOwn ==
    \A e \in Endpoints, st \in {"success", "failed"} :
        /\ \A n \in Events : \A a \in Own(<<n, e>>, st) : <<n, a>> \in Counted(e, st)
        /\ \A p \in Counted(e, st) : /\ p[1] \in Events /\ p = <<p[1], p[2]>>
                                     /\ p[2] \in Own(<<p[1], e>>, st)
        /\ Counted(e, st) \subseteq RowsOf(e)

LEMMA CountedMembers == TypeOK => CountedIsOwn
<1> SUFFICES ASSUME TypeOK, NEW e \in Endpoints, NEW st \in {"success", "failed"}
             PROVE  /\ \A n \in Events : \A a \in Own(<<n, e>>, st) : <<n, a>> \in Counted(e, st)
                    /\ \A p \in Counted(e, st) : /\ p[1] \in Events /\ p = <<p[1], p[2]>>
                                                 /\ p[2] \in Own(<<p[1], e>>, st)
                    /\ Counted(e, st) \subseteq RowsOf(e)
  BY DEF CountedIsOwn
<1>1. \A n \in Events : DOMAIN logs[<<n, e>>] \subseteq Nat
  <2> TAKE n \in Events
  <2>1. logs[<<n, e>>] \in Seq(Log)
    BY DEF TypeOK, Deliveries
  <2> QED BY <2>1
<1>2. ASSUME NEW n \in Events, NEW a \in Own(<<n, e>>, st)
      PROVE  <<n, a>> \in Counted(e, st)
  <2>1. <<n, a>> \in LoggedAs(e, st)
    BY <1>2, LoggedMember DEF Own
  <2> QED BY <2>1 DEF Own, Counted
<1>3. ASSUME NEW p \in Counted(e, st)
      PROVE  /\ p[1] \in Events /\ p = <<p[1], p[2]>>
             /\ p[2] \in Own(<<p[1], e>>, st)
             /\ p \in RowsOf(e)
  <2>1. PICK n \in Events : \E a \in DOMAIN logs[<<n, e>>] :
            logs[<<n, e>>][a].status = st /\ p = <<n, a>>
    BY LoggedMember DEF Counted
  <2> QED BY <1>1, <2>1 DEF Own, Counted, RowsOf
<1> QED BY <1>2, <1>3

(* A step on which no delivery takes back a counted row keeps the counts.  *)
LEMMA CountsKept ==
    ASSUME TypeOK, TypeOK', RowsFinite', NEW e \in Endpoints, NEW st \in {"success", "failed"},
           \A x \in Deliveries : Own(x, st) \subseteq Own(x, st)'
    PROVE  /\ IsFiniteSet(Counted(e, st)') /\ Counted(e, st) \subseteq Counted(e, st)'
           /\ Cardinality(Counted(e, st)) \in Nat /\ Cardinality(Counted(e, st)') \in Nat
           /\ Cardinality(Counted(e, st)) <= Cardinality(Counted(e, st)')
<1>1. CountedIsOwn
  BY CountedMembers
<1>2. TypeOK' => CountedIsOwn'
  BY CountedMembers, PTL
<1>3. \A n \in Events : <<n, e>> \in Deliveries
  BY DEF Deliveries
<1>4. ASSUME NEW p \in Counted(e, st) PROVE p \in Counted(e, st)'
  <2>1. p[1] \in Events /\ p = <<p[1], p[2]>> /\ p[2] \in Own(<<p[1], e>>, st)
    BY <1>1 DEF CountedIsOwn
  <2>2. p[2] \in Own(<<p[1], e>>, st)'
    BY <1>3, <2>1
  <2> QED BY <1>2, <2>1, <2>2 DEF CountedIsOwn
<1>5. IsFiniteSet(Counted(e, st)')
  <2>1. Counted(e, st)' \subseteq RowsOf(e)' /\ IsFiniteSet(RowsOf(e)')
    BY <1>2 DEF CountedIsOwn, RowsFinite
  <2> QED BY <2>1, FS_Subset
<1>6. IsFiniteSet(Counted(e, st)) /\ Cardinality(Counted(e, st)) <= Cardinality(Counted(e, st)')
  BY <1>4, <1>5, FS_Subset
<1> QED BY <1>4, <1>5, <1>6, FS_CardinalityType

(* No step takes a row back.  Grows says so of the rows that exist and of  *)
(* those that are counted.                                                 *)
Grows ==
    /\ RowsFinite'
    /\ \A x \in Deliveries, st \in {"success", "failed"} : Own(x, st) \subseteq Own(x, st)'

LEMMA SameRows ==
    ASSUME RowsFinite, \A x \in Deliveries : DOMAIN logs'[x] = DOMAIN logs[x]
    PROVE  RowsFinite'
<1> SUFFICES ASSUME NEW e \in Endpoints PROVE IsFiniteSet(RowsOf(e)')
  BY DEF RowsFinite
<1>1. \A n \in Events : <<n, e>> \in Deliveries
  BY DEF Deliveries
<1>2. RowsOf(e)' = RowsOf(e)
  BY <1>1 DEF RowsOf
<1> QED BY <1>2 DEF RowsFinite

(* A delivery whose rows a step leaves alone counts them as before, or one *)
(* more.                                                                   *)
LEMMA OwnKept ==
    ASSUME NEW x \in Deliveries, logs'[x] = logs[x],
           pc'[x] \in Uncounted => pc[x] \in Uncounted
    PROVE  \A st \in {"success", "failed"} : Own(x, st) \subseteq Own(x, st)'
BY DEF Own, Attempt

LEMMA MoveGrows ==
    ASSUME TypeOK, RowsFinite, UNCHANGED logs,
           \A x \in Deliveries : pc'[x] \in Uncounted => pc[x] \in Uncounted
    PROVE  Grows
BY SameRows, OwnKept DEF Grows

LEMMA GotoGrows ==
    ASSUME TypeOK, RowsFinite, UNCHANGED logs,
           \/ \E d \in Deliveries : \E p \in PCs : Goto(d, p) /\ (p \in Uncounted => pc[d] \in Uncounted)
           \/ \E d \in Deliveries : Reject(d)
           \/ pc' = Dead
    PROVE  Grows
<1>1. \A x \in Deliveries : pc'[x] \in Uncounted => pc[x] \in Uncounted
  BY DEF Reject, Goto, Dead, TypeOK, Uncounted
<1> QED BY <1>1, MoveGrows

(* The last row may change its status as long as it is not counted.        *)
LEMMA UpdateGrows ==
    ASSUME TypeOK, RowsFinite, NEW d \in Deliveries, NEW row \in Log, logs[d] # <<>>,
           UpdateLog(d, row), NEW p \in PCs, Goto(d, p),
           \/ pc[d] \in Uncounted
           \/ p \notin Uncounted /\ row.status = LastLog(d).status
    PROVE  Grows
<1>1. /\ logs' \in [Deliveries -> Seq(Log)]
      /\ Attempt(d)' = Attempt(d) /\ Attempt(d) \in Nat \ {0} /\ LastLog(d)' = row
      /\ \A a \in 1..Attempt(d) : a < Attempt(d) => logs'[d][a] = logs[d][a]
      /\ \A y \in Deliveries : y # d => logs'[y] = logs[y]
  BY UpdateLogEffect
<1>2. DOMAIN logs[d] = 1..Attempt(d) /\ DOMAIN logs'[d] = 1..Attempt(d)
  BY <1>1 DEF TypeOK, Attempt
<1>3. \A x \in Deliveries : DOMAIN logs'[x] = DOMAIN logs[x]
  BY <1>1, <1>2
<1>4. pc'[d] = p /\ \A x \in Deliveries : x # d => pc'[x] = pc[x]
  BY DEF Goto, TypeOK
<1>5. ASSUME NEW st \in {"success", "failed"}, NEW a \in Own(d, st)
      PROVE  a \in Own(d, st)'
  <2>1. /\ a \in 1..Attempt(d) /\ logs[d][a].status = st
        /\ pc[d] \in Uncounted => a # Attempt(d)
    BY <1>2 DEF Own
  <2>2. CASE a < Attempt(d)
    <3>1. logs'[d][a] = logs[d][a] /\ a # Attempt(d)
      BY <1>1, <2>1, <2>2
    <3> QED BY <1>1, <1>2, <2>1, <3>1 DEF Own
  <2>3. CASE a = Attempt(d)
    <3>1. pc[d] \notin Uncounted /\ logs'[d][a].status = st
      BY <1>1, <2>1, <2>3 DEF LastLog
    <3> QED BY <1>2, <1>4, <2>1, <3>1 DEF Own
  <2> QED BY <1>1, <2>1, <2>2, <2>3
<1>6. \A x \in Deliveries, st \in {"success", "failed"} : Own(x, st) \subseteq Own(x, st)'
  BY <1>1, <1>4, <1>5, OwnKept
<1> QED BY <1>3, <1>6, SameRows DEF Grows

LEMMA CreateLogGrows == ASSUME TypeOK, RowsFinite, NEW d \in Deliveries, CreateLog(d) PROVE Grows
<1> DEFINE m == Attempt(d)
<1>1. /\ m \in Nat /\ Attempt(d)' = m + 1
      /\ DOMAIN logs[d] = 1..m /\ DOMAIN logs'[d] = 1..(m + 1)
      /\ \A a \in 1..m : logs'[d][a] = logs[d][a]
      /\ \A x \in Deliveries : x # d => logs'[x] = logs[x] /\ pc'[x] = pc[x]
      /\ pc[d] = "create"
  BY CreateLogEffect DEF TypeOK
<1> HIDE DEF m
<1>2. RowsFinite'
  <2> SUFFICES ASSUME NEW e \in Endpoints PROVE IsFiniteSet(RowsOf(e)')
    BY DEF RowsFinite
  <2>1. \A n \in Events : <<n, e>> \in Deliveries
    BY DEF Deliveries
  <2>2. RowsOf(e)' \subseteq RowsOf(e) \cup {<<d[1], m + 1>>}
    <3> SUFFICES ASSUME NEW p \in RowsOf(e)', p \notin RowsOf(e) PROVE p = <<d[1], m + 1>>
      OBVIOUS
    <3>1. p \in Events \X Nat /\ p[2] \in DOMAIN logs'[<<p[1], e>>] /\ p = <<p[1], p[2]>>
      BY DEF RowsOf
    <3>2. p[2] \notin DOMAIN logs[<<p[1], e>>]
      BY <3>1 DEF RowsOf
    <3>3. d = <<p[1], e>>
      BY <1>1, <2>1, <3>1, <3>2
    <3>4. p[2] = m + 1
      BY <1>1, <3>1, <3>2, <3>3
    <3> QED BY <3>1, <3>3, <3>4
  <2>3. IsFiniteSet(RowsOf(e) \cup {<<d[1], m + 1>>})
    BY FS_AddElement DEF RowsFinite
  <2> QED BY <2>2, <2>3, FS_Subset
<1>3. \A st \in {"success", "failed"} : Own(d, st) \subseteq Own(d, st)'
  <2> SUFFICES ASSUME NEW st \in {"success", "failed"}, NEW a \in Own(d, st)
               PROVE  a \in Own(d, st)'
    OBVIOUS
  <2>1. a \in 1..m /\ logs[d][a].status = st
    BY <1>1 DEF Own
  <2>2. a \in DOMAIN logs'[d] /\ logs'[d][a].status = st /\ a # Attempt(d)'
    BY <1>1, <2>1
  <2> QED BY <2>2 DEF Own
<1> QED BY <1>1, <1>2, <1>3, OwnKept DEF Grows

LEMMA GrowsStep == ASSUME TypeOK, AttemptsOK, RowsFinite, [Next]_vars PROVE Grows
<1>1. ASSUME UNCHANGED <<pc, logs>> PROVE Grows
  BY <1>1, MoveGrows
<1>2. ASSUME NEW e \in Endpoints, CreateEndpoint(e) \/ UpdateEndpoint(e) \/ DeleteEndpoint(e)
      PROVE  Grows
  BY <1>1, <1>2 DEF CreateEndpoint, UpdateEndpoint, DeleteEndpoint, Edit
<1>3. ASSUME NEW n \in Events, SendWebhook(n) PROVE Grows
  BY <1>3, MoveGrows DEF SendWebhook, Uncounted
<1>4. ASSUME NEW n \in Events, SendWebhookError(n) PROVE Grows
  BY <1>1, <1>4 DEF SendWebhookError
<1>5. ASSUME NEW d \in Deliveries, CreateLog(d) PROVE Grows
  BY <1>5, CreateLogGrows
<1>6. ASSUME NEW d \in Deliveries, Post(d) PROVE Grows
  <2>1. pc[d] = "post" /\ logs[d] # <<>> /\ LastLog(d) \in Log
    BY <1>6, PCsAre, LastLogTyped DEF Post
  <2>2. PICK reply \in {"ok", "refused", "error"} :
            /\ UpdateLog(d, [LastLog(d) EXCEPT !.reply = reply])
            /\ Goto(d, IF reply = "error" THEN "logBad" ELSE "log")
    BY <1>6 DEF Post
  <2>3. [LastLog(d) EXCEPT !.reply = reply] \in Log
    BY <2>1 DEF Log
  <2> QED BY <2>1, <2>2, <2>3, UpdateGrows DEF PCs, Uncounted
<1>7. ASSUME NEW d \in Deliveries, WriteLog(d) PROVE Grows
  <2>1. pc[d] = "log" /\ logs[d] # <<>> /\ LastLog(d) \in Log
    BY <1>7, PCsAre, LastLogTyped DEF WriteLog
  <2>2. PICK s \in {"success", "failed"} : UpdateLog(d, [LastLog(d) EXCEPT !.status = s])
    BY <1>7 DEF WriteLog
  <2>3. [LastLog(d) EXCEPT !.status = s] \in Log /\ Goto(d, "stats")
    BY <1>7, <2>1 DEF Log, WriteLog
  <2> QED BY <2>1, <2>2, <2>3, UpdateGrows DEF PCs, Uncounted
<1>8. ASSUME NEW d \in Deliveries, WriteStats(d) PROVE Grows
  BY <1>8, GotoGrows DEF WriteStats, PCs, Uncounted
<1>9. ASSUME NEW d \in Deliveries, WriteLogBad(d) PROVE Grows
  <2>1. pc[d] = "logBad" /\ logs[d] # <<>> /\ LastLog(d) \in Log
    BY <1>9, PCsAre, LastLogTyped DEF WriteLogBad
  <2>2. [LastLog(d) EXCEPT !.status = "failed"] \in Log
    BY <2>1 DEF Log
  <2>3. UpdateLog(d, [LastLog(d) EXCEPT !.status = "failed"]) /\ Goto(d, "statsBad")
    BY <1>9 DEF WriteLogBad
  <2> QED BY <2>1, <2>2, <2>3, UpdateGrows DEF PCs, Uncounted
<1>10. ASSUME NEW d \in Deliveries, WriteStatsBad(d) PROVE Grows
  BY <1>10, GotoGrows DEF WriteStatsBad, PCs, Uncounted
<1>11. ASSUME NEW d \in Deliveries, ScheduleRetry(d) PROVE Grows
  BY <1>11, GotoGrows DEF ScheduleRetry, PCs, Uncounted
<1>12. ASSUME NEW d \in Deliveries, TimerFires(d) PROVE Grows
  <2>1. logs[d] # <<>> /\ LastLog(d) \in Log
    BY <1>12, PCsAre, LastLogTyped DEF TimerFires
  <2>2. [LastLog(d) EXCEPT !.retryCount = @ + 1] \in Log
        /\ [LastLog(d) EXCEPT !.retryCount = @ + 1].status = LastLog(d).status
    BY <2>1 DEF Log
  <2>3. UpdateLog(d, [LastLog(d) EXCEPT !.retryCount = @ + 1]) /\ Goto(d, "create")
    BY <1>12 DEF TimerFires
  <2> QED BY <2>1, <2>2, <2>3, UpdateGrows DEF PCs, Uncounted
<1>13. ASSUME NEW d \in Deliveries, StatementError(d) PROVE Grows
  BY <1>13, GotoGrows DEF StatementError, PCs, Uncounted
<1>14. ASSUME Crash PROVE Grows
  BY <1>14, GotoGrows DEF Crash
<1>15. ASSUME UNCHANGED vars PROVE Grows
  BY <1>1, <1>15 DEF vars
<1> QED BY <1>2, <1>3, <1>4, <1>5, <1>6, <1>7, <1>8, <1>9, <1>10, <1>11, <1>12, <1>13,
           <1>14, <1>15 DEF Next, Deliver

(* A delivery that leaves the uncounted steps adds its last row.           *)
LEMMA CountedMore ==
    ASSUME TypeOK, TypeOK', Grows, NEW d \in Deliveries, NEW st \in {"success", "failed"},
           UNCHANGED logs, logs[d] # <<>>, LastLog(d).status = st,
           pc[d] \in Uncounted, pc'[d] \notin Uncounted
    PROVE  Cardinality(Counted(EndpointOf(d), st)) + 1 <= Cardinality(Counted(EndpointOf(d), st)')
<1> DEFINE e == EndpointOf(d)
           x == <<d[1], Attempt(d)>>
<1>1. d = <<d[1], e>> /\ d[1] \in Events /\ e \in Endpoints
  BY DEF Deliveries, EndpointOf
<1>2. Attempt(d) \in DOMAIN logs[d]
  BY DEF TypeOK, Attempt
<1> HIDE DEF e
<1>3. CountedIsOwn /\ CountedIsOwn'
  <2>1. TypeOK' => CountedIsOwn'
    BY CountedMembers, PTL
  <2> QED BY <2>1, CountedMembers
<1>4. Attempt(d) \notin Own(d, st) /\ Attempt(d) \in Own(d, st)'
  BY <1>2 DEF Own, LastLog, Attempt
<1>5. x \notin Counted(e, st)
  BY <1>1, <1>3, <1>4 DEF CountedIsOwn
<1>6. x \in Counted(e, st)'
  <2>1. Attempt(d) \in Own(<<d[1], e>>, st)'
    BY <1>1, <1>4
  <2> QED BY <1>1, <1>3, <2>1 DEF CountedIsOwn
<1>7. /\ IsFiniteSet(Counted(e, st)') /\ Counted(e, st) \subseteq Counted(e, st)'
      /\ Cardinality(Counted(e, st)) \in Nat /\ Cardinality(Counted(e, st)') \in Nat
  BY <1>1, CountsKept DEF Grows
<1>8. IsFiniteSet(Counted(e, st))
  BY <1>7, FS_Subset
<1>9. Cardinality(Counted(e, st) \cup {x}) = Cardinality(Counted(e, st)) + 1
  BY <1>5, <1>8, FS_AddElement
<1>10. Cardinality(Counted(e, st) \cup {x}) <= Cardinality(Counted(e, st)')
  BY <1>6, <1>7, FS_Subset
<1> QED BY <1>9, <1>10 DEF e

(* Counters that are not raised still show no more than was logged.        *)
LEMMA ShowsKept ==
    ASSUME TypeOK, TypeOK', Grows, NEW e \in Endpoints, NEW c, c.ok \in Nat, c.bad \in Nat,
           Shows(c, e)
    PROVE  /\ c.ok <= Cardinality(Counted(e, "success")')
           /\ c.bad <= Cardinality(Counted(e, "failed")')
<1>1. \A st \in {"success", "failed"} :
          /\ Cardinality(Counted(e, st)) \in Nat /\ Cardinality(Counted(e, st)') \in Nat
          /\ Cardinality(Counted(e, st)) <= Cardinality(Counted(e, st)')
  BY CountsKept DEF Grows
<1>2. c.ok <= Cardinality(Counted(e, "success")) /\ c.bad <= Cardinality(Counted(e, "failed"))
  BY DEF Shows
<1> QED BY <1>1, <1>2

EndpointsShown == \A e \in Endpoints : Exists(e) => Shows(endpoint[e], e)
SnapsShown == \A d \in Deliveries : Shows(snap[d], EndpointOf(d))

LEMMA EndpointsKept ==
    ASSUME TypeOK, TypeOK', Grows, EndpointsShown, NEW e \in Endpoints,
           Exists(e), endpoint'[e].ok = endpoint[e].ok, endpoint'[e].bad = endpoint[e].bad
    PROVE  Shows(endpoint[e], e)'
<1>1. endpoint[e].ok \in Nat /\ endpoint[e].bad \in Nat /\ Shows(endpoint[e], e)
  BY DEF TypeOK, Row, Exists, EndpointsShown
<1> QED BY <1>1, ShowsKept DEF Shows

LEMMA EndpointsSame ==
    ASSUME TypeOK, TypeOK', Grows, EndpointsShown, UNCHANGED endpoint
    PROVE  EndpointsShown'
BY EndpointsKept DEF EndpointsShown, Exists

LEMMA SnapsSame ==
    ASSUME TypeOK, TypeOK', Grows, SnapsShown, NEW d \in Deliveries, snap'[d] = snap[d]
    PROVE  Shows(snap[d], EndpointOf(d))'
<1>1. /\ snap[d].ok \in Nat /\ snap[d].bad \in Nat /\ Shows(snap[d], EndpointOf(d))
      /\ EndpointOf(d) \in Endpoints
  BY DEF TypeOK, Counters, SnapsShown, Deliveries, EndpointOf
<1> QED BY <1>1, ShowsKept DEF Shows, EndpointOf

(* One endpoint's row written by a delivery: the others are as they were.  *)
LEMMA OneEndpoint ==
    ASSUME TypeOK, TypeOK', Grows, EndpointsShown, NEW e \in Endpoints, NEW row,
           endpoint' = [endpoint EXCEPT ![e] = row],
           row \notin {Absent, Deleted} =>
               /\ row.ok <= Cardinality(Counted(e, "success")')
               /\ row.bad <= Cardinality(Counted(e, "failed")')
    PROVE  EndpointsShown'
<1> SUFFICES ASSUME NEW x \in Endpoints, Exists(x)' PROVE Shows(endpoint[x], x)'
  BY DEF EndpointsShown
<1>1. CASE x # e
  <2>1. endpoint'[x] = endpoint[x]
    BY <1>1 DEF TypeOK
  <2> QED BY <2>1, EndpointsKept DEF Exists
<1>2. CASE x = e
  <2>1. endpoint'[e] = row
    BY DEF TypeOK
  <2> QED BY <1>2, <2>1 DEF Exists, Shows
<1> QED BY <1>1, <1>2

(* Both writes of the counters.                                            *)
LEMMA StatsShown ==
    ASSUME TypeOK, AttemptsOK, AnswersOK, TypeOK', Grows, EndpointsShown, SnapsShown,
           NEW d \in Deliveries, WriteStats(d)
    PROVE  EndpointsShown'
<1> DEFINE e == EndpointOf(d)
<1>1. /\ pc[d] = "stats" /\ pc[d] \in Uncounted /\ logs[d] # <<>> /\ e \in Endpoints
      /\ LastLog(d).status = IF LastLog(d).reply = "ok" THEN "success" ELSE "failed"
  BY PCsAre, LastLogTyped DEF WriteStats, AnswersOK, AnswerOK, Uncounted, Deliveries, EndpointOf
<1>2. CASE ~Exists(e)
  BY <1>2, EndpointsSame DEF WriteStats
<1>3. CASE Exists(e)
  <2>1. endpoint[e] \in Row /\ Shows(endpoint[e], e) /\ snap[d] \in Counters /\ Shows(snap[d], e)
    BY <1>1, <1>3 DEF TypeOK, Exists, EndpointsShown, SnapsShown
  <2>2. /\ endpoint[e].ok \in Nat /\ endpoint[e].bad \in Nat
        /\ snap[d].ok \in Nat /\ snap[d].bad \in Nat
    BY <2>1 DEF Row, Counters
  <2>3. pc'[d] \notin Uncounted /\ UNCHANGED logs
    BY <1>3 DEF WriteStats, Goto, TypeOK, Uncounted
  <2>4. /\ snap[d].ok <= Cardinality(Counted(e, "success")')
        /\ snap[d].bad <= Cardinality(Counted(e, "failed")')
    BY <1>1, <2>1, <2>2, ShowsKept
  <2>5. \A st \in {"success", "failed"} : Cardinality(Counted(e, st)) \in Nat
                                          /\ Cardinality(Counted(e, st)') \in Nat
    BY <1>1, CountsKept DEF Grows
  <2>6. CASE LastLog(d).reply = "ok"
    <3>1. endpoint[e].ok + 1 <= Cardinality(Counted(e, "success")')
      <4>1. Cardinality(Counted(e, "success")) + 1 <= Cardinality(Counted(e, "success")')
        BY <1>1, <2>3, <2>6, CountedMore
      <4>2. endpoint[e].ok <= Cardinality(Counted(e, "success"))
        BY <2>1 DEF Shows
      <4> QED BY <2>2, <2>5, <4>1, <4>2
    <3>2. endpoint' = [endpoint EXCEPT ![e] =
                          [endpoint[e] EXCEPT !.ok = endpoint[e].ok + 1, !.bad = snap[d].bad]]
      BY <1>1, <1>3, <2>6 DEF WriteStats, TypeOK
    <3>3. /\ [endpoint[e] EXCEPT !.ok = endpoint[e].ok + 1, !.bad = snap[d].bad].ok = endpoint[e].ok + 1
          /\ [endpoint[e] EXCEPT !.ok = endpoint[e].ok + 1, !.bad = snap[d].bad].bad = snap[d].bad
      BY <2>1 DEF Row
    <3> QED BY <1>1, <2>4, <3>1, <3>2, <3>3, OneEndpoint
  <2>7. CASE LastLog(d).reply # "ok"
    <3>1. endpoint[e].bad + 1 <= Cardinality(Counted(e, "failed")')
      <4>1. Cardinality(Counted(e, "failed")) + 1 <= Cardinality(Counted(e, "failed")')
        BY <1>1, <2>3, <2>7, CountedMore
      <4>2. endpoint[e].bad <= Cardinality(Counted(e, "failed"))
        BY <2>1 DEF Shows
      <4> QED BY <2>2, <2>5, <4>1, <4>2
    <3>2. endpoint' = [endpoint EXCEPT ![e] =
                          [endpoint[e] EXCEPT !.ok = snap[d].ok, !.bad = endpoint[e].bad + 1]]
      BY <1>1, <1>3, <2>7 DEF WriteStats, TypeOK
    <3>3. /\ [endpoint[e] EXCEPT !.ok = snap[d].ok, !.bad = endpoint[e].bad + 1].ok = snap[d].ok
          /\ [endpoint[e] EXCEPT !.ok = snap[d].ok, !.bad = endpoint[e].bad + 1].bad = endpoint[e].bad + 1
      BY <2>1 DEF Row
    <3> QED BY <1>1, <2>4, <3>1, <3>2, <3>3, OneEndpoint
  <2> QED BY <2>6, <2>7
<1> QED BY <1>2, <1>3

LEMMA StatsBadShown ==
    ASSUME TypeOK, AttemptsOK, TypeOK', Grows, EndpointsShown,
           NEW d \in Deliveries, WriteStatsBad(d)
    PROVE  EndpointsShown'
<1> DEFINE e == EndpointOf(d)
<1>1. /\ pc[d] = "statsBad" /\ pc[d] \in Uncounted /\ logs[d] # <<>> /\ e \in Endpoints
      /\ LastLog(d).status = "failed"
  BY PCsAre, LastLogTyped
     DEF WriteStatsBad, AttemptsOK, LastLogOK, Uncounted, Deliveries, EndpointOf
<1>2. CASE ~Exists(e)
  BY <1>2, EndpointsSame DEF WriteStatsBad
<1>3. CASE Exists(e)
  <2>1. /\ endpoint[e] \in Row /\ Shows(endpoint[e], e)
        /\ endpoint[e].ok \in Nat /\ endpoint[e].bad \in Nat
    BY <1>1, <1>3 DEF TypeOK, Exists, EndpointsShown, Row
  <2>2. pc'[d] \notin Uncounted /\ UNCHANGED logs
    BY <1>3 DEF WriteStatsBad, Goto, TypeOK, Uncounted
  <2>3. /\ endpoint[e].ok <= Cardinality(Counted(e, "success")')
    BY <1>1, <2>1, ShowsKept
  <2>4. endpoint[e].bad + 1 <= Cardinality(Counted(e, "failed")')
    <3>1. Cardinality(Counted(e, "failed")) + 1 <= Cardinality(Counted(e, "failed")')
      BY <1>1, <2>2, CountedMore
    <3>2. endpoint[e].bad <= Cardinality(Counted(e, "failed"))
      BY <2>1 DEF Shows
    <3>3. Cardinality(Counted(e, "failed")) \in Nat /\ Cardinality(Counted(e, "failed")') \in Nat
      BY <1>1, CountsKept DEF Grows
    <3> QED BY <2>1, <3>1, <3>2, <3>3
  <2>5. endpoint' = [endpoint EXCEPT ![e] = [endpoint[e] EXCEPT !.bad = endpoint[e].bad + 1]]
    BY <1>1, <1>3 DEF WriteStatsBad, TypeOK
  <2>6. /\ [endpoint[e] EXCEPT !.bad = endpoint[e].bad + 1].ok = endpoint[e].ok
        /\ [endpoint[e] EXCEPT !.bad = endpoint[e].bad + 1].bad = endpoint[e].bad + 1
    BY <2>1 DEF Row
  <2> QED BY <1>1, <2>3, <2>4, <2>5, <2>6, OneEndpoint
<1> QED BY <1>2, <1>3

RecordsInv == /\ TypeOK /\ AttemptsOK /\ AnswersOK
              /\ RowsFinite /\ SnapsShown /\ EndpointsShown

LEMMA RecordsStep == RecordsInv /\ [Next]_vars => RecordsInv'
<1> SUFFICES ASSUME RecordsInv, [Next]_vars PROVE RecordsInv'
  OBVIOUS
<1>1. /\ TypeOK /\ AttemptsOK /\ AnswersOK /\ RowsFinite /\ SnapsShown /\ EndpointsShown
  BY DEF RecordsInv
<1>2. TypeOK' /\ AttemptsOK' /\ AnswersOK' /\ Grows /\ RowsFinite'
  BY <1>1, TypeStep, AttemptsStep, AnswersStep, GrowsStep DEF Grows
<1>3. SnapsShown'
  <2> SUFFICES ASSUME NEW d \in Deliveries PROVE Shows(snap[d], EndpointOf(d))'
    BY DEF SnapsShown
  <2>1. CASE snap'[d] = snap[d]
    BY <1>1, <1>2, <2>1, SnapsSame
  <2>2. CASE snap'[d] # snap[d]
    <3> DEFINE e == EndpointOf(d)
    <3>1. PICK n \in Events : SendWebhook(n)
      BY <2>2 DEF Next, vars, Deliver, CreateEndpoint, UpdateEndpoint, DeleteEndpoint, Edit,
             SendWebhookError, CreateLog, Post, WriteLog, WriteStats, WriteLogBad,
             WriteStatsBad, ScheduleRetry, TimerFires, StatementError, Crash
    <3>2. e \in Listening /\ snap'[d] = [ok |-> endpoint[e].ok, bad |-> endpoint[e].bad]
      BY <2>2, <3>1 DEF SendWebhook, TypeOK, EndpointOf
    <3>3. e \in Endpoints /\ Exists(e) /\ UNCHANGED endpoint
      BY <3>1, <3>2 DEF Listening, SendWebhook
    <3>4. Shows(endpoint[e], e)'
      BY <1>1, <1>2, <3>3, EndpointsKept
    <3> QED BY <3>2, <3>3, <3>4 DEF Shows, EndpointOf
  <2> QED BY <2>1, <2>2
<1>4. EndpointsShown'
  <2>1. CASE UNCHANGED endpoint
    BY <1>1, <1>2, <2>1, EndpointsSame
  <2>2. ASSUME NEW e \in Endpoints, CreateEndpoint(e) PROVE EndpointsShown'
    <3>1. \A st \in {"success", "failed"} : Cardinality(Counted(e, st)') \in Nat
      BY <1>1, <1>2, CountsKept DEF Grows
    <3>2. endpoint' = [endpoint EXCEPT ![e] = NewRow] /\ NewRow.ok = 0 /\ NewRow.bad = 0
      BY <2>2 DEF CreateEndpoint, NewRow
    <3>3. /\ NewRow.ok <= Cardinality(Counted(e, "success")')
          /\ NewRow.bad <= Cardinality(Counted(e, "failed")')
      BY <3>1, <3>2
    <3> QED BY <1>1, <1>2, <3>2, <3>3, OneEndpoint
  <2>3. ASSUME NEW e \in Endpoints, UpdateEndpoint(e) PROVE EndpointsShown'
    <3>1. Exists(e) /\ endpoint[e] \in Row
      BY <1>1, <2>3 DEF UpdateEndpoint, Exists, TypeOK
    <3>2. endpoint' = [endpoint EXCEPT ![e] = [endpoint[e] EXCEPT !.listens = ~@]]
      BY <2>3 DEF UpdateEndpoint
    <3>3. /\ [endpoint[e] EXCEPT !.listens = ~@].ok = endpoint[e].ok
          /\ [endpoint[e] EXCEPT !.listens = ~@].bad = endpoint[e].bad
      BY <3>1 DEF Row
    <3>4. /\ endpoint[e].ok <= Cardinality(Counted(e, "success")')
          /\ endpoint[e].bad <= Cardinality(Counted(e, "failed")')
      BY <1>1, <1>2, <3>1, ShowsKept DEF Row, EndpointsShown
    <3> QED BY <1>1, <1>2, <3>2, <3>3, <3>4, OneEndpoint
  <2>4. ASSUME NEW e \in Endpoints, DeleteEndpoint(e) PROVE EndpointsShown'
    BY <1>1, <1>2, <2>4, OneEndpoint DEF DeleteEndpoint
  <2>5. ASSUME NEW d \in Deliveries, WriteStats(d) PROVE EndpointsShown'
    BY <1>1, <1>2, <2>5, StatsShown
  <2>6. ASSUME NEW d \in Deliveries, WriteStatsBad(d) PROVE EndpointsShown'
    BY <1>1, <1>2, <2>6, StatsBadShown
  <2> QED BY <2>1, <2>2, <2>3, <2>4, <2>5, <2>6
          DEF Next, vars, Deliver, SendWebhook, SendWebhookError, CreateLog, Post, WriteLog,
              WriteLogBad, ScheduleRetry, TimerFires, StatementError, Crash
<1> QED BY <1>2, <1>3, <1>4 DEF RecordsInv

LEMMA RecordsInit == Init => RecordsInv
<1> SUFFICES ASSUME Init PROVE RecordsInv
  OBVIOUS
<1>1. TypeOK /\ AttemptsOK
  BY DeliveryInit
<1>2. \A d \in Deliveries : pc[d] = "idle" /\ logs[d] = <<>> /\ DOMAIN logs[d] = {}
  BY DEF Init
<1>3. AnswersOK
  BY <1>2 DEF AnswersOK, AnswerOK
<1>4. \A e \in Endpoints : RowsOf(e) = {}
  BY <1>2 DEF RowsOf, Deliveries
<1>5. RowsFinite
  BY <1>4, FS_EmptySet DEF RowsFinite
<1>6. \A e \in Endpoints, st \in {"success", "failed"} : Counted(e, st) = {}
  BY <1>1, <1>4, CountedMembers DEF CountedIsOwn
<1>7. \A e \in Endpoints, st \in {"success", "failed"} : Cardinality(Counted(e, st)) = 0
  BY <1>6, FS_EmptySet
<1>8. SnapsShown
  BY <1>7 DEF SnapsShown, Shows, Init, Deliveries, EndpointOf
<1>9. EndpointsShown
  BY <1>7 DEF EndpointsShown, Shows, Init, Exists, NewRow
<1> QED BY <1>1, <1>3, <1>5, <1>8, <1>9 DEF RecordsInv

LEMMA RecordsHold == Spec => []RecordsInv
BY RecordsInit, RecordsStep, PTL DEF Spec

(* The rows and the counters agree at every step of every delivery: a row  *)
(* that reads success was answered with 2xx, and neither an endpoint's     *)
(* counters nor the copies that deliveries will write back show an attempt *)
(* that is not over (webhook.service.ts, deliverWebhook).                  *)
THEOREM RecordsInvariant == Spec => []RecordsOK
<1>1. RecordsInv => RecordsOK
  BY DEF RecordsInv, RecordsOK, AnswersOK, SnapsShown, EndpointsShown
<1> QED BY <1>1, RecordsHold, PTL

(* The counters of an endpoint never claim more than its log rows show,    *)
(* however the increments and the stale copies of concurrent deliveries    *)
(* interleave (deliverWebhook, the update of webhookEndpoint).             *)
THEOREM CountersAreBacked == Spec => []CountersBacked
<1>1. RecordsInv => CountersBacked
  <2> SUFFICES ASSUME RecordsInv, NEW e \in Endpoints, Exists(e)
               PROVE  /\ endpoint[e].ok <= Cardinality(LoggedAs(e, "success"))
                      /\ endpoint[e].bad <= Cardinality(LoggedAs(e, "failed"))
    BY DEF CountersBacked
  <2>1. TypeOK /\ IsFiniteSet(RowsOf(e)) /\ Shows(endpoint[e], e)
    BY DEF RecordsInv, RowsFinite, EndpointsShown
  <2>2. endpoint[e].ok \in Nat /\ endpoint[e].bad \in Nat
    BY <2>1 DEF TypeOK, Exists, Row
  <2>3. ASSUME NEW st \in {"success", "failed"}
        PROVE  /\ Cardinality(Counted(e, st)) <= Cardinality(LoggedAs(e, st))
               /\ Cardinality(Counted(e, st)) \in Nat /\ Cardinality(LoggedAs(e, st)) \in Nat
    <3>1. ASSUME NEW p \in LoggedAs(e, st) PROVE p \in RowsOf(e)
      <4>1. PICK n \in Events : \E a \in DOMAIN logs[<<n, e>>] :
                logs[<<n, e>>][a].status = st /\ p = <<n, a>>
        BY <3>1, LoggedMember
      <4>2. logs[<<n, e>>] \in Seq(Log)
        BY <2>1 DEF TypeOK, Deliveries
      <4> QED BY <4>1, <4>2 DEF RowsOf
    <3>2. IsFiniteSet(LoggedAs(e, st))
      BY <2>1, <3>1, FS_Subset
    <3>3. Counted(e, st) \in SUBSET LoggedAs(e, st)
      BY DEF Counted
    <3> QED BY <3>2, <3>3, FS_Subset, FS_CardinalityType
  <2> QED BY <2>1, <2>2, <2>3 DEF Shows
<1> QED BY <1>1, RecordsHold, PTL
-----------------------------------------------------------------------------
(* What the contract sees of a delivery.                                   *)
StatusIs ==
    \A x \in Deliveries :
        /\ pc[x] \in Running => Status(x) = "trying"
        /\ pc[x] = "done" =>
               Status(x) = IF LastLog(x).status = "success" THEN "delivered" ELSE "refused"
        /\ pc[x] \notin Running \cup {"done"} => Status(x) = pc[x]

LEMMA StatusBefore == StatusIs
BY PCsAre DEF Status, StatusIs

LEMMA StatusAfter == StatusIs'
BY StatusBefore, PTL

(* Delivery keeps its contract.  A step that leaves the rows of a delivery *)
(* and keeps it where it is, or under way, changes nothing the contract    *)
(* sees.                                                                   *)
LEMMA ViewKept ==
    ASSUME NEW x \in Deliveries, logs'[x] = logs[x],
           pc'[x] = pc[x] \/ (pc[x] \in Running /\ pc'[x] \in Running)
    PROVE  Status(x)' = Status(x) /\ Answered(x)' = Answered(x)
<1>1. Answered(x)' = Answered(x) /\ LastLog(x)' = LastLog(x)
  BY DEF Answered, LastLog, Attempt
<1>2. CASE pc'[x] = pc[x]
  BY <1>1, <1>2, StatusBefore, StatusAfter DEF StatusIs
<1>3. CASE pc[x] \in Running /\ pc'[x] \in Running
  BY <1>1, <1>3, StatusBefore, StatusAfter DEF StatusIs
<1> QED BY <1>1, <1>2, <1>3

(* How a write of the last row changes what was answered.                  *)
LEMMA UpdateAnswered ==
    ASSUME TypeOK, NEW d \in Deliveries, NEW row \in Log, logs[d] # <<>>, UpdateLog(d, row)
    PROVE  /\ row.reply = LastLog(d).reply => Answered(d)' = Answered(d)
           /\ row.reply # "ok" /\ LastLog(d).reply = "none" => Answered(d)' = Answered(d)
           /\ row.reply = "ok" => Answered(d)' = Answered(d) \cup {Attempt(d)}
           /\ LastLog(d).reply = "none" => Attempt(d) \notin Answered(d)
<1>1. /\ logs' \in [Deliveries -> Seq(Log)]
      /\ Attempt(d)' = Attempt(d) /\ Attempt(d) \in Nat \ {0} /\ LastLog(d)' = row
      /\ \A a \in 1..Attempt(d) : a < Attempt(d) => logs'[d][a] = logs[d][a]
  BY UpdateLogEffect
<1>2. DOMAIN logs[d] = 1..Attempt(d) /\ DOMAIN logs'[d] = 1..Attempt(d)
  BY <1>1 DEF TypeOK, Attempt
<1>3. \A a \in 1..Attempt(d) : a # Attempt(d) => (a \in Answered(d)' <=> a \in Answered(d))
  BY <1>1, <1>2 DEF Answered
<1>4. /\ Attempt(d) \in Answered(d)' <=> row.reply = "ok"
      /\ Attempt(d) \in Answered(d) <=> LastLog(d).reply = "ok"
  BY <1>1, <1>2 DEF Answered, LastLog
<1>5. Answered(d)' \subseteq 1..Attempt(d) /\ Answered(d) \subseteq 1..Attempt(d)
      /\ Attempt(d) \in 1..Attempt(d)
  BY <1>1, <1>2 DEF Answered
<1> QED BY <1>3, <1>4, <1>5

LEMMA AnsweredFinite ==
    ASSUME TypeOK, NEW d \in Deliveries
    PROVE  IsFiniteSet(Answered(d)) /\ Cardinality(Answered(d)) \in Nat
<1>1. Answered(d) \subseteq 1..Len(logs[d]) /\ Len(logs[d]) \in Nat
  BY DEF Answered, TypeOK
<1>2. IsFiniteSet(1..Len(logs[d]))
  BY <1>1, FS_Interval
<1> QED BY <1>1, <1>2, FS_Subset, FS_CardinalityType

(* The contract's view of a step that nobody outside sees.                 *)
SameView == UNCHANGED <<StatusView, AcceptedView>>

LEMMA NothingSeen ==
    ASSUME \A x \in Deliveries : Status(x)' = Status(x) /\ Answered(x)' = Answered(x)
    PROVE  SameView
BY DEF SameView, StatusView, AcceptedView

LEMMA UpdateUnseen ==
    ASSUME TypeOK, NEW d \in Deliveries, NEW row \in Log, logs[d] # <<>>,
           UpdateLog(d, row), NEW p \in Running, Goto(d, p), pc[d] \in Running,
           row.reply = LastLog(d).reply
           \/ (row.reply # "ok" /\ LastLog(d).reply = "none")
    PROVE  SameView
<1>1. \A x \in Deliveries : x # d => logs'[x] = logs[x] /\ pc'[x] = pc[x]
  BY UpdateLogEffect DEF Goto, TypeOK
<1>2. Status(d)' = Status(d)
  BY StatusBefore, StatusAfter DEF StatusIs, Goto, TypeOK
<1>3. Answered(d)' = Answered(d)
  BY UpdateAnswered
<1> QED BY <1>1, <1>2, <1>3, ViewKept, NothingSeen

(* Deliveries that fall from under way to lost, one or all of them.        *)
LEMMA LoseRefines ==
    ASSUME TypeOK, NEW d \in Deliveries, pc[d] \in Running, UNCHANGED logs,
           Reject(d) \/ pc' = Dead
    PROVE  Contract!Next
<1> DEFINE D == {x \in Deliveries : pc'[x] # pc[x]}
<1>1. \A x \in Deliveries : /\ pc'[x] = pc[x] \/ (pc[x] \in Running /\ pc'[x] = "lost")
                            /\ Answered(x)' = Answered(x)
  BY DEF Reject, Goto, Dead, TypeOK, Answered
<1>2. \A x \in D : Status(x) = "trying" /\ Status(x)' = "lost"
  BY <1>1, PCsAre, StatusBefore, StatusAfter DEF StatusIs
<1>3. \A x \in Deliveries : x \notin D => Status(x)' = Status(x)
  BY <1>1, ViewKept
<1>4. D \in SUBSET Deliveries
  OBVIOUS
<1> HIDE DEF D
<1>5. /\ \A x \in D : StatusView[x] = "trying"
      /\ StatusView' = [x \in Deliveries |-> IF x \in D THEN "lost" ELSE StatusView[x]]
      /\ UNCHANGED AcceptedView
  BY <1>1, <1>2, <1>3, <1>4 DEF StatusView, AcceptedView
<1>6. Contract!Lose(D)
  BY <1>5 DEF Contract!Lose
<1> QED BY <1>4, <1>6 DEF Contract!Next

(* A delivery that is over with the outcome its last row reads.            *)
LEMMA SettleRefines ==
    ASSUME TypeOK, AnswersOK, NEW d \in Deliveries, pc[d] \in Running \ {"create"},
           UNCHANGED logs, Goto(d, "done")
    PROVE  Contract!Next
<1>1. /\ pc'[d] = "done" /\ \A x \in Deliveries : x # d => pc'[x] = pc[x]
      /\ logs[d] # <<>> /\ LastLog(d)' = LastLog(d) /\ Attempt(d) \in DOMAIN logs[d]
  BY DEF Goto, TypeOK, LastLog, Attempt
<1>2. Status(d) = "trying"
  BY StatusBefore DEF StatusIs
<1>3. Status(d)' = IF LastLog(d).status = "success" THEN "delivered" ELSE "refused"
  BY <1>1, PCsAre, StatusBefore, StatusAfter DEF StatusIs
<1>4. /\ \A x \in Deliveries : Answered(x)' = Answered(x)
      /\ \A x \in Deliveries : x # d => Status(x)' = Status(x)
  BY <1>1, ViewKept DEF Answered
<1>5. LastLog(d).status = "success" => AcceptedView[d] > 0
  <2> SUFFICES ASSUME LastLog(d).status = "success" PROVE AcceptedView[d] > 0
    OBVIOUS
  <2>1. Attempt(d) \in Answered(d)
    BY <1>1 DEF AnswersOK, AnswerOK, Answered, LastLog
  <2>2. Cardinality(Answered(d)) # 0 /\ Cardinality(Answered(d)) \in Nat
    BY <2>1, AnsweredFinite, FS_EmptySet
  <2> QED BY <2>2 DEF AcceptedView
<1>6. /\ StatusView[d] = "trying" /\ UNCHANGED AcceptedView
      /\ StatusView' = [StatusView EXCEPT ![d] = Status(d)']
  BY <1>2, <1>4 DEF StatusView, AcceptedView
<1>7. Contract!Settle(d)
  BY <1>3, <1>5, <1>6 DEF Contract!Settle
<1> QED BY <1>7 DEF Contract!Next

LEMMA StartRefines ==
    ASSUME TypeOK, AttemptsOK, NEW n \in Events, SendWebhook(n)
    PROVE  Contract!Next
<1> DEFINE D == {x \in Deliveries : x[1] = n /\ x[2] \in Listening}
<1>1. \A x \in Deliveries : /\ Answered(x)' = Answered(x) /\ logs'[x] = logs[x]
                            /\ pc'[x] = IF x \in D THEN "create" ELSE pc[x]
  BY DEF SendWebhook, Answered
<1>2. \A x \in D : pc[x] = "idle"
  BY DEF SendWebhook, AttemptsOK, LastLogOK
<1>3. \A x \in D : Status(x) = "idle" /\ Status(x)' = "trying"
  BY <1>1, <1>2, PCsAre, StatusBefore, StatusAfter DEF StatusIs
<1>4. \A x \in Deliveries : x \notin D => Status(x)' = Status(x)
  BY <1>1, ViewKept
<1>5. D \in SUBSET Deliveries
  OBVIOUS
<1> HIDE DEF D
<1>6. /\ \A x \in D : StatusView[x] = "idle"
      /\ StatusView' = [x \in Deliveries |-> IF x \in D THEN "trying" ELSE StatusView[x]]
      /\ UNCHANGED AcceptedView
  BY <1>1, <1>3, <1>4, <1>5 DEF StatusView, AcceptedView
<1>7. Contract!Start(D)
  BY <1>6 DEF Contract!Start
<1> QED BY <1>5, <1>7 DEF Contract!Next

LEMMA PostRefines ==
    ASSUME TypeOK, AnswersOK, NEW d \in Deliveries, Post(d)
    PROVE  Contract!Next \/ SameView
<1>1. /\ pc[d] = "post" /\ pc[d] \in Running /\ logs[d] # <<>> /\ LastLog(d) \in Log
      /\ LastLog(d).reply = "none"
  BY PCsAre, LastLogTyped DEF Post, AnswersOK, AnswerOK
<1>2. PICK reply \in {"ok", "refused", "error"} :
          /\ UpdateLog(d, [LastLog(d) EXCEPT !.reply = reply])
          /\ Goto(d, IF reply = "error" THEN "logBad" ELSE "log")
  BY DEF Post
<1> DEFINE row == [LastLog(d) EXCEPT !.reply = reply]
           p == IF reply = "error" THEN "logBad" ELSE "log"
<1>3. row \in Log /\ row.reply = reply /\ p \in Running /\ UpdateLog(d, row) /\ Goto(d, p)
  BY <1>1, <1>2, PCsAre DEF Log
<1> HIDE DEF row, p
<1>4. CASE reply # "ok"
  BY <1>1, <1>3, <1>4, UpdateUnseen
<1>5. CASE reply = "ok"
  <2>1. Answered(d)' = Answered(d) \cup {Attempt(d)} /\ Attempt(d) \notin Answered(d)
    BY <1>1, <1>3, <1>5, UpdateAnswered
  <2>2. Cardinality(Answered(d)') = Cardinality(Answered(d)) + 1
    BY <2>1, AnsweredFinite, FS_AddElement
  <2>3. \A x \in Deliveries : x # d => logs'[x] = logs[x] /\ pc'[x] = pc[x]
    BY <1>1, <1>3, UpdateLogEffect DEF Goto, TypeOK
  <2>4. \A x \in Deliveries : x # d => Status(x)' = Status(x) /\ Answered(x)' = Answered(x)
    BY <2>3, ViewKept
  <2>5. Status(d) = "trying" /\ Status(d)' = "trying"
    <3>1. pc'[d] = p
      BY <1>3 DEF Goto, TypeOK
    <3> QED BY <1>1, <1>3, <3>1, StatusBefore, StatusAfter DEF StatusIs
  <2>6. /\ StatusView[d] = "trying" /\ UNCHANGED StatusView
        /\ AcceptedView' = [AcceptedView EXCEPT ![d] = @ + 1]
    BY <2>2, <2>4, <2>5 DEF StatusView, AcceptedView
  <2>7. Contract!Accept(d)
    BY <2>6 DEF Contract!Accept
  <2> QED BY <2>7 DEF Contract!Next
<1> QED BY <1>4, <1>5

(* A delivery that goes on, or is lost with the others: both writes of the *)
(* counters, and a failing statement.                                      *)
LEMMA MoveRefines ==
    ASSUME TypeOK, AnswersOK, NEW d \in Deliveries, pc[d] \in Running, UNCHANGED logs,
           \/ \E p \in Running : Goto(d, p)
           \/ pc[d] # "create" /\ Goto(d, "done")
           \/ Reject(d)
    PROVE  Contract!Next \/ SameView
<1>1. ASSUME NEW p \in Running, Goto(d, p) PROVE SameView
  <2>1. \A x \in Deliveries : pc'[x] = pc[x] \/ (pc[x] \in Running /\ pc'[x] \in Running)
    BY <1>1 DEF Goto, TypeOK
  <2> QED BY <2>1, ViewKept, NothingSeen
<1> QED BY <1>1, SettleRefines, LoseRefines

LEMMA ContractStep ==
    ASSUME TypeOK, AttemptsOK, AnswersOK, [Next]_vars
    PROVE  Contract!Next \/ SameView
<1>1. ASSUME UNCHANGED <<pc, logs>> PROVE SameView
  BY <1>1, ViewKept, NothingSeen
<1>2. ASSUME NEW e \in Endpoints, CreateEndpoint(e) \/ UpdateEndpoint(e) \/ DeleteEndpoint(e)
      PROVE  SameView
  BY <1>1, <1>2 DEF CreateEndpoint, UpdateEndpoint, DeleteEndpoint, Edit
<1>3. ASSUME NEW n \in Events, SendWebhook(n) PROVE Contract!Next
  BY <1>3, StartRefines
<1>4. ASSUME NEW n \in Events, SendWebhookError(n) PROVE SameView
  BY <1>1, <1>4 DEF SendWebhookError
<1>5. ASSUME NEW d \in Deliveries, CreateLog(d) PROVE SameView
  <2>1. \A x \in Deliveries : x # d => logs'[x] = logs[x] /\ pc'[x] = pc[x]
    BY <1>5, CreateLogEffect DEF TypeOK
  <2>2. Status(d)' = Status(d)
    <3>1. pc[d] \in Running /\ pc'[d] \in Running
      BY <1>5, PCsAre, CreateLogEffect DEF TypeOK
    <3> QED BY <3>1, StatusBefore, StatusAfter DEF StatusIs
  <2>3. Answered(d)' = Answered(d)
    <3>1. ASSUME NEW a PROVE a \in Answered(d)' <=> a \in Answered(d)
      <4> DEFINE m == Attempt(d)
      <4>1. /\ m \in Nat /\ DOMAIN logs[d] = 1..m /\ DOMAIN logs'[d] = 1..(m + 1)
            /\ \A b \in 1..m : logs'[d][b] = logs[d][b]
            /\ logs'[d][m + 1] = NewLog
        BY <1>5, CreateLogEffect DEF LastLog
      <4> HIDE DEF m
      <4>2. m + 1 \notin Answered(d)' /\ m + 1 \notin Answered(d)
        BY <4>1 DEF Answered, NewLog
      <4>3. a \in 1..m => (a \in Answered(d)' <=> a \in Answered(d))
        BY <4>1 DEF Answered
      <4>4. a \notin 1..(m + 1) => a \notin Answered(d)' /\ a \notin Answered(d)
        BY <4>1 DEF Answered
      <4> QED BY <4>1, <4>2, <4>3, <4>4
    <3> QED BY <3>1
  <2> QED BY <2>1, <2>2, <2>3, ViewKept, NothingSeen
<1>6. ASSUME NEW d \in Deliveries, Post(d) PROVE Contract!Next \/ SameView
  BY <1>6, PostRefines
<1>7. ASSUME NEW d \in Deliveries, WriteLog(d) PROVE SameView
  <2>1. pc[d] \in Running /\ logs[d] # <<>> /\ LastLog(d) \in Log
    BY <1>7, PCsAre, LastLogTyped DEF WriteLog
  <2>2. PICK s \in {"success", "failed"} : UpdateLog(d, [LastLog(d) EXCEPT !.status = s])
    BY <1>7 DEF WriteLog
  <2>3. /\ [LastLog(d) EXCEPT !.status = s] \in Log
        /\ [LastLog(d) EXCEPT !.status = s].reply = LastLog(d).reply
        /\ "stats" \in Running /\ Goto(d, "stats")
    BY <1>7, <2>1, PCsAre DEF Log, WriteLog
  <2> QED BY <2>1, <2>2, <2>3, UpdateUnseen
<1>8. ASSUME NEW d \in Deliveries, WriteStats(d) PROVE Contract!Next \/ SameView
  BY <1>8, PCsAre, MoveRefines DEF WriteStats
<1>9. ASSUME NEW d \in Deliveries, WriteLogBad(d) PROVE SameView
  <2>1. pc[d] \in Running /\ logs[d] # <<>> /\ LastLog(d) \in Log
    BY <1>9, PCsAre, LastLogTyped DEF WriteLogBad
  <2>2. /\ [LastLog(d) EXCEPT !.status = "failed"] \in Log
        /\ [LastLog(d) EXCEPT !.status = "failed"].reply = LastLog(d).reply
        /\ UpdateLog(d, [LastLog(d) EXCEPT !.status = "failed"])
        /\ "statsBad" \in Running /\ Goto(d, "statsBad")
    BY <1>9, <2>1, PCsAre DEF Log, WriteLogBad
  <2> QED BY <2>1, <2>2, UpdateUnseen
<1>10. ASSUME NEW d \in Deliveries, WriteStatsBad(d) PROVE Contract!Next \/ SameView
  BY <1>10, PCsAre, MoveRefines DEF WriteStatsBad
<1>11. ASSUME NEW d \in Deliveries, ScheduleRetry(d) PROVE Contract!Next \/ SameView
  BY <1>11, PCsAre, MoveRefines DEF ScheduleRetry
<1>12. ASSUME NEW d \in Deliveries, TimerFires(d) PROVE SameView
  <2>1. pc[d] \in Running /\ logs[d] # <<>> /\ LastLog(d) \in Log
    BY <1>12, PCsAre, LastLogTyped DEF TimerFires
  <2>2. /\ [LastLog(d) EXCEPT !.retryCount = @ + 1] \in Log
        /\ [LastLog(d) EXCEPT !.retryCount = @ + 1].reply = LastLog(d).reply
        /\ UpdateLog(d, [LastLog(d) EXCEPT !.retryCount = @ + 1])
        /\ "create" \in Running /\ Goto(d, "create")
    BY <1>12, <2>1, PCsAre DEF Log, TimerFires
  <2> QED BY <2>1, <2>2, UpdateUnseen
<1>13. ASSUME NEW d \in Deliveries, StatementError(d) PROVE Contract!Next \/ SameView
  BY <1>13, PCsAre, MoveRefines DEF StatementError
<1>14. ASSUME Crash PROVE Contract!Next
  <2>1. PICK d \in Deliveries : pc[d] \in Running
    BY <1>14 DEF Crash
  <2> QED BY <1>14, <2>1, LoseRefines DEF Crash
<1>15. ASSUME UNCHANGED vars PROVE SameView
  BY <1>1, <1>15 DEF vars
<1> QED BY <1>2, <1>3, <1>4, <1>5, <1>6, <1>7, <1>8, <1>9, <1>10, <1>11, <1>12, <1>13,
           <1>14, <1>15 DEF Next, Deliver

(* Delivery implements its contract: every step of every delivery, of the  *)
(* merchant's edits, of a failing statement and of a crash is a step that  *)
(* DeliveryContract allows, or one nobody sees.  So an outcome is final,   *)
(* and a delivery reads delivered only if the receiver accepted an attempt *)
(* (webhook.service.ts, sendWebhook, deliverWebhook, scheduleRetry).       *)
THEOREM ImplementsContract == Spec => KeepsContract
<1>1. Init => Contract!Init
  <2> SUFFICES ASSUME Init PROVE Contract!Init
    OBVIOUS
  <2>1. \A d \in Deliveries : Status(d) = "idle"
    BY PCsAre, StatusBefore DEF Init, StatusIs
  <2>2. \A d \in Deliveries : Cardinality(Answered(d)) = 0
    <3>1. \A d \in Deliveries : Answered(d) = {}
      BY DEF Init, Answered
    <3> QED BY <3>1, FS_EmptySet
  <2> QED BY <2>1, <2>2 DEF Contract!Init, StatusView, AcceptedView
<1>2. RecordsInv /\ [Next]_vars => [Contract!Next]_<<StatusView, AcceptedView>>
  BY ContractStep DEF RecordsInv, SameView
<1> QED BY <1>1, <1>2, RecordsHold, PTL DEF Spec, KeepsContract, Contract!Spec
=============================================================================
