----------------------- MODULE WebhookService_proofs -----------------------
(***************************************************************************)
(* The webhook service for any number of messages, endpoints, schedulers,  *)
(* attempts and faults: WebhookInv is inductive, so successes are real and *)
(* final, rows are single and the attempts limited.                        *)
(***************************************************************************)
EXTENDS WebhookService, FiniteSetTheorems, TLAPS

Tasks == [Schedulers -> [Deliveries -> Task]]

\* What the type invariant says of the tables, in the forms the proofs use.
LEMMA Types ==
    ASSUME TypeOK
    PROVE  /\ \A d \in Deliveries : row[d] \in Row /\ inserts[d] \in Nat
           /\ \A s \in Schedulers : /\ task[s] \in [Deliveries -> Task]
                                    /\ pc[s] \in {"idle", "claiming", "sending", "dead"}
           /\ \A s \in Schedulers, d \in Deliveries : task[s][d] \in Task
           /\ row \in [Deliveries -> Row] /\ task \in Tasks
  BY DEF TypeOK, Tasks

\* The endpoints that get a row are endpoints.
LEMMA MatchingEndpoints == Matching \subseteq Endpoints
  BY DEF Matching, Endpoints

NoTasks == [d \in Deliveries |-> NoTask]

\* Giving a scheduler's task on one delivery another value.
LEMMA OneTask ==
    ASSUME TypeOK, NEW s \in Schedulers, NEW d \in Deliveries, NEW k \in Task,
           task' = [task EXCEPT ![s] = [task[s] EXCEPT ![d] = k]]
    PROVE  /\ task' \in Tasks
           /\ task'[s][d] = k
           /\ \A t \in Schedulers, e \in Deliveries :
                 <<t, e>> # <<s, d>> => task'[t][e] = task[t][e]
  BY DEF TypeOK, Tasks

\* A scheduler drops all it was doing.
LEMMA DropTasks ==
    ASSUME TypeOK, NEW s \in Schedulers, task' = [task EXCEPT ![s] = NoTasks]
    PROVE  /\ task' \in Tasks
           /\ \A e \in Deliveries : task'[s][e] = NoTask
           /\ \A t \in Schedulers \ {s} : task'[t] = task[t]
  <1>1. NoTasks \in [Deliveries -> Task]
    BY DEF NoTasks, NoTask, Task
  <1>2. QED
    BY <1>1 DEF TypeOK, Tasks, NoTasks

\* The sets of schedulers that hold a lease are finite.
LEMMA LeasedFinite ==
    ASSUME NEW d \in Deliveries
    PROVE  /\ IsFiniteSet(Leased(d)) /\ Cardinality(Leased(d)) \in Nat
           /\ Cardinality(Leased(d)) =< Cardinality(Schedulers)
           /\ Cardinality(Schedulers) \in Nat
  <1>1. Leased(d) \in SUBSET Schedulers
    BY DEF Leased
  <1>2. QED
    BY <1>1, WebhookAssumption, FS_Subset, FS_CardinalityType

\* Fewer leases have a smaller count.
LEMMA FewerLeased ==
    ASSUME NEW d \in Deliveries, Leased(d)' \subseteq Leased(d)
    PROVE  Cardinality(Leased(d)') \in Nat /\ Cardinality(Leased(d)') =< Cardinality(Leased(d))
  BY LeasedFinite, FS_Subset, FS_CardinalityType

-----------------------------------------------------------------------------
(* The consumer                                                            *)

\* A message is published, taken in hand, skipped, finished or given up, or the
\* consumer starts again: the rows and the schedulers are left alone.
LEMMA ConsumerStep ==
    ASSUME WebhookInv,
           \/ Publish \/ TakeMessage \/ SkipMessage \/ FinishMessage
           \/ MessageFails \/ RestartConsumer
    PROVE  WebhookInv'
  <1>0. /\ TypeOK /\ ConsumerInv /\ RowInv
        /\ log \in Nat /\ MaxOffset \in Nat /\ log =< MaxOffset
        /\ consumer \in [next: 1..(MaxOffset + 1), at: 0..MaxOffset, left: SUBSET Endpoints]
        /\ committed \in 1..(MaxOffset + 1) /\ processed \subseteq Offsets
    BY WebhookAssumption DEF WebhookInv, TypeOK
  <1>1. UNCHANGED <<inserts, row, pc, task, received>>
    BY DEF Publish, TakeMessage, SkipMessage, FinishMessage, MessageFails,
           RestartConsumer, schedulerVars
  <1>2. faults' \in 0..MaxFaults
    BY WebhookAssumption DEF Publish, TakeMessage, SkipMessage, FinishMessage, MessageFails,
           RestartConsumer, Fault, WebhookInv, TypeOK
  <1>3. TaskInv' /\ LimitInv' /\ SuccessIsReceived'
    BY <1>1 DEF WebhookInv, TaskInv, LimitInv, SuccessIsReceived, Leased, Busy
  <1>m. Matching' = Matching
    BY DEF Matching, PayloadEventType
  <1> DEFINE Goal ==
        /\ log' \in 0..MaxOffset
        /\ consumer' \in [next: 1..(MaxOffset + 1), at: 0..MaxOffset, left: SUBSET Endpoints]
        /\ committed' \in 1..(MaxOffset + 1) /\ processed' \subseteq Offsets
        /\ ConsumerInv' /\ RowInv'
  <1>a. ASSUME processed' = processed PROVE RowInv'
    BY <1>0, <1>1, <1>a DEF RowInv
  <1>4. ASSUME Publish PROVE Goal
    <2>1. log' = log + 1 /\ log < MaxOffset /\ UNCHANGED <<consumer, committed, processed>>
      BY <1>4 DEF Publish
    <2>2. ConsumerInv'
      BY <1>0, <1>1, <1>m, <2>1 DEF ConsumerInv
    <2>3. QED
      BY <1>0, <1>a, <2>1, <2>2
  <1>5. ASSUME TakeMessage PROVE Goal
    <2>1. /\ consumer.next =< log /\ consumer.next \notin processed
          /\ processed' = processed \cup {consumer.next}
          /\ consumer' = [next |-> consumer.next + 1, at |-> consumer.next, left |-> Matching]
          /\ UNCHANGED <<log, committed>>
      BY <1>5 DEF TakeMessage, Available, AlreadyProcessed
    <2>2. consumer.next \in Offsets
      BY <1>0, <2>1 DEF Offsets
    <2>3. \A e \in Matching : inserts[<<consumer.next, e>>] = 0
      <3>1. SUFFICES ASSUME NEW e \in Matching
                     PROVE  inserts[<<consumer.next, e>>] = 0
        OBVIOUS
      <3>2. <<consumer.next, e>> \in Deliveries
        BY <2>2, MatchingEndpoints DEF Deliveries
      <3>3. inserts[<<consumer.next, e>>] \in Nat
        BY <1>0, <3>2, Types
      <3>4. QED
        BY <1>0, <2>1, <3>2, <3>3 DEF RowInv
    <2>4. ConsumerInv'
      <3>1. /\ consumer'.next = consumer.next + 1 /\ consumer'.at = consumer.next
            /\ consumer'.left = Matching /\ consumer.next \in processed'
            /\ log' = log /\ committed' = committed /\ inserts' = inserts
        BY <1>1, <2>1
      <3>2. committed =< consumer.next + 1 /\ consumer.next + 1 =< log + 1
        BY <1>0, <2>1 DEF ConsumerInv
      <3>3. QED
        BY <1>m, <2>3, <3>1, <3>2 DEF ConsumerInv
    <2>5. RowInv'
      BY <1>0, <1>1, <2>1 DEF RowInv
    <2>6. QED
      <3>1. /\ log' \in 0..MaxOffset /\ committed' \in 1..(MaxOffset + 1)
            /\ processed' \subseteq Offsets
        BY <1>0, <2>1, <2>2
      <3>2. consumer.next + 1 \in 1..(MaxOffset + 1) /\ consumer.next \in 0..MaxOffset
        BY <1>0, <2>1
      <3>3. consumer' \in [next: 1..(MaxOffset + 1), at: 0..MaxOffset, left: SUBSET Endpoints]
        BY <2>1, <3>2, MatchingEndpoints
      <3>4. QED
        BY <2>4, <2>5, <3>1, <3>3
  <1>6. ASSUME SkipMessage PROVE Goal
    <2>1. /\ consumer.next =< log
          /\ consumer' = [next |-> consumer.next + 1, at |-> 0, left |-> {}]
          /\ committed' \in {committed, consumer.next + 1}
          /\ UNCHANGED <<log, processed>>
      BY <1>6 DEF SkipMessage, Available, Idling, CommitOffset
    <2>2. ConsumerInv'
      BY <1>0, <2>1 DEF ConsumerInv
    <2>3. QED
      BY <1>0, <1>a, <2>1, <2>2
  <1>7. ASSUME FinishMessage PROVE Goal
    <2>1. /\ consumer.at # 0
          /\ consumer' = [next |-> consumer.next, at |-> 0, left |-> {}]
          /\ committed' \in {committed, consumer.at + 1}
          /\ UNCHANGED <<log, processed>>
      BY <1>7 DEF FinishMessage, Idling, CommitOffset
    <2>2. consumer.at + 1 = consumer.next
      BY <1>0, <2>1 DEF ConsumerInv
    <2>3. ConsumerInv'
      BY <1>0, <2>1, <2>2 DEF ConsumerInv
    <2>4. QED
      BY <1>0, <1>a, <2>1, <2>2, <2>3
  <1>8. ASSUME MessageFails PROVE Goal
    <2>1. UNCHANGED <<log, committed, processed>>
      BY <1>8 DEF MessageFails
    <2>2. \/ /\ consumer.next =< log
             /\ consumer' = [next |-> consumer.next + 1, at |-> 0, left |-> {}]
          \/ consumer' = [next |-> consumer.next, at |-> 0, left |-> {}]
      BY <1>8 DEF MessageFails, Available, Idling
    <2>3. ConsumerInv'
      BY <1>0, <2>1, <2>2 DEF ConsumerInv
    <2>4. QED
      BY <1>0, <1>a, <2>1, <2>2, <2>3
  <1>9. ASSUME RestartConsumer PROVE Goal
    <2>1. /\ UNCHANGED <<log, committed, processed>>
          /\ consumer' = [next |-> committed, at |-> 0, left |-> {}]
      BY <1>9 DEF RestartConsumer, Idling
    <2>2. ConsumerInv'
      BY <1>0, <2>1 DEF ConsumerInv
    <2>3. QED
      BY <1>0, <1>a, <2>1, <2>2
  <1>10. Goal
    BY <1>4, <1>5, <1>6, <1>7, <1>8, <1>9
  <1>c. cutShort' \subseteq Offsets
    <2>1. cutShort \subseteq Offsets /\ (Available => consumer.next \in Offsets)
          /\ (consumer.at # 0 => consumer.at \in Offsets)
      BY <1>0 DEF TypeOK, Available, Offsets
    <2>2. QED
      BY <2>1 DEF Publish, TakeMessage, SkipMessage, FinishMessage, MessageFails, RestartConsumer
  <1>11. TypeOK'
    BY <1>0, <1>1, <1>2, <1>10, <1>c DEF TypeOK
  <1>12. QED
    BY <1>3, <1>10, <1>11 DEF WebhookInv

\* A row is inserted where there was none, so no scheduler is at work on it.
LEMMA InsertStep ==
    ASSUME WebhookInv, NEW e \in Endpoints, InsertDelivery(e)
    PROVE  WebhookInv'
  <1> DEFINE d == <<consumer.at, e>>
             fresh == [status |-> "pending", attempts |-> 0, due |-> TRUE, lease |-> "fresh"]
  <1>0. TypeOK /\ ConsumerInv /\ RowInv /\ TaskInv /\ LimitInv /\ SuccessIsReceived
    BY DEF WebhookInv
  <1>1. /\ consumer.at # 0 /\ e \in consumer.left
        /\ inserts' = [inserts EXCEPT ![d] = @ + 1]
        /\ row' = [row EXCEPT ![d] = fresh]
        /\ consumer' = [consumer EXCEPT !.left = @ \ {e}]
        /\ UNCHANGED <<log, committed, processed, cutShort, pc, task, received, faults>>
    BY DEF InsertDelivery, schedulerVars
  <1>2. consumer \in [next: 1..(MaxOffset + 1), at: 0..MaxOffset, left: SUBSET Endpoints]
    BY <1>0 DEF TypeOK
  <1>3. d \in Deliveries /\ inserts[d] = 0 /\ consumer.at \in processed
    BY <1>0, <1>1, <1>2, WebhookAssumption DEF ConsumerInv, Deliveries, Offsets
  <1>4. /\ consumer'.next = consumer.next /\ consumer'.at = consumer.at
        /\ consumer'.left = consumer.left \ {e}
        /\ consumer' \in [next: 1..(MaxOffset + 1), at: 0..MaxOffset, left: SUBSET Endpoints]
    BY <1>1, <1>2
  <1>5. /\ d[1] = consumer.at /\ row[d].status = "absent" /\ fresh \in Row
        /\ fresh.status = "pending" /\ fresh.attempts = 0
    BY <1>0, <1>3 DEF RowInv, Row
  <1> HIDE DEF d, fresh
  <1>6. /\ inserts'[d] = 1 /\ row'[d] = fresh
        /\ \A f \in Deliveries \ {d} : inserts'[f] = inserts[f] /\ row'[f] = row[f]
    BY <1>0, <1>1, <1>3 DEF TypeOK
  <1>7. TypeOK'
    <2>1. inserts' \in [Deliveries -> Nat] /\ row' \in [Deliveries -> Row]
      BY <1>0, <1>1, <1>3, <1>5 DEF TypeOK
    <2>2. QED
      BY <1>0, <1>1, <1>4, <2>1 DEF TypeOK
  <1>8. RowInv'
    BY <1>0, <1>1, <1>3, <1>5, <1>6 DEF RowInv
  <1>9. ConsumerInv'
    <2>1. \A g \in consumer'.left : inserts'[<<consumer.at, g>>] = 0
      <3>1. SUFFICES ASSUME NEW g \in consumer.left, g # e
                     PROVE  inserts'[<<consumer.at, g>>] = 0
        BY <1>4
      <3>2. <<consumer.at, g>> \in Deliveries \ {d}
        BY <1>1, <1>2, <3>1, WebhookAssumption DEF Deliveries, Offsets, d
      <3>3. QED
        BY <1>0, <1>1, <1>6, <3>1, <3>2 DEF ConsumerInv
    <2>2. QED
      BY <1>0, <1>1, <1>4, <2>1 DEF ConsumerInv, Matching
  <1>10. TaskInv'
    <2>1. \A s \in Schedulers : Busy(s)' = Busy(s)
      BY <1>1 DEF Busy
    <2>2. QED
      BY <1>0, <1>1, <1>5, <1>6, <2>1 DEF TaskInv
  <1>11. LimitInv'
    <2>1. ASSUME NEW f \in Deliveries
          PROVE  row'[f].attempts + Cardinality(Leased(f)') < MaxAttempts + Cardinality(Schedulers)
      <3>1. Leased(f)' = Leased(f)
        BY <1>1 DEF Leased
      <3>2. CASE f # d
        BY <1>0, <1>6, <3>1, <3>2 DEF LimitInv
      <3>3. CASE f = d
        <4>1. row'[f].attempts = 0
          BY <1>5, <1>6, <3>3
        <4>2. Cardinality(Leased(f)) =< Cardinality(Schedulers)
              /\ Cardinality(Leased(f)) \in Nat /\ Cardinality(Schedulers) \in Nat
          BY LeasedFinite
        <4>3. QED
          BY <3>1, <4>1, <4>2, WebhookAssumption
      <3>4. QED
        BY <3>2, <3>3
    <2>2. QED
      BY <2>1 DEF LimitInv
  <1>12. SuccessIsReceived'
    BY <1>0, <1>1, <1>5, <1>6 DEF SuccessIsReceived
  <1>13. QED
    BY <1>7, <1>8, <1>9, <1>10, <1>11, <1>12 DEF WebhookInv

-----------------------------------------------------------------------------
(* The schedulers                                                          *)

\* The variables of the consumer and the insert counts are left alone.
SchedulerOnly == UNCHANGED <<log, consumer, committed, processed, cutShort, inserts>>

\* What every step of a scheduler has to keep.
SchedulerGoal ==
    /\ row' \in [Deliveries -> Row]
    /\ pc' \in [Schedulers -> {"idle", "claiming", "sending", "dead"}]
    /\ task' \in Tasks
    /\ received' \subseteq Deliveries
    /\ faults' \in 0..MaxFaults
    /\ \A d \in Deliveries : row'[d].status = "absent" <=> row[d].status = "absent"
    /\ TaskInv' /\ LimitInv' /\ SuccessIsReceived'

\* It is enough.
LEMMA SchedulerSuffices ==
    ASSUME WebhookInv, SchedulerOnly, SchedulerGoal
    PROVE  WebhookInv'
  <1>1. TypeOK'
    BY DEF WebhookInv, TypeOK, SchedulerOnly, SchedulerGoal, Tasks
  <1>2. Matching' = Matching
    BY DEF Matching, PayloadEventType
  <1>3. ConsumerInv'
    BY <1>2 DEF WebhookInv, ConsumerInv, SchedulerOnly
  <1>4. RowInv'
    BY DEF WebhookInv, RowInv, SchedulerOnly, SchedulerGoal
  <1>5. QED
    BY <1>1, <1>3, <1>4 DEF WebhookInv, SchedulerGoal

\* Fields of a row and of a task are typed.
LEMMA RowFields ==
    ASSUME NEW r \in Row
    PROVE  r.attempts \in Nat /\ r.due \in BOOLEAN /\ r.lease \in {"fresh", "old"}
           /\ r.status \in {"absent", "pending", "processing", "success"}
  BY DEF Row

\* Steps that leave the tasks alone and move no row to success: the clock and the
\* reclaiming of leases.
LEMMA RowsOnly ==
    ASSUME WebhookInv, row' \in [Deliveries -> Row],
           \A d \in Deliveries :
              /\ row'[d].attempts = row[d].attempts
              /\ \/ row'[d].status = row[d].status
                 \/ row[d].status = "processing" /\ row'[d].status = "pending",
           UNCHANGED <<task, received, faults>>,
           pc' \in [Schedulers -> {"idle", "claiming", "sending", "dead"}],
           \A s \in Schedulers : pc'[s] # "sending" => pc[s] # "sending"
    PROVE  SchedulerGoal
  <1>1. \A d \in Deliveries : Leased(d)' = Leased(d)
    BY DEF Leased
  <1>2. LimitInv'
    BY <1>1 DEF WebhookInv, LimitInv
  <1>3. \A s \in Schedulers : Busy(s)' = Busy(s)
    BY DEF Busy
  <1>4. TaskInv'
    BY <1>3 DEF WebhookInv, TaskInv
  <1>5. SuccessIsReceived'
    BY DEF WebhookInv, SuccessIsReceived
  <1>6. QED
    BY <1>2, <1>4, <1>5 DEF SchedulerGoal, WebhookInv, TypeOK, Tasks

\* Time passes for a row.
LEMMA ClockStep ==
    ASSUME WebhookInv, NEW d \in Deliveries, Clock(d)
    PROVE  WebhookInv'
  <1>0. row \in [Deliveries -> Row] /\ row[d] \in Row /\ pc \in [Schedulers -> {"idle", "claiming", "sending", "dead"}]
    BY DEF WebhookInv, TypeOK
  <1>1. UNCHANGED <<log, consumer, committed, processed, cutShort, inserts, pc, task, received, faults>>
    BY DEF Clock, consumerVars, schedulerVars
  <1>2. \/ row' = [row EXCEPT ![d] = [row[d] EXCEPT !.due = TRUE]]
        \/ row' = [row EXCEPT ![d] = [row[d] EXCEPT !.lease = "old"]]
    BY DEF Clock
  <1>3. /\ [row[d] EXCEPT !.due = TRUE] \in Row /\ [row[d] EXCEPT !.lease = "old"] \in Row
        /\ [row[d] EXCEPT !.due = TRUE].attempts = row[d].attempts
        /\ [row[d] EXCEPT !.lease = "old"].attempts = row[d].attempts
        /\ [row[d] EXCEPT !.due = TRUE].status = row[d].status
        /\ [row[d] EXCEPT !.lease = "old"].status = row[d].status
    BY <1>0 DEF Row
  <1>4. /\ row' \in [Deliveries -> Row]
        /\ \A e \in Deliveries : row'[e].attempts = row[e].attempts
                                 /\ row'[e].status = row[e].status
    BY <1>0, <1>2, <1>3
  <1>5. SchedulerGoal
    <2>1. pc' = pc /\ UNCHANGED <<task, received, faults>>
      BY <1>1
    <2>2. QED
      BY <1>0, <1>4, <2>1, RowsOnly
  <1>6. QED
    BY <1>1, <1>5, SchedulerSuffices DEF SchedulerOnly

\* Old leases are taken back.
LEMMA ReclaimStep ==
    ASSUME WebhookInv, NEW s \in Schedulers, Reclaim(s)
    PROVE  WebhookInv'
  <1>0. row \in [Deliveries -> Row] /\ pc \in [Schedulers -> {"idle", "claiming", "sending", "dead"}]
    BY DEF WebhookInv, TypeOK
  <1>1. /\ UNCHANGED <<log, consumer, committed, processed, cutShort, inserts, task, received, faults>>
        /\ pc[s] = "idle" /\ pc' = [pc EXCEPT ![s] = "claiming"]
        /\ row' = [d \in Deliveries |-> Reclaimed(row[d])]
    BY DEF Reclaim, consumerVars
  <1>2. \A r \in Row : /\ Reclaimed(r) \in Row /\ Reclaimed(r).attempts = r.attempts
                       /\ \/ Reclaimed(r).status = r.status
                          \/ r.status = "processing" /\ Reclaimed(r).status = "pending"
    <2>1. SUFFICES ASSUME NEW r \in Row
                   PROVE  /\ Reclaimed(r) \in Row /\ Reclaimed(r).attempts = r.attempts
                          /\ \/ Reclaimed(r).status = r.status
                             \/ r.status = "processing" /\ Reclaimed(r).status = "pending"
      OBVIOUS
    <2>2. CASE r.status = "processing" /\ r.lease = "old"
      <3>1. Reclaimed(r) = [status |-> "pending", attempts |-> r.attempts,
                            due |-> r.due, lease |-> "fresh"]
        BY <2>2 DEF Reclaimed, Row
      <3>2. QED
        BY <2>2, <3>1, RowFields DEF Row
    <2>3. CASE ~(r.status = "processing" /\ r.lease = "old")
      <3>1. Reclaimed(r) = r
        BY <2>3 DEF Reclaimed
      <3>2. QED
        BY <3>1
    <2>4. QED
      BY <2>2, <2>3
  <1>3. SchedulerGoal
    BY <1>0, <1>1, <1>2, RowsOnly
  <1>4. QED
    BY <1>1, <1>3, SchedulerSuffices DEF SchedulerOnly

\* A step of a scheduler on one delivery: the task goes on to k, never back to
\* leased, and an attempt is counted only for a task that was leased.
LEMMA TaskMoves ==
    ASSUME WebhookInv, NEW s \in Schedulers, NEW d \in Deliveries, NEW k \in Task, NEW r \in Row,
           task' = [task EXCEPT ![s] = [task[s] EXCEPT ![d] = k]],
           row' = [row EXCEPT ![d] = r],
           task[s][d].state # "none", k.state # "leased",
           \/ r.attempts = row[d].attempts
           \/ r.attempts = row[d].attempts + 1 /\ task[s][d].state = "leased",
           r.status # "absent",
           r.status = "success" => row[d].status = "success" \/ d \in received',
           k.state = "received" => d \in received',
           received \subseteq received', received' \subseteq Deliveries,
           faults' \in 0..MaxFaults, pc' = pc
    PROVE  SchedulerGoal
  <1>0. TypeOK /\ TaskInv /\ LimitInv /\ SuccessIsReceived
    BY DEF WebhookInv
  <1>1. /\ task' \in Tasks /\ task'[s][d] = k
        /\ \A t \in Schedulers, e \in Deliveries :
              <<t, e>> # <<s, d>> => task'[t][e] = task[t][e]
    BY <1>0, OneTask
  <1>2. /\ row' \in [Deliveries -> Row] /\ row'[d] = r
        /\ \A e \in Deliveries \ {d} : row'[e] = row[e]
    BY <1>0, Types
  <1>3. row[d].status # "absent"
    BY <1>0 DEF TaskInv
  <1>4. TaskInv'
    <2>1. \A t \in Schedulers : Busy(t)' \subseteq Busy(t)
      BY <1>1 DEF Busy
    <2>2. \A t \in Schedulers : pc'[t] # "sending" => Busy(t)' = {}
      BY <1>0, <2>1 DEF TaskInv
    <2>3. ASSUME NEW t \in Schedulers, NEW e \in Deliveries
          PROVE  /\ task'[t][e].state = "received" => e \in received'
                 /\ task'[t][e].state # "none" => row'[e].status # "absent"
      <3>1. CASE <<t, e>> = <<s, d>>
        BY <1>1, <1>2, <3>1
      <3>2. CASE <<t, e>> # <<s, d>>
        BY <1>0, <1>1, <1>2, <1>3, <3>2 DEF TaskInv
      <3>3. QED
        BY <3>1, <3>2
    <2>4. QED
      BY <2>2, <2>3 DEF TaskInv
  <1>5. LimitInv'
    <2>1. ASSUME NEW e \in Deliveries
          PROVE  row'[e].attempts + Cardinality(Leased(e)') < MaxAttempts + Cardinality(Schedulers)
      <3>1. Leased(e)' \subseteq Leased(e)
        BY <1>1 DEF Leased
      <3>2. /\ Cardinality(Leased(e)') \in Nat
            /\ Cardinality(Leased(e)') =< Cardinality(Leased(e))
            /\ Cardinality(Leased(e)) \in Nat /\ Cardinality(Schedulers) \in Nat
        BY <3>1, FewerLeased, LeasedFinite
      <3>3. /\ row[e].attempts \in Nat
            /\ row[e].attempts + Cardinality(Leased(e)) < MaxAttempts + Cardinality(Schedulers)
        BY <1>0, Types, RowFields DEF LimitInv
      <3>4. CASE row'[e].attempts = row[e].attempts
        BY <3>2, <3>3, <3>4, WebhookAssumption
      <3>5. CASE e = d /\ r.attempts = row[d].attempts + 1 /\ task[s][d].state = "leased"
        <4>1. Leased(d)' = Leased(d) \ {s} /\ s \in Leased(d)
          BY <1>1, <3>5 DEF Leased
        <4>2. Cardinality(Leased(d)') = Cardinality(Leased(d)) - 1
          BY <4>1, LeasedFinite, FS_RemoveElement
        <4>3. QED
          BY <1>2, <3>2, <3>3, <3>5, <4>2, WebhookAssumption
      <3>6. QED
        BY <1>2, <3>4, <3>5
    <2>2. QED
      BY <2>1 DEF LimitInv
  <1>6. SuccessIsReceived'
    BY <1>0, <1>2 DEF SuccessIsReceived
  <1>7. \A e \in Deliveries : row'[e].status = "absent" <=> row[e].status = "absent"
    BY <1>2, <1>3
  <1>8. QED
    BY <1>0, <1>1, <1>2, <1>4, <1>5, <1>6, <1>7 DEF SchedulerGoal, TypeOK

\* The steps of a task: the attempt is counted, the endpoint receives it, and it
\* ends well or not.
LEMMA TaskStep ==
    ASSUME WebhookInv, NEW s \in Schedulers, NEW d \in Deliveries,
           Attempt(s, d) \/ EndpointReceives(s, d) \/ TaskFails(s, d)
    PROVE  WebhookInv'
  <1>0. /\ TypeOK /\ TaskInv /\ row \in [Deliveries -> Row] /\ row[d] \in Row
        /\ task[s][d] \in Task /\ faults \in 0..MaxFaults /\ received \subseteq Deliveries
        /\ task[s] \in [Deliveries -> Task]
    BY Types DEF WebhookInv, TypeOK
  <1>1. /\ row[d].attempts \in Nat /\ row = [row EXCEPT ![d] = row[d]]
        /\ row[d].status = "success" => d \in received
    BY <1>0, RowFields DEF WebhookInv, SuccessIsReceived
  <1>2. NoTask \in Task /\ NoTask.state = "none"
    BY DEF NoTask, Task
  <1>3. SchedulerOnly /\ pc' = pc
    BY DEF SchedulerOnly, Attempt, CountAttempt, EndpointReceives, SendSucceeds, SendFails,
           TaskFails, consumerVars
  <1>a. ASSUME task[s][d].state # "none" PROVE row[d].status # "absent"
    BY <1>0, <1>a DEF TaskInv
  <1>4. CASE CountAttempt(s, d)
    <2> DEFINE k == [task[s][d] EXCEPT !.state = "sending"]
               r == [row[d] EXCEPT !.attempts = row[d].attempts + 1]
    <2>1. /\ task[s][d].state = "leased" /\ UNCHANGED <<received, faults>>
          /\ task' = [task EXCEPT ![s] = [task[s] EXCEPT ![d] = k]]
          /\ row' = [row EXCEPT ![d] = r]
      BY <1>4 DEF CountAttempt
    <2>2. k \in Task /\ k.state = "sending"
      BY <1>0 DEF Task
    <2>3. r \in Row /\ r.attempts = row[d].attempts + 1 /\ r.status = row[d].status
      BY <1>0, <1>1 DEF Row
    <2> HIDE DEF k, r
    <2>4. SchedulerGoal
      <3>1. /\ task' = [task EXCEPT ![s] = [task[s] EXCEPT ![d] = k]]
            /\ row' = [row EXCEPT ![d] = r] /\ k \in Task /\ r \in Row /\ pc' = pc
            /\ task[s][d].state # "none" /\ task[s][d].state = "leased"
            /\ k.state # "leased" /\ k.state # "received"
        BY <1>3, <2>1, <2>2, <2>3
      <3>2. /\ r.attempts = row[d].attempts + 1 /\ r.status # "absent"
            /\ r.status = "success" => row[d].status = "success"
            /\ received \subseteq received' /\ received' \subseteq Deliveries
            /\ faults' \in 0..MaxFaults
        BY <1>0, <1>a, <2>1, <2>3
      <3>3. QED
        BY <3>1, <3>2, TaskMoves
    <2>5. QED
      BY <1>3, <2>4, SchedulerSuffices
  <1>5. CASE EndpointReceives(s, d)
    <2> DEFINE k == [task[s][d] EXCEPT !.state = "received"]
    <2>1. /\ task[s][d].state = "sending" /\ UNCHANGED <<row, faults>>
          /\ task' = [task EXCEPT ![s] = [task[s] EXCEPT ![d] = k]]
          /\ received' = received \cup {d}
      BY <1>5 DEF EndpointReceives
    <2>2. k \in Task /\ k.state = "received"
      BY <1>0 DEF Task
    <2> HIDE DEF k
    <2>r. PICK r \in Row : r = row[d]
      BY <1>0
    <2>3. /\ row' = [row EXCEPT ![d] = r] /\ r.status # "absent" /\ faults' \in 0..MaxFaults
          /\ r.attempts = row[d].attempts
          /\ received \subseteq received' /\ received' \subseteq Deliveries /\ d \in received'
      BY <1>0, <1>1, <1>a, <2>r, <2>1
    <2>e. /\ task' = [task EXCEPT ![s] = [task[s] EXCEPT ![d] = k]]
          /\ task[s][d].state # "none" /\ k.state # "leased" /\ k \in Task /\ pc' = pc
      BY <1>3, <2>1, <2>2
    <2>4. SchedulerGoal
      BY <2>e, <2>3, TaskMoves
    <2>5. QED
      BY <1>3, <2>4, SchedulerSuffices
  <1>6. CASE SendSucceeds(s, d)
    <2> DEFINE r == [row[d] EXCEPT !.status = "success"]
    <2>1. /\ task[s][d].state = "received" /\ UNCHANGED <<received, faults>>
          /\ task' = [task EXCEPT ![s] = [task[s] EXCEPT ![d] = NoTask]]
          /\ row' = [row EXCEPT ![d] = r]
      BY <1>6 DEF SendSucceeds, Answered2xx, TaskEnds
    <2>2. r \in Row /\ r.attempts = row[d].attempts /\ r.status = "success"
      BY <1>0, <1>1 DEF Row
    <2>3. d \in received
      BY <1>0, <2>1 DEF TaskInv
    <2> HIDE DEF r
    <2>4. SchedulerGoal
      <3>1. /\ task' = [task EXCEPT ![s] = [task[s] EXCEPT ![d] = NoTask]]
            /\ row' = [row EXCEPT ![d] = r] /\ NoTask \in Task /\ r \in Row /\ pc' = pc
            /\ task[s][d].state # "none" /\ NoTask.state # "leased"
            /\ NoTask.state # "received"
        BY <1>2, <1>3, <2>1, <2>2
      <3>2. /\ r.attempts = row[d].attempts /\ r.status # "absent" /\ d \in received'
            /\ received \subseteq received' /\ received' \subseteq Deliveries
            /\ faults' \in 0..MaxFaults
        BY <1>0, <2>1, <2>2, <2>3
      <3>3. QED
        BY <3>1, <3>2, TaskMoves
    <2>5. QED
      BY <1>3, <2>4, SchedulerSuffices
  <1>7. CASE SendFails(s, d)
    <2> DEFINE r == AfterFailure(row[d], task[s][d].seen)
    <2>1. /\ task[s][d].state # "none" /\ UNCHANGED <<received, faults>>
          /\ task' = [task EXCEPT ![s] = [task[s] EXCEPT ![d] = NoTask]]
          /\ row' = [row EXCEPT ![d] = r]
      BY <1>7 DEF SendFails, TaskEnds
    <2>2. r \in Row /\ r.attempts = row[d].attempts /\ r.status = row[d].status
      BY <1>0, <1>1 DEF Row, AfterFailure
    <2> HIDE DEF r
    <2>4. SchedulerGoal
      <3>1. /\ task' = [task EXCEPT ![s] = [task[s] EXCEPT ![d] = NoTask]]
            /\ row' = [row EXCEPT ![d] = r] /\ NoTask \in Task /\ r \in Row /\ pc' = pc
            /\ task[s][d].state # "none" /\ NoTask.state # "leased"
            /\ NoTask.state # "received"
        BY <1>2, <1>3, <2>1, <2>2
      <3>2. /\ r.attempts = row[d].attempts /\ r.status # "absent"
            /\ r.status = "success" => row[d].status = "success"
            /\ received \subseteq received' /\ received' \subseteq Deliveries
            /\ faults' \in 0..MaxFaults
        BY <1>0, <1>a, <2>1, <2>2
      <3>3. QED
        BY <3>1, <3>2, TaskMoves
    <2>5. QED
      BY <1>3, <2>4, SchedulerSuffices
  <1>8. CASE TaskFails(s, d)
    <2>1. /\ task[s][d].state # "none" /\ UNCHANGED <<row, received>>
          /\ faults' \in 0..MaxFaults
          /\ task' = [task EXCEPT ![s] = [task[s] EXCEPT ![d] = NoTask]]
      BY <1>0, <1>8, WebhookAssumption DEF TaskFails, TaskEnds, Fault
    <2>r. PICK r \in Row : r = row[d]
      BY <1>0
    <2>2. /\ task' = [task EXCEPT ![s] = [task[s] EXCEPT ![d] = NoTask]]
          /\ task[s][d].state # "none" /\ NoTask \in Task /\ pc' = pc
          /\ NoTask.state # "leased" /\ NoTask.state # "received"
      BY <1>2, <1>3, <2>1
    <2>3. /\ row' = [row EXCEPT ![d] = r] /\ r.attempts = row[d].attempts
          /\ r.status # "absent"
          /\ r.status = "success" => row[d].status = "success"
          /\ received \subseteq received' /\ received' \subseteq Deliveries
          /\ faults' \in 0..MaxFaults
      BY <1>0, <1>1, <1>a, <2>r, <2>1
    <2>4. SchedulerGoal
      BY <2>2, <2>3, TaskMoves
    <2>5. QED
      BY <1>3, <2>4, SchedulerSuffices
  <1>9. QED
    BY <1>4, <1>5, <1>6, <1>7, <1>8 DEF Attempt

\* A scheduler drops its tasks, by a panic or a crash, or ends a round that has none.
LEMMA DropStep ==
    ASSUME WebhookInv, NEW s \in Schedulers,
           EndRound(s) \/ CrashScheduler(s) \/ \E d \in Deliveries : Panic(s, d)
    PROVE  WebhookInv'
  <1>0. /\ TypeOK /\ TaskInv /\ LimitInv /\ SuccessIsReceived
        /\ pc \in [Schedulers -> {"idle", "claiming", "sending", "dead"}]
        /\ faults \in 0..MaxFaults /\ task \in Tasks
    BY Types DEF WebhookInv, TypeOK
  <1>1. SchedulerOnly /\ row' = row /\ received' = received
    BY DEF SchedulerOnly, EndRound, CrashScheduler, Panic, consumerVars
  <1>2. /\ faults' \in 0..MaxFaults
        /\ pc' \in [Schedulers -> {"idle", "claiming", "sending", "dead"}]
        /\ \A t \in Schedulers \ {s} : pc'[t] = pc[t]
    BY <1>0, WebhookAssumption DEF EndRound, CrashScheduler, Panic, Fault
  <1>3. /\ task' \in Tasks
        /\ \A e \in Deliveries : task'[s][e].state = "none"
        /\ \A t \in Schedulers \ {s} : task'[t] = task[t]
    <2>1. CASE EndRound(s)
      BY <1>0, <2>1 DEF EndRound, Busy
    <2>2. CASE CrashScheduler(s) \/ \E d \in Deliveries : Panic(s, d)
      <3>n. NoTask.state = "none"
        BY DEF NoTask
      <3>1. task' = [task EXCEPT ![s] = NoTasks]
        BY <2>2 DEF CrashScheduler, Panic, NoTasks
      <3>2. QED
        BY <1>0, <3>1, <3>n, DropTasks
    <2>3. QED
      BY <2>1, <2>2
  <1>4. TaskInv'
    <2>1. ASSUME NEW t \in Schedulers, pc'[t] # "sending" PROVE Busy(t)' = {}
      <3>1. CASE t = s
        BY <1>3, <3>1 DEF Busy
      <3>2. CASE t # s
        BY <1>0, <1>2, <1>3, <2>1, <3>2 DEF Busy, TaskInv
      <3>3. QED
        BY <3>1, <3>2
    <2>2. ASSUME NEW t \in Schedulers, NEW e \in Deliveries
          PROVE  /\ task'[t][e].state = "received" => e \in received'
                 /\ task'[t][e].state # "none" => row'[e].status # "absent"
      BY <1>0, <1>1, <1>3 DEF TaskInv
    <2>3. QED
      BY <2>1, <2>2 DEF TaskInv
  <1>5. LimitInv'
    <2>1. ASSUME NEW e \in Deliveries
          PROVE  row'[e].attempts + Cardinality(Leased(e)') < MaxAttempts + Cardinality(Schedulers)
      <3>1. Leased(e)' \subseteq Leased(e)
        BY <1>3 DEF Leased
      <3>2. /\ Cardinality(Leased(e)') \in Nat
            /\ Cardinality(Leased(e)') =< Cardinality(Leased(e))
            /\ Cardinality(Leased(e)) \in Nat /\ Cardinality(Schedulers) \in Nat
        BY <3>1, FewerLeased, LeasedFinite
      <3>3. /\ row[e].attempts \in Nat
            /\ row[e].attempts + Cardinality(Leased(e)) < MaxAttempts + Cardinality(Schedulers)
        BY <1>0, Types, RowFields DEF LimitInv
      <3>4. QED
        BY <1>1, <3>2, <3>3, WebhookAssumption
    <2>2. QED
      BY <2>1 DEF LimitInv
  <1>6. SchedulerGoal
    BY <1>0, <1>1, <1>2, <1>3, <1>4, <1>5 DEF SchedulerGoal, TypeOK, SuccessIsReceived
  <1>7. QED
    BY <1>1, <1>6, SchedulerSuffices

\* A batch is leased: its rows had attempts left, and the scheduler held no lease.
LEMMA ClaimStep ==
    ASSUME WebhookInv, NEW s \in Schedulers, Claim(s)
    PROVE  WebhookInv'
  <1>0. /\ TypeOK /\ TaskInv /\ LimitInv /\ SuccessIsReceived
        /\ pc \in [Schedulers -> {"idle", "claiming", "sending", "dead"}]
        /\ faults \in 0..MaxFaults /\ task \in Tasks /\ row \in [Deliveries -> Row]
    BY Types DEF WebhookInv, TypeOK
  <1>1. /\ SchedulerOnly /\ received' = received /\ faults' = faults
        /\ pc[s] = "claiming"
    BY DEF SchedulerOnly, Claim, consumerVars
  <1>2. PICK batch \in SUBSET Claimable :
            /\ row' = [d \in Deliveries |-> IF d \in batch
                          THEN [row[d] EXCEPT !.status = "processing", !.lease = "fresh"]
                          ELSE row[d]]
            /\ task' = [task EXCEPT ![s] = [d \in Deliveries |-> IF d \in batch
                          THEN [state |-> "leased", seen |-> row[d].attempts] ELSE NoTask]]
            /\ pc' = [pc EXCEPT ![s] = IF batch = {} THEN "idle" ELSE "sending"]
    BY DEF Claim
  <1>3. ASSUME NEW d \in batch
        PROVE  /\ d \in Deliveries /\ row[d].status = "pending"
               /\ row[d].attempts < MaxAttempts /\ row[d].attempts \in Nat
    BY <1>0, <1>2, RowFields DEF Claimable
  <1>4. ASSUME NEW d \in Deliveries
        PROVE  /\ row'[d] \in Row /\ row'[d].attempts = row[d].attempts
               /\ d \notin batch => row'[d] = row[d]
               /\ d \in batch => row'[d].status = "processing"
    <2>1. CASE d \in batch
      <3>1. row'[d] = [row[d] EXCEPT !.status = "processing", !.lease = "fresh"]
        BY <1>2, <2>1
      <3>3. row[d] \in Row
        BY <1>0
      <3>2. row'[d] = [status |-> "processing", attempts |-> row[d].attempts,
                       due |-> row[d].due, lease |-> "fresh"]
        BY <3>1, <3>3 DEF Row
      <3>4. QED
        BY <2>1, <3>2, <3>3, RowFields DEF Row
    <2>2. CASE d \notin batch
      BY <1>0, <1>2, <2>2
    <2>3. QED
      BY <2>1, <2>2
  <1>5. row' \in [Deliveries -> Row]
    <2>1. DOMAIN row' = Deliveries /\ row' = [d \in Deliveries |-> row'[d]]
      BY <1>2
    <2>2. QED
      BY <1>4, <2>1
  <1>6. /\ task' \in Tasks
        /\ \A d \in Deliveries : /\ d \in batch => task'[s][d].state = "leased"
                                 /\ d \notin batch => task'[s][d].state = "none"
        /\ \A t \in Schedulers \ {s} : task'[t] = task[t]
    <2> DEFINE f == [d \in Deliveries |-> IF d \in batch
                        THEN [state |-> "leased", seen |-> row[d].attempts] ELSE NoTask]
    <2>1. /\ f \in [Deliveries -> Task]
          /\ \A d \in Deliveries : /\ d \in batch => f[d].state = "leased"
                                   /\ d \notin batch => f[d].state = "none"
      BY <1>3 DEF NoTask, Task
    <2>2. task' = [task EXCEPT ![s] = f]
      BY <1>2
    <2> HIDE DEF f
    <2>3. QED
      BY <1>0, <2>1, <2>2 DEF Tasks
  <1>7. /\ pc' \in [Schedulers -> {"idle", "claiming", "sending", "dead"}]
        /\ \A t \in Schedulers \ {s} : pc'[t] = pc[t]
        /\ pc'[s] # "sending" => batch = {}
    BY <1>0, <1>2
  <1>8. \A d \in Deliveries : task[s][d].state = "none"
    BY <1>0, <1>1 DEF TaskInv, Busy
  <1>9. TaskInv'
    <2>1. ASSUME NEW t \in Schedulers, pc'[t] # "sending" PROVE Busy(t)' = {}
      <3>1. CASE t = s
        BY <1>6, <1>7, <2>1, <3>1 DEF Busy
      <3>2. CASE t # s
        BY <1>0, <1>6, <1>7, <2>1, <3>2 DEF Busy, TaskInv
      <3>3. QED
        BY <3>1, <3>2
    <2>2. ASSUME NEW t \in Schedulers, NEW e \in Deliveries
          PROVE  /\ task'[t][e].state = "received" => e \in received'
                 /\ task'[t][e].state # "none" => row'[e].status # "absent"
      <3>1. CASE t = s
        BY <1>4, <1>6, <3>1
      <3>2. CASE t # s
        BY <1>0, <1>1, <1>4, <1>6, <3>2 DEF TaskInv
      <3>3. QED
        BY <3>1, <3>2
    <2>3. QED
      BY <2>1, <2>2 DEF TaskInv
  <1>10. LimitInv'
    <2>1. ASSUME NEW e \in Deliveries
          PROVE  row'[e].attempts + Cardinality(Leased(e)') < MaxAttempts + Cardinality(Schedulers)
      <3>0. /\ Cardinality(Leased(e)) \in Nat /\ Cardinality(Schedulers) \in Nat
            /\ row'[e].attempts = row[e].attempts
        BY <1>4, LeasedFinite
      <3>1. CASE e \in batch
        <4>1. Leased(e)' \in SUBSET Schedulers
          BY DEF Leased
        <4>2. Cardinality(Leased(e)') \in Nat /\ Cardinality(Leased(e)') =< Cardinality(Schedulers)
          BY <4>1, WebhookAssumption, FS_Subset, FS_CardinalityType
        <4>3. QED
          BY <1>3, <3>0, <3>1, <4>2, WebhookAssumption
      <3>2. CASE e \notin batch
        <4>1. Leased(e)' = Leased(e)
          BY <1>6, <1>8, <3>2 DEF Leased
        <4>2. QED
          BY <1>0, <3>0, <4>1 DEF LimitInv
      <3>3. QED
        BY <3>1, <3>2
    <2>2. QED
      BY <2>1 DEF LimitInv
  <1>11. SuccessIsReceived'
    BY <1>0, <1>1, <1>4 DEF SuccessIsReceived
  <1>12. \A d \in Deliveries : row'[d].status = "absent" <=> row[d].status = "absent"
    BY <1>3, <1>4
  <1>13. SchedulerGoal
    BY <1>0, <1>1, <1>5, <1>6, <1>7, <1>9, <1>10, <1>11, <1>12 DEF SchedulerGoal, TypeOK
  <1>14. QED
    BY <1>1, <1>13, SchedulerSuffices

-----------------------------------------------------------------------------
(* The theorems                                                            *)

\* WebhookInv is inductive.
LEMMA WebhookStep == WebhookInv /\ [Next]_vars => WebhookInv'
  <1> SUFFICES ASSUME WebhookInv, [Next]_vars PROVE WebhookInv'
    OBVIOUS
  <1>1. ASSUME UNCHANGED vars PROVE WebhookInv'
    <2>1. Matching' = Matching
      BY DEF Matching, PayloadEventType
    <2>2. QED
      BY <1>1, <2>1 DEF vars, WebhookInv, TypeOK, ConsumerInv, RowInv, TaskInv, LimitInv,
                        SuccessIsReceived, Leased, Busy
  <1>2. CASE Next
    BY <1>2, ConsumerStep, InsertStep, ClockStep, ReclaimStep, ClaimStep, TaskStep, DropStep
    DEF Next, Consume, Schedule
  <1>3. QED
    BY <1>1, <1>2

\* The consumer, the rows and the schedulers stay in step, for any number of
\* messages, endpoints, schedulers and faults.
THEOREM WebhookInvariance == Spec => []WebhookInv
  <1>1. Init => WebhookInv
    <2> SUFFICES ASSUME Init PROVE WebhookInv
      OBVIOUS
    <2>1. TypeOK
      BY WebhookAssumption DEF Init, TypeOK, NoRow, Row, NoTask, Task
    <2>2. ConsumerInv /\ RowInv /\ TaskInv /\ SuccessIsReceived
      BY DEF Init, ConsumerInv, RowInv, TaskInv, SuccessIsReceived, NoRow, NoTask, Busy
    <2>3. LimitInv
      <3>1. SUFFICES ASSUME NEW d \in Deliveries
                     PROVE  row[d].attempts + Cardinality(Leased(d))
                               < MaxAttempts + Cardinality(Schedulers)
        BY DEF LimitInv
      <3>2. row[d].attempts = 0 /\ Leased(d) = {}
        BY DEF Init, NoRow, NoTask, Leased
      <3>3. Cardinality(Schedulers) \in Nat /\ Cardinality(Leased(d)) = 0
        BY <3>2, FS_EmptySet, LeasedFinite
      <3>4. QED
        BY <3>2, <3>3, WebhookAssumption
    <2>4. QED
      BY <2>1, <2>2, <2>3 DEF WebhookInv
  <1>2. QED
    BY <1>1, WebhookStep, PTL DEF Spec

\* A delivery marked as successful (retry_scheduler's 2xx) was received.
THEOREM SuccessReceived == Spec => []SuccessIsReceived
  <1>1. WebhookInv => SuccessIsReceived
    BY DEF WebhookInv
  <1>2. QED
    BY <1>1, WebhookInvariance, PTL

\* However often the consumer is given a message, no endpoint gets two rows of it.
THEOREM RowsSingle == Spec => []OneRowPerEndpoint
  <1>1. WebhookInv => OneRowPerEndpoint
    BY DEF WebhookInv, OneRowPerEndpoint, RowInv
  <1>2. QED
    BY <1>1, WebhookInvariance, PTL

\* LossInv is inductive relative to WebhookInv.
LEMMA LossStep ==
    ASSUME WebhookInv, LossInv, [Next]_vars
    PROVE  LossInv'
  <1>0. /\ TypeOK /\ ConsumerInv /\ MaxOffset \in Nat
        /\ consumer \in [next: 1..(MaxOffset + 1), at: 0..MaxOffset, left: SUBSET Endpoints]
        /\ consumer.next \in Nat /\ consumer.at \in Nat /\ committed \in Nat
        /\ Offsets \subseteq Nat
    BY WebhookAssumption DEF WebhookInv, TypeOK, Offsets
  <1>m. Matching' = Matching
    BY DEF Matching, PayloadEventType
  <1>1. ASSUME UNCHANGED <<consumer, committed, processed, cutShort, inserts>> PROVE LossInv'
    BY <1>1, <1>m DEF LossInv
  <1>2. ASSUME TakeMessage PROVE LossInv'
    <2>1. /\ processed' = processed \cup {consumer.next}
          /\ cutShort' = cutShort \ {consumer.next}
          /\ consumer' = [next |-> consumer.next + 1, at |-> consumer.next, left |-> Matching]
          /\ committed' = committed /\ inserts' = inserts /\ consumer.at = 0
      BY <1>2 DEF TakeMessage, Available
    <2>2. /\ consumer'.next = consumer.next + 1 /\ consumer'.at = consumer.next
          /\ consumer'.left = Matching /\ committed =< consumer.next
      BY <1>0, <2>1 DEF ConsumerInv
    <2>3. ASSUME NEW o \in Offsets, o < consumer'.next PROVE o \in processed' \cup cutShort'
      <3>1. o = consumer.next \/ o < consumer.next
        BY <1>0, <2>2, <2>3
      <3>2. QED
        BY <2>1, <3>1 DEF LossInv
    <2>4. ASSUME NEW o \in processed' \ cutShort', NEW e \in Matching
          PROVE  inserts'[<<o, e>>] > 0 \/ (consumer'.at = o /\ e \in consumer'.left)
      <3>1. o = consumer.next \/ o \in processed \ cutShort
        BY <2>1
      <3>2. o \in processed \ cutShort => inserts[<<o, e>>] > 0
        <4>1. o \in processed \ cutShort => o # 0
          BY <1>0 DEF TypeOK, Offsets
        <4>2. QED
          BY <2>1, <4>1 DEF LossInv
      <3>3. QED
        BY <2>1, <2>2, <3>1, <3>2
    <2>5. QED
      BY <1>m, <2>1, <2>2, <2>3, <2>4 DEF LossInv
  <1>3. ASSUME NEW e \in Endpoints, InsertDelivery(e) PROVE LossInv'
    <2>1. /\ consumer.at # 0 /\ e \in consumer.left
          /\ inserts' = [inserts EXCEPT ![<<consumer.at, e>>] = @ + 1]
          /\ consumer' = [consumer EXCEPT !.left = @ \ {e}]
          /\ UNCHANGED <<committed, processed, cutShort>>
      BY <1>3 DEF InsertDelivery
    <2>2. /\ consumer'.next = consumer.next /\ consumer'.at = consumer.at
          /\ consumer'.left = consumer.left \ {e}
      BY <1>0, <2>1
    <2>3. <<consumer.at, e>> \in Deliveries /\ inserts \in [Deliveries -> Nat]
      BY <1>0, <2>1 DEF Deliveries, Offsets, TypeOK
    <2>4. inserts'[<<consumer.at, e>>] > 0
      BY <2>1, <2>3
    <2>5. ASSUME NEW o \in processed \ cutShort, NEW g \in Matching
          PROVE  inserts'[<<o, g>>] > 0 \/ (consumer.at = o /\ g \in consumer.left \ {e})
      <3>1. CASE o = consumer.at /\ g = e
        BY <2>4, <3>1
      <3>2. CASE ~(o = consumer.at /\ g = e)
        <4>1. inserts'[<<o, g>>] = inserts[<<o, g>>]
          <5>1. <<o, g>> # <<consumer.at, e>>
            BY <3>2
          <5>2. <<o, g>> \in Deliveries
            BY <1>0, MatchingEndpoints DEF Deliveries, TypeOK
          <5>3. QED
            BY <2>1, <2>3, <5>1, <5>2
        <4>2. QED
          BY <3>2, <4>1 DEF LossInv
      <3>3. QED
        BY <3>1, <3>2
    <2>6. QED
      BY <1>m, <2>1, <2>2, <2>5 DEF LossInv
  <1>4. ASSUME SkipMessage PROVE LossInv'
    <2>1. /\ consumer.next \in processed /\ consumer.at = 0
          /\ consumer' = [next |-> consumer.next + 1, at |-> 0, left |-> {}]
          /\ UNCHANGED <<processed, cutShort, inserts>>
      BY <1>4 DEF SkipMessage, Available, AlreadyProcessed, Idling
    <2>2. ASSUME NEW o \in Offsets, o < consumer'.next PROVE o \in processed' \cup cutShort'
      <3>1. o = consumer.next \/ o < consumer.next
        BY <1>0, <2>1, <2>2
      <3>2. QED
        BY <2>1, <3>1 DEF LossInv
    <2>3. \A o \in processed : o # 0
      BY <1>0 DEF TypeOK, Offsets
    <2>4. QED
      BY <1>m, <2>1, <2>2, <2>3 DEF LossInv
  <1>5. ASSUME FinishMessage PROVE LossInv'
    <2>1. /\ consumer.left = {}
          /\ consumer' = [next |-> consumer.next, at |-> 0, left |-> {}]
          /\ UNCHANGED <<processed, cutShort, inserts>>
      BY <1>5 DEF FinishMessage, Idling
    <2>2. QED
      BY <1>m, <2>1 DEF LossInv
  <1>6. ASSUME MessageFails PROVE LossInv'
    <2>0. UNCHANGED <<committed, processed, inserts>>
      BY <1>6 DEF MessageFails
    <2>1. CASE /\ Available
               /\ consumer' = Idling(consumer.next + 1)
               /\ cutShort' = cutShort \cup {consumer.next}
      <3>1. consumer.at = 0 /\ consumer' = [next |-> consumer.next + 1, at |-> 0, left |-> {}]
        BY <2>1 DEF Available, Idling
      <3>2. ASSUME NEW o \in Offsets, o < consumer'.next PROVE o \in processed' \cup cutShort'
        <4>1. o = consumer.next \/ o < consumer.next
          BY <1>0, <3>1, <3>2
        <4>2. QED
          BY <2>0, <2>1, <4>1 DEF LossInv
      <3>3. \A o \in processed : o # 0
        BY <1>0 DEF TypeOK, Offsets
      <3>4. QED
        BY <1>m, <2>0, <2>1, <3>1, <3>2, <3>3 DEF LossInv
    <2>2. CASE /\ consumer.at # 0
               /\ consumer' = Idling(consumer.next)
               /\ cutShort' = cutShort \cup {consumer.at}
      BY <1>m, <2>0, <2>2 DEF LossInv, Idling
    <2>3. QED
      BY <1>6, <2>1, <2>2 DEF MessageFails
  <1>7. ASSUME RestartConsumer PROVE LossInv'
    <2>1. /\ consumer' = [next |-> committed, at |-> 0, left |-> {}]
          /\ cutShort' = cutShort \cup ({consumer.at} \ {0})
          /\ UNCHANGED <<committed, processed, inserts>>
      BY <1>7 DEF RestartConsumer, Idling
    <2>2. committed =< consumer.next
      BY <1>0 DEF ConsumerInv
    <2>3. ASSUME NEW o \in Offsets, o < consumer'.next PROVE o \in processed' \cup cutShort'
      <3>1. o < consumer.next
        BY <1>0, <2>1, <2>2, <2>3
      <3>2. QED
        BY <2>1, <3>1 DEF LossInv
    <2>4. \A o \in processed : o # 0
      BY <1>0 DEF TypeOK, Offsets
    <2>5. QED
      BY <1>m, <2>1, <2>3, <2>4 DEF LossInv
  <1>8. ASSUME NEW s \in Schedulers, Schedule(s) \/ CrashScheduler(s) PROVE LossInv'
    BY <1>1, <1>8 DEF Schedule, CrashScheduler, Reclaim, Claim, EndRound, Attempt, CountAttempt,
                      SendSucceeds, SendFails, consumerVars
  <1>9. ASSUME NEW s \in Schedulers, NEW d \in Deliveries,
               EndpointReceives(s, d) \/ TaskFails(s, d) \/ Panic(s, d) \/ Clock(d)
        PROVE  LossInv'
    BY <1>1, <1>9 DEF EndpointReceives, TaskFails, Panic, Clock, consumerVars
  <1>10. ASSUME Publish \/ UNCHANGED vars PROVE LossInv'
    BY <1>1, <1>10 DEF Publish, vars
  <1>11. ASSUME NEW d \in Deliveries, Clock(d) PROVE LossInv'
    BY <1>1, <1>11 DEF Clock, consumerVars
  <1>12. QED
    BY <1>2, <1>3, <1>4, <1>5, <1>6, <1>7, <1>8, <1>9, <1>10, <1>11 DEF Next, Consume

\* A message that is not cut short by a failing statement or a stop of the consumer
\* is committed only with all its rows, however often it is read.
THEOREM NothingElseIsLost == Spec => []OnlyCutShortIsLost
  <1>1. Init => LossInv
    BY DEF Init, LossInv, Offsets
  <1>2. WebhookInv /\ LossInv /\ [Next]_vars => LossInv'
    BY LossStep
  <1>3. WebhookInv /\ LossInv => OnlyCutShortIsLost
    <2> SUFFICES ASSUME WebhookInv, LossInv, NEW o \in Offsets \ cutShort, NEW e \in Matching,
                        o < committed
                 PROVE  row[<<o, e>>].status # "absent"
      BY DEF OnlyCutShortIsLost
    <2>1. /\ o \in Nat /\ committed \in Nat /\ consumer.next \in Nat
          /\ committed =< consumer.next /\ consumer.at \in Nat
      BY WebhookAssumption DEF WebhookInv, TypeOK, ConsumerInv, Offsets
    <2>2. o \in processed /\ consumer.at # o
      BY <2>1 DEF LossInv, Offsets
    <2>3. inserts[<<o, e>>] > 0
      BY <2>2 DEF LossInv
    <2>4. <<o, e>> \in Deliveries
      BY MatchingEndpoints DEF Deliveries
    <2>5. QED
      BY <2>3, <2>4 DEF WebhookInv, RowInv
  <1>4. QED
    BY <1>1, <1>2, <1>3, WebhookInvariance, PTL DEF Spec

\* The limit on the attempts holds up to the late ones of other schedulers.
THEOREM RetriesLimited == Spec => []AttemptsLimited
  <1>1. WebhookInv => AttemptsLimited
    <2> SUFFICES ASSUME WebhookInv, NEW d \in Deliveries
                 PROVE  row[d].attempts < MaxAttempts + Cardinality(Schedulers)
      BY DEF AttemptsLimited
    <2>1. /\ row[d].attempts + Cardinality(Leased(d)) < MaxAttempts + Cardinality(Schedulers)
          /\ row[d].attempts \in Nat
      BY Types, RowFields DEF WebhookInv, LimitInv
    <2>2. QED
      BY <2>1, LeasedFinite, WebhookAssumption
  <1>2. QED
    BY <1>1, WebhookInvariance, PTL

\* A successful delivery is never reopened.
THEOREM SuccessKept == Spec => SuccessIsFinal
  <1> DEFINE Kept == \A d \in Deliveries : row[d].status = "success" => row'[d].status = "success"
  <1>1. WebhookInv /\ [Next]_vars => [Kept]_vars
    <2> SUFFICES ASSUME WebhookInv, [Next]_vars,
                        NEW d \in Deliveries, row[d].status = "success"
                 PROVE  row'[d].status = "success"
      OBVIOUS
    <2>0. row \in [Deliveries -> Row] /\ row[d] \in Row /\ TypeOK
      BY DEF WebhookInv, TypeOK
    <2>1. ASSUME NEW e \in Endpoints, InsertDelivery(e) PROVE row'[d].status = "success"
      <3>1. /\ consumer.at # 0 /\ e \in consumer.left
            /\ row' = [row EXCEPT ![<<consumer.at, e>>] =
                          [status |-> "pending", attempts |-> 0, due |-> TRUE, lease |-> "fresh"]]
        BY <2>1 DEF InsertDelivery
      <3>2. inserts[<<consumer.at, e>>] = 0
        BY <3>1 DEF WebhookInv, ConsumerInv
      <3>3. d # <<consumer.at, e>>
        BY <3>2 DEF WebhookInv, RowInv
      <3>4. QED
        BY <2>0, <3>1, <3>3
    <2>2. ASSUME NEW e \in Deliveries, Clock(e) PROVE row'[d].status = "success"
      BY <2>0, <2>2 DEF Clock, Row
    <2>3. ASSUME NEW s \in Schedulers, Reclaim(s) PROVE row'[d].status = "success"
      <3>1. row'[d] = Reclaimed(row[d])
        BY <2>3 DEF Reclaim
      <3>2. QED
        BY <3>1 DEF Reclaimed
    <2>4. ASSUME NEW s \in Schedulers, Claim(s) PROVE row'[d].status = "success"
      <3>1. PICK batch \in SUBSET Claimable :
                row' = [e \in Deliveries |-> IF e \in batch
                          THEN [row[e] EXCEPT !.status = "processing", !.lease = "fresh"]
                          ELSE row[e]]
        BY <2>4 DEF Claim
      <3>2. d \notin batch
        BY <3>1 DEF Claimable
      <3>3. QED
        BY <3>1, <3>2
    <2>5. ASSUME NEW s \in Schedulers, NEW e \in Deliveries, Attempt(s, e)
          PROVE  row'[d].status = "success"
      <3>1. CASE CountAttempt(s, e)
        BY <2>0, <3>1 DEF CountAttempt, Row
      <3>2. CASE SendSucceeds(s, e)
        BY <2>0, <3>2 DEF SendSucceeds, Row
      <3>3. CASE SendFails(s, e)
        <4>1. row' = [row EXCEPT ![e] = AfterFailure(row[e], task[s][e].seen)]
          BY <3>3 DEF SendFails
        <4>2. AfterFailure(row[d], task[s][d].seen).status = "success"
          BY <2>0 DEF AfterFailure, Row
        <4>3. QED
          BY <2>0, <4>1, <4>2
      <3>4. QED
        BY <2>5, <3>1, <3>2, <3>3 DEF Attempt
    <2>6. ASSUME row' = row PROVE row'[d].status = "success"
      BY <2>6
    <2>7. QED
      BY <2>1, <2>2, <2>3, <2>4, <2>5, <2>6
      DEF Next, Consume, Schedule, Publish, TakeMessage, SkipMessage, FinishMessage,
          MessageFails, RestartConsumer, EndRound, CrashScheduler, EndpointReceives,
          TaskFails, Panic, vars
  <1>2. QED
    BY <1>1, WebhookInvariance, PTL DEF Spec, SuccessIsFinal
=============================================================================
