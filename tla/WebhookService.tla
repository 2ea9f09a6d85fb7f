--------------------------- MODULE WebhookService ---------------------------
(***************************************************************************)
(* The webhook service (crates/webhook-service): a Kafka consumer that     *)
(* turns each event of the webhooks topic into one delivery row for each   *)
(* matching endpoint, and retry schedulers, one in every instance, that    *)
(* lease due rows and post them.  The consumer and the schedulers share    *)
(* the database only.  A lease is a timestamp and may run out under its    *)
(* holder; the consumer starts again from the committed offset.            *)
(***************************************************************************)
EXTENDS Integers, FiniteSets

CONSTANTS
    MaxOffset,     \* bound on the messages of the partition
    Subscribers,   \* the merchant's active endpoints registered for the type of
                   \* the events that are published
    CatchAll,      \* those registered for the type ""
    Schedulers,
    MaxAttempts,   \* max_attempts, 10 in the code
    BatchSize,     \* LIMIT 20 in the code
    MaxFaults      \* bound on crashes and failing statements

ASSUME WebhookAssumption ==
    /\ MaxOffset \in Nat
    /\ MaxAttempts \in Nat \ {0}
    /\ BatchSize \in Nat \ {0}
    /\ MaxFaults \in Nat
    /\ IsFiniteSet(Schedulers)

Offsets == 1..MaxOffset
Endpoints == Subscribers \cup CatchAll
Deliveries == Offsets \X Endpoints

VARIABLES
    log,         \* messages in the partition
    consumer,    \* next: the offset it reads next; at: the one in hand, or 0;
                 \* left: the endpoints whose row is yet to be inserted
    committed,   \* the offset a restarted consumer reads first
    processed,   \* table processed_events
    cutShort,    \* history: messages given up at a failing statement or a stop of
                 \* the consumer, and not taken in hand again
    inserts,     \* how often the row of each delivery was inserted
    row,         \* table webhook_deliveries; lease: whether processing_started_at
                 \* is over 5 minutes old; due: next_retry_at has come
    pc,          \* where run_once is in each scheduler
    task,        \* what each scheduler is doing with each delivery, and the
                 \* attempt_count it read when it leased the row
    received,    \* the deliveries the endpoint has received
    faults

consumerVars == <<log, consumer, committed, processed, cutShort>>
schedulerVars == <<pc, task, received>>
vars == <<log, consumer, committed, processed, cutShort, inserts, row, pc, task,
          received, faults>>

Row == [status: {"absent", "pending", "processing", "success"}, attempts: Nat,
        due: BOOLEAN, lease: {"fresh", "old"}]

Task == [state: {"none", "leased", "sending", "received"}, seen: Nat]

NoRow == [status |-> "absent", attempts |-> 0, due |-> FALSE, lease |-> "fresh"]
NoTask == [state |-> "none", seen |-> 0]

\* Every variable has its type.
TypeOK ==
    /\ log \in 0..MaxOffset
    /\ consumer \in [next: 1..(MaxOffset + 1), at: 0..MaxOffset, left: SUBSET Endpoints]
    /\ committed \in 1..(MaxOffset + 1)
    /\ processed \subseteq Offsets
    /\ cutShort \subseteq Offsets
    /\ inserts \in [Deliveries -> Nat]
    /\ row \in [Deliveries -> Row]
    /\ pc \in [Schedulers -> {"idle", "claiming", "sending", "dead"}]
    /\ task \in [Schedulers -> [Deliveries -> Task]]
    /\ received \subseteq Deliveries
    /\ faults \in 0..MaxFaults

Init ==
    /\ log = 0
    /\ consumer = [next |-> 1, at |-> 0, left |-> {}]
    /\ committed = 1
    /\ processed = {}
    /\ cutShort = {}
    /\ inserts = [d \in Deliveries |-> 0]
    /\ row = [d \in Deliveries |-> NoRow]
    /\ pc = [s \in Schedulers |-> "idle"]
    /\ task = [s \in Schedulers |-> [d \in Deliveries |-> NoTask]]
    /\ received = {}
    /\ faults = 0

\* A statement fails or a process dies.
Fault ==
    /\ faults < MaxFaults
    /\ faults' = faults + 1

-----------------------------------------------------------------------------
(* The consumer                                                            *)

\* The outbox worker publishes an event to the topic.
Publish ==
    /\ log < MaxOffset
    /\ log' = log + 1
    /\ UNCHANGED <<consumer, committed, processed, cutShort, inserts, row, schedulerVars, faults>>

\* No payload on the topic has a field event_type: it is read as "".
PayloadEventType == ""

Matching == IF PayloadEventType = "" THEN CatchAll ELSE Subscribers

\* Mutant: processed_events is not consulted.
NeverProcessed(o) == o \notin Offsets

AlreadyProcessed(o) == o \in processed

Available == consumer.at = 0 /\ consumer.next =< log

Idling(n) == [next |-> n, at |-> 0, left |-> {}]

\* commit_message is asynchronous and may come to nothing.
CommitOffset(o) == committed' \in {committed, o + 1}

\* Mutant: offsets are committed as messages are read.
TakeAndCommit ==
    /\ Available
    /\ ~AlreadyProcessed(consumer.next)
    /\ processed' = processed \cup {consumer.next}
    /\ cutShort' = cutShort \ {consumer.next}
    /\ consumer' = [next |-> consumer.next + 1, at |-> consumer.next, left |-> Matching]
    /\ CommitOffset(consumer.next)
    /\ UNCHANGED <<log, inserts, row, schedulerVars, faults>>

\* A message is taken in hand and marked as processed.
TakeMessage ==
    /\ Available
    /\ ~AlreadyProcessed(consumer.next)
    /\ processed' = processed \cup {consumer.next}
    /\ cutShort' = cutShort \ {consumer.next}
    /\ consumer' = [next |-> consumer.next + 1, at |-> consumer.next, left |-> Matching]
    /\ UNCHANGED <<log, committed, inserts, row, schedulerVars, faults>>

\* It was marked before: skipped, and its offset committed.
SkipMessage ==
    /\ Available
    /\ AlreadyProcessed(consumer.next)
    /\ consumer' = Idling(consumer.next + 1)
    /\ CommitOffset(consumer.next)
    /\ UNCHANGED <<log, processed, cutShort, inserts, row, schedulerVars, faults>>

\* One row, by a statement of its own.
InsertDelivery(e) ==
    LET d == <<consumer.at, e>> IN
    /\ consumer.at # 0
    /\ e \in consumer.left
    /\ inserts' = [inserts EXCEPT ![d] = @ + 1]
    /\ row' = [row EXCEPT ![d] = [status |-> "pending", attempts |-> 0,
                                  due |-> TRUE, lease |-> "fresh"]]
    /\ consumer' = [consumer EXCEPT !.left = @ \ {e}]
    /\ UNCHANGED <<log, committed, processed, cutShort, schedulerVars, faults>>

FinishMessage ==
    /\ consumer.at # 0
    /\ consumer.left = {}
    /\ consumer' = Idling(consumer.next)
    /\ CommitOffset(consumer.at)
    /\ UNCHANGED <<log, processed, cutShort, inserts, row, schedulerVars, faults>>

\* A failing statement: the message is given up without a commit of its own, and
\* the commits of later messages pass it.
MessageFails ==
    /\ Fault
    /\ \/ /\ Available
          /\ consumer' = Idling(consumer.next + 1)
          /\ cutShort' = cutShort \cup {consumer.next}
       \/ /\ consumer.at # 0
          /\ consumer' = Idling(consumer.next)
          /\ cutShort' = cutShort \cup {consumer.at}
    /\ UNCHANGED <<log, committed, processed, inserts, row, schedulerVars>>

\* The consumer dies, or its partition is taken from it; the next one starts.
RestartConsumer ==
    /\ Fault
    /\ consumer' = Idling(committed)
    /\ cutShort' = cutShort \cup ({consumer.at} \ {0})
    /\ UNCHANGED <<log, committed, processed, inserts, row, schedulerVars>>

-----------------------------------------------------------------------------
(* The retry scheduler                                                     *)

\* next_retry_at comes, or five minutes pass on a lease.
Clock(d) ==
    /\ \/ /\ ~row[d].due /\ row[d].status # "absent"
          /\ row' = [row EXCEPT ![d].due = TRUE]
       \/ /\ row[d].status = "processing" /\ row[d].lease = "fresh"
          /\ row' = [row EXCEPT ![d].lease = "old"]
    /\ UNCHANGED <<consumerVars, inserts, schedulerVars, faults>>

\* Mutant: leases are never taken back.
KeepLease(r) == r

Reclaimed(r) == IF r.status = "processing" /\ r.lease = "old"
                THEN [r EXCEPT !.status = "pending", !.lease = "fresh"] ELSE r

\* run_once, first statement.
Reclaim(s) ==
    /\ pc[s] = "idle"
    /\ row' = [d \in Deliveries |-> Reclaimed(row[d])]
    /\ pc' = [pc EXCEPT ![s] = "claiming"]
    /\ UNCHANGED <<consumerVars, inserts, task, received, faults>>

\* Mutant: the limit is not part of the claim's condition.
DuePending == {d \in Deliveries : row[d].status = "pending" /\ row[d].due}

Claimable == {d \in Deliveries : /\ row[d].status = "pending"
                                 /\ row[d].due
                                 /\ row[d].attempts < MaxAttempts}

Busy(s) == {d \in Deliveries : task[s][d].state # "none"}

\* Rows another scheduler may be updating are skipped (SKIP LOCKED).
LockedByOthers(s) == UNION {Busy(t) : t \in Schedulers \ {s}}

\* Second statement: a batch of due rows is leased; an empty one ends the round.
Claim(s) ==
    /\ pc[s] = "claiming"
    /\ \E batch \in SUBSET Claimable :
        /\ Cardinality(batch) =< BatchSize
        /\ Cardinality(batch) = BatchSize \/ Claimable \ batch \subseteq LockedByOthers(s)
        /\ row' = [d \in Deliveries |-> IF d \in batch
                      THEN [row[d] EXCEPT !.status = "processing", !.lease = "fresh"]
                      ELSE row[d]]
        /\ task' = [task EXCEPT ![s] = [d \in Deliveries |-> IF d \in batch
                      THEN [state |-> "leased", seen |-> row[d].attempts] ELSE NoTask]]
        /\ pc' = [pc EXCEPT ![s] = IF batch = {} THEN "idle" ELSE "sending"]
    /\ UNCHANGED <<consumerVars, inserts, received, faults>>

\* The attempt is counted, then the request is sent.
CountAttempt(s, d) ==
    /\ task[s][d].state = "leased"
    /\ row' = [row EXCEPT ![d].attempts = @ + 1]
    /\ task' = [task EXCEPT ![s][d].state = "sending"]
    /\ UNCHANGED <<consumerVars, inserts, pc, received, faults>>

EndpointReceives(s, d) ==
    /\ task[s][d].state = "sending"
    /\ received' = received \cup {d}
    /\ task' = [task EXCEPT ![s][d].state = "received"]
    /\ UNCHANGED <<consumerVars, inserts, row, pc, faults>>

TaskEnds(s, d) == task' = [task EXCEPT ![s][d] = NoTask]

\* Mutant: a request that was sent counts as delivered.
Sent(s, d) == task[s][d].state \in {"sending", "received"}

Answered2xx(s, d) == task[s][d].state = "received"

\* Whoever holds the lease by now.
SendSucceeds(s, d) ==
    /\ Answered2xx(s, d)
    /\ row' = [row EXCEPT ![d].status = "success"]
    /\ TaskEnds(s, d)
    /\ UNCHANGED <<consumerVars, inserts, pc, received, faults>>

\* Mutant: the failed row is put back to pending, whatever it has become.
BackToPending(r, seen) == [r EXCEPT !.status = "pending", !.due = FALSE]

\* handle_failure, with the attempt_count of the lease.  Below the limit only
\* next_retry_at is set: the row stays leased.  At the limit the statement names
\* the column dead_lettered_at, which no migration creates: it changes nothing.
AfterFailure(r, seen) == IF seen + 1 >= MaxAttempts THEN r ELSE [r EXCEPT !.due = FALSE]

\* Another status than 2xx, an error or the 30 s timeout.
SendFails(s, d) ==
    /\ task[s][d].state \in {"sending", "received"}
    /\ row' = [row EXCEPT ![d] = AfterFailure(row[d], task[s][d].seen)]
    /\ TaskEnds(s, d)
    /\ UNCHANGED <<consumerVars, inserts, pc, received, faults>>

\* A statement of the task fails: nothing is written.
TaskFails(s, d) ==
    /\ Fault
    /\ task[s][d].state # "none"
    /\ TaskEnds(s, d)
    /\ UNCHANGED <<consumerVars, inserts, row, pc, received>>

EndRound(s) ==
    /\ pc[s] = "sending"
    /\ Busy(s) = {}
    /\ pc' = [pc EXCEPT ![s] = "idle"]
    /\ UNCHANGED <<consumerVars, inserts, row, task, received, faults>>

\* Cutting a long error body to 500 bytes inside a character panics: the spawned
\* loop is gone, and nothing in the process starts it again.
Panic(s, d) ==
    /\ task[s][d].state = "received"
    /\ pc' = [pc EXCEPT ![s] = "dead"]
    /\ task' = [task EXCEPT ![s] = [e \in Deliveries |-> NoTask]]
    /\ UNCHANGED <<consumerVars, inserts, row, received, faults>>

\* run_once returns an error, or the process dies and is started again: its
\* leases stay.
CrashScheduler(s) ==
    /\ Fault
    /\ pc[s] # "idle"
    /\ pc' = [pc EXCEPT ![s] = "idle"]
    /\ task' = [task EXCEPT ![s] = [d \in Deliveries |-> NoTask]]
    /\ UNCHANGED <<consumerVars, inserts, row, received>>

-----------------------------------------------------------------------------

Consume ==
    \/ TakeMessage \/ SkipMessage \/ FinishMessage
    \/ \E e \in Endpoints : InsertDelivery(e)

Attempt(s, d) == CountAttempt(s, d) \/ SendSucceeds(s, d) \/ SendFails(s, d)

Schedule(s) ==
    \/ Reclaim(s) \/ Claim(s) \/ EndRound(s)
    \/ \E d \in Deliveries : Attempt(s, d)

Next ==
    \/ Publish \/ Consume \/ MessageFails \/ RestartConsumer
    \/ \E d \in Deliveries : Clock(d)
    \/ \E s \in Schedulers : Schedule(s) \/ CrashScheduler(s)
    \/ \E s \in Schedulers, d \in Deliveries : 
        EndpointReceives(s, d) \/ TaskFails(s, d) \/ Panic(s, d)

Spec == Init /\ [][Next]_vars

\* The consumer and the schedulers keep running, every post ends within its
\* timeout and the clock runs.  Nothing is assumed of the endpoints.
FairSpec ==
    /\ Spec
    /\ WF_vars(Consume)
    /\ \A s \in Schedulers : WF_vars(Schedule(s))
    /\ \A d \in Deliveries : WF_vars(Clock(d))

-----------------------------------------------------------------------------
(* Properties                                                              *)

\* A delivery counts as successful only if its endpoint has received it, however
\* leases run out, schedulers overlap or requests fail.
SuccessIsReceived == \A d \in Deliveries : row[d].status = "success" => d \in received

\* A redelivered message never leads to a second row for the same endpoint: the
\* mark in processed_events outlives restarts and lost commits.
OneRowPerEndpoint == \A d \in Deliveries : inserts[d] =< 1

\* A message the consumer will not read again has a row for every endpoint that
\* matches, unless it was cut short: a lost commit, a restart between messages or
\* the skipping of a message that was marked before lose nothing.
OnlyCutShortIsLost ==
    \A o \in Offsets \ cutShort, e \in Matching :
        o < committed => row[<<o, e>>].status # "absent"

\* The limit holds up to one late attempt per other scheduler.
AttemptsLimited == \A d \in Deliveries : row[d].attempts < MaxAttempts + Cardinality(Schedulers)

\* A successful delivery is never taken up again: neither a failure another
\* scheduler reports late nor the reclaiming of leases reopens it.
SuccessIsFinal ==
    [][\A d \in Deliveries : row[d].status = "success" => row'[d].status = "success"]_vars

\* While a scheduler is alive, every row ends as delivered or with its attempts
\* used up, although a failed attempt leaves it leased: the lease runs out and is
\* taken back, also that of a scheduler that crashed or panicked.
EveryDeliveryResolved ==
    \A d \in Deliveries : row[d].status # "absent" ~>
        (\/ row[d].status = "success" \/ row[d].attempts >= MaxAttempts
         \/ \A s \in Schedulers : pc[s] = "dead")

-----------------------------------------------------------------------------
(* The inductive invariant                                                 *)

\* The committed offset is not beyond the one read next, which is not beyond the
\* end; of the message in hand, which is marked, the rows still to be inserted are
\* not there.
ConsumerInv ==
    /\ committed =< consumer.next /\ consumer.next =< log + 1
    /\ consumer.at # 0 =>
          /\ consumer.next = consumer.at + 1
          /\ consumer.at \in processed
          /\ consumer.left \subseteq Matching
          /\ \A e \in consumer.left : inserts[<<consumer.at, e>>] = 0

\* A row exists, once, only for a message marked as processed.
RowInv ==
    \A d \in Deliveries :
        /\ inserts[d] =< 1
        /\ inserts[d] > 0 => d[1] \in processed
        /\ row[d].status = "absent" <=> inserts[d] = 0

\* Every message read so far was marked or cut short; one that was marked and not
\* cut short has its rows, or is in hand, uncommitted, with the others to insert.
LossInv ==
    /\ \A o \in Offsets : o < consumer.next => o \in processed \cup cutShort
    /\ consumer.at # 0 => committed =< consumer.at
    /\ \A o \in processed \ cutShort, e \in Matching :
          inserts[<<o, e>>] > 0 \/ (consumer.at = o /\ e \in consumer.left)

\* Schedulers work on rows that are there, and only between a claim and the end
\* of its round.
TaskInv ==
    /\ \A s \in Schedulers, d \in Deliveries :
          /\ task[s][d].state = "received" => d \in received
          /\ task[s][d].state # "none" => row[d].status # "absent"
    /\ \A s \in Schedulers : pc[s] # "sending" => Busy(s) = {}

Leased(d) == {s \in Schedulers : task[s][d].state = "leased"}

\* The attempts of a row and those that are about to be counted.
LimitInv ==
    \A d \in Deliveries :
        row[d].attempts + Cardinality(Leased(d)) < MaxAttempts + Cardinality(Schedulers)

\* The consumer, the rows and the schedulers belong together: the inductive
\* invariant behind SuccessIsReceived, OneRowPerEndpoint and AttemptsLimited.
WebhookInv ==
    /\ TypeOK /\ ConsumerInv /\ RowInv /\ TaskInv /\ LimitInv
    /\ SuccessIsReceived
=============================================================================
