---------------------------- MODULE OutboxWorker ----------------------------
(***************************************************************************)
(* The outbox worker (crates/outbox-worker/src/worker.rs): any number of   *)
(* worker processes poll outbox_events, lease a batch, publish it to Kafka *)
(* concurrently and record the outcomes.  A worker may crash anywhere; a   *)
(* lease is a timestamp, so it may run out while its holder still works.   *)
(***************************************************************************)
EXTENDS Integers, FiniteSets

CONSTANTS
    Events,             \* numbered in the order of created_at
    Workers,
    MaxFailedAttempts,
    BatchSize,
    MaxCrashes          \* bound on crashes and database errors

ASSUME OutboxAssumption ==
    /\ Events \subseteq Nat
    /\ IsFiniteSet(Workers)
    /\ MaxFailedAttempts \in Nat \ {0}
    /\ BatchSize \in Nat \ {0}
    /\ MaxCrashes \in Nat

VARIABLES
    row,        \* outbox_events: published, failed_attempts, and locked_at as
                \* NULL ("free"), recent ("held") or over 5 minutes old ("stale")
    inserted,   \* the events whose business transaction has committed
    delivered,  \* the events the broker has appended to their topic
    pc,         \* where run_once is in each worker
    result,     \* what each worker knows of each event of its batch
    crashes

vars == <<row, inserted, delivered, pc, result, crashes>>

Results == {"none", "waiting", "appended", "ok", "failed"}

\* Every variable has its type.
TypeOK ==
    /\ row \in [Events -> [published: BOOLEAN, lock: {"free", "held", "stale"},
                           attempts: Nat]]
    /\ inserted \subseteq Events
    /\ delivered \subseteq Events
    /\ pc \in [Workers -> {"idle", "claiming", "publishing"}]
    /\ result \in [Workers -> [Events -> Results]]
    /\ crashes \in 0..MaxCrashes

Init ==
    /\ row = [e \in Events |-> [published |-> FALSE, lock |-> "free", attempts |-> 0]]
    /\ inserted = {}
    /\ delivered = {}
    /\ pc = [w \in Workers |-> "idle"]
    /\ result = [w \in Workers |-> [e \in Events |-> "none"]]
    /\ crashes = 0

Batch(w) == {e \in Events : result[w][e] # "none"}

-----------------------------------------------------------------------------

\* A business transaction commits with its event (insert_outbox_event).
Insert(e) ==
    /\ e \notin inserted
    /\ \A f \in Events : f < e => f \in inserted
    /\ inserted' = inserted \cup {e}
    /\ UNCHANGED <<row, delivered, pc, result, crashes>>

\* Five minutes pass on a lease, its holder dead or merely slow.
LeaseAges(e) ==
    /\ row[e].lock = "held"
    /\ row' = [row EXCEPT ![e].lock = "stale"]
    /\ UNCHANGED <<inserted, delivered, pc, result, crashes>>

\* Mutant: leases are never taken back.
NoneReclaimed == row

ReclaimedRows ==
    [e \in Events |-> IF ~row[e].published /\ row[e].lock = "stale"
                      THEN [row[e] EXCEPT !.lock = "free"] ELSE row[e]]

\* run_once, first statement: old leases are taken back.
Reclaim(w) ==
    /\ pc[w] = "idle"
    /\ row' = ReclaimedRows
    /\ pc' = [pc EXCEPT ![w] = "claiming"]
    /\ UNCHANGED <<inserted, delivered, result, crashes>>

\* Mutant: the retry limit is not part of the claim's condition.
UnpublishedAndFree == {e \in inserted : ~row[e].published /\ row[e].lock = "free"}

Claimable == {e \in inserted : /\ ~row[e].published
                               /\ row[e].lock = "free"
                               /\ row[e].attempts < MaxFailedAttempts}

\* ORDER BY created_at LIMIT batch_size.
Oldest(S) == {e \in S : Cardinality({f \in S : f < e}) < BatchSize}

Finished(w) == \A e \in Batch(w) : result[w][e] \in {"ok", "failed"}

\* The rows another worker's recording transaction may have locked.
Recording(w) == UNION {Batch(v) : v \in {v \in Workers \ {w} : Finished(v)}}

\* Second statement: the batch is leased, rows locked at that moment are skipped
\* (SKIP LOCKED); an empty batch ends the round.
Claim(w) ==
    /\ pc[w] = "claiming"
    /\ \E skipped \in SUBSET (Claimable \cap Recording(w)) :
        LET batch == Oldest(Claimable \ skipped) IN
        /\ row' = [e \in Events |-> IF e \in batch
                                    THEN [row[e] EXCEPT !.lock = "held"] ELSE row[e]]
        /\ result' = [result EXCEPT ![w] =
                        [e \in Events |-> IF e \in batch THEN "waiting" ELSE "none"]]
        /\ pc' = [pc EXCEPT ![w] = IF batch = {} THEN "idle" ELSE "publishing"]
    /\ UNCHANGED <<inserted, delivered, crashes>>

\* The broker appends a message; the futures of a batch run unordered.
BrokerAppends(w, e) ==
    /\ pc[w] = "publishing"
    /\ result[w][e] = "waiting"
    /\ delivered' = delivered \cup {e}
    /\ result' = [result EXCEPT ![w][e] = "appended"]
    /\ UNCHANGED <<row, inserted, pc, crashes>>

\* Mutant: a message counts as published once it is handed to the producer.
HandedOver(w, e) == result[w][e] \in {"waiting", "appended"}

Acknowledged(w, e) == result[w][e] = "appended"

SendSucceeds(w, e) ==
    /\ pc[w] = "publishing"
    /\ Acknowledged(w, e)
    /\ result' = [result EXCEPT ![w][e] = "ok"]
    /\ UNCHANGED <<row, inserted, delivered, pc, crashes>>

\* An error or the 10 s timeout, also for a message the broker did append.
SendFails(w, e) ==
    /\ pc[w] = "publishing"
    /\ result[w][e] \in {"waiting", "appended"}
    /\ result' = [result EXCEPT ![w][e] = "failed"]
    /\ UNCHANGED <<row, inserted, delivered, pc, crashes>>

\* Mutant: the failure update writes published as well.
OutcomeAlwaysWritten(w, e) ==
    [row[e] EXCEPT !.published = (result[w][e] = "ok"), !.lock = "free",
                   !.attempts = IF result[w][e] = "failed" THEN @ + 1 ELSE @]

\* Neither update looks at who holds the lease now.
Outcome(w, e) ==
    [row[e] EXCEPT !.published = IF result[w][e] = "ok" THEN TRUE ELSE @,
                   !.lock = "free",
                   !.attempts = IF result[w][e] = "failed" THEN @ + 1 ELSE @]

\* The recording transaction.  Dead-lettering only logs.
Record(w) ==
    /\ pc[w] = "publishing"
    /\ Finished(w)
    /\ row' = [e \in Events |-> IF e \in Batch(w) THEN Outcome(w, e) ELSE row[e]]
    /\ result' = [result EXCEPT ![w] = [e \in Events |-> "none"]]
    /\ pc' = [pc EXCEPT ![w] = "idle"]
    /\ UNCHANGED <<inserted, delivered, crashes>>

\* The process dies, or a statement fails and run_once returns the error: the
\* batch is forgotten, its leases stay.
Crash(w) ==
    /\ pc[w] # "idle"
    /\ crashes < MaxCrashes
    /\ crashes' = crashes + 1
    /\ result' = [result EXCEPT ![w] = [e \in Events |-> "none"]]
    /\ pc' = [pc EXCEPT ![w] = "idle"]
    /\ UNCHANGED <<row, inserted, delivered>>

-----------------------------------------------------------------------------

Publish(w) == \E e \in Events :
    BrokerAppends(w, e) \/ SendSucceeds(w, e) \/ SendFails(w, e)

Step(w) == Reclaim(w) \/ Claim(w) \/ Publish(w) \/ Record(w)

Next ==
    \/ \E e \in Events : Insert(e) \/ LeaseAges(e)
    \/ \E w \in Workers : Step(w) \/ Crash(w)

Spec == Init /\ [][Next]_vars

\* The poll loop never stops and every send ends within its timeout; the clock
\* runs.  Nothing is assumed of the broker.
Fairness ==
    /\ \A w \in Workers : WF_vars(Step(w))
    /\ \A e \in Events : WF_vars(LeaseAges(e))

FairSpec == Spec /\ Fairness

-----------------------------------------------------------------------------
(* Properties                                                              *)

\* The outbox keeps its promise whatever crashes, times out, or loses its lease:
\* an event is marked published only after the broker has it.
Promise == INSTANCE AtLeastOnce WITH
    accepted <- inserted,
    writtenOff <- {e \in Events : row[e].published}

ImplementsAtLeastOnce == Promise!ALOSpec

\* A worker that comes back after its lease ran out cannot make a published event
\* unpublished or take back a counted failure.
PublishedIsFinal ==
    [][\A e \in Events : /\ row[e].published => row'[e].published
                         /\ row'[e].attempts >= row[e].attempts]_vars

\* The retry limit holds up to one late failure per other worker, even if leases
\* run out under their holders.
AttemptsBounded ==
    \A e \in Events : row[e].attempts < MaxFailedAttempts + Cardinality(Workers)

\* tests/invariants.rs, invariant_outbox_events_eventually_published: an event is
\* eventually published or has used up its attempts; a crashed worker's lease
\* does not hold it for ever.
EventuallyResolved ==
    \A e \in Events : e \in inserted ~>
        (row[e].published \/ row[e].attempts >= MaxFailedAttempts)

\* The workers that have e in their batch and may yet count a failure.
Holders(e) == {w \in Workers : e \in Batch(w)}

AttemptsInv ==
    \A e \in Events :
        row[e].attempts + Cardinality(Holders(e)) < MaxFailedAttempts + Cardinality(Workers)

\* What a worker calls sent, and what is marked published, the broker has.
HandoverInv ==
    /\ TypeOK
    /\ delivered \subseteq inserted
    /\ \A w \in Workers : Batch(w) \subseteq inserted
    /\ \A w \in Workers, e \in Events : result[w][e] \in {"appended", "ok"} => e \in delivered
    /\ \A e \in Events : row[e].published => e \in delivered

\* The inductive invariant behind ImplementsAtLeastOnce and AttemptsBounded.
DeliveryInv == HandoverInv /\ AttemptsInv
=============================================================================
