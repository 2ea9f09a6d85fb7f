------------------------ MODULE OutboxWorker_proofs ------------------------
(***************************************************************************)
(* Proofs about OutboxWorker for any number of events and workers, any     *)
(* batch size, retry limit and number of crashes.                          *)
(***************************************************************************)
EXTENDS OutboxWorker, FiniteSetTheorems, TLAPS

(* Type correctness, one action at a time.                                 *)

\* What a worker writes back is a row of outbox_events.
LEMMA OutcomeType ==
    ASSUME TypeOK, NEW w \in Workers, NEW e \in Events
    PROVE  Outcome(w, e) \in [published: BOOLEAN, lock: {"free", "held", "stale"},
                              attempts: Nat]
  <1>1. /\ row[e] \in [published: BOOLEAN, lock: {"free", "held", "stale"}, attempts: Nat]
        /\ row[e].published \in BOOLEAN
        /\ row[e].attempts \in Nat
    BY DEF TypeOK
  <1>2. CASE result[w][e] = "ok"
    <2>1. Outcome(w, e) = [row[e] EXCEPT !.published = TRUE, !.lock = "free",
                                         !.attempts = row[e].attempts]
      BY <1>2 DEF Outcome
    <2>2. QED
      BY <1>1, <2>1
  <1>3. CASE result[w][e] # "ok"
    <2> DEFINE n == IF result[w][e] = "failed" THEN row[e].attempts + 1
                    ELSE row[e].attempts
    <2>1. Outcome(w, e) = [row[e] EXCEPT !.published = row[e].published,
                                         !.lock = "free", !.attempts = n]
      BY <1>3 DEF Outcome
    <2>2. n \in Nat
      BY <1>1
    <2>3. QED
      BY <1>1, <2>1, <2>2
  <1>4. QED
    BY <1>2, <1>3

\* The published mark and the failure count of such a row.
LEMMA OutcomeFields ==
    ASSUME TypeOK, NEW w \in Workers, NEW e \in Events
    PROVE  /\ Outcome(w, e).published <=> (row[e].published \/ result[w][e] = "ok")
           /\ Outcome(w, e).attempts >= row[e].attempts
  <1>1. /\ row[e] \in [published: BOOLEAN, lock: {"free", "held", "stale"}, attempts: Nat]
        /\ row[e].attempts \in Nat
    BY DEF TypeOK
  <1>2. Outcome(w, e).published = IF result[w][e] = "ok" THEN TRUE ELSE row[e].published
    BY <1>1 DEF Outcome
  <1>3. Outcome(w, e).attempts = IF result[w][e] = "failed" THEN row[e].attempts + 1
                                 ELSE row[e].attempts
    BY <1>1 DEF Outcome
  <1>4. Outcome(w, e).published <=> (row[e].published \/ result[w][e] = "ok")
    BY <1>2
  <1>5. Outcome(w, e).attempts >= row[e].attempts
    BY <1>1, <1>3
  <1>6. QED
    BY <1>4, <1>5

\* Every step of the workers, the clock and the business transactions keeps the
\* types of the tables and of the workers' memory.
LEMMA TypeStep == TypeOK /\ [Next]_vars => TypeOK'
  <1> SUFFICES ASSUME TypeOK, [Next]_vars
               PROVE  TypeOK'
    OBVIOUS
  <1>1. ASSUME NEW e \in Events, Insert(e)
        PROVE  TypeOK'
    BY <1>1 DEF TypeOK, Insert
  <1>2. ASSUME NEW e \in Events, LeaseAges(e)
        PROVE  TypeOK'
    BY <1>2 DEF TypeOK, LeaseAges
  <1>3. ASSUME NEW w \in Workers, Reclaim(w)
        PROVE  TypeOK'
    BY <1>3 DEF TypeOK, Reclaim, ReclaimedRows
  <1>4. ASSUME NEW w \in Workers, Claim(w)
        PROVE  TypeOK'
    BY <1>4 DEF TypeOK, Claim, Results
  <1>5. ASSUME NEW w \in Workers, NEW e \in Events, BrokerAppends(w, e)
        PROVE  TypeOK'
    BY <1>5 DEF TypeOK, BrokerAppends, Results
  <1>6. ASSUME NEW w \in Workers, NEW e \in Events, SendSucceeds(w, e)
        PROVE  TypeOK'
    BY <1>6 DEF TypeOK, SendSucceeds, Results
  <1>7. ASSUME NEW w \in Workers, NEW e \in Events, SendFails(w, e)
        PROVE  TypeOK'
    BY <1>7 DEF TypeOK, SendFails, Results
  <1>8. ASSUME NEW w \in Workers, Record(w)
        PROVE  TypeOK'
    <2>1. row' \in [Events -> [published: BOOLEAN, lock: {"free", "held", "stale"},
                               attempts: Nat]]
      BY <1>8, OutcomeType DEF TypeOK, Record
    <2>2. QED
      BY <1>8, <2>1 DEF TypeOK, Record, Results
  <1>9. ASSUME NEW w \in Workers, Crash(w)
        PROVE  TypeOK'
    BY <1>9, OutboxAssumption DEF TypeOK, Crash, Results
  <1>10. CASE UNCHANGED vars
    BY <1>10 DEF TypeOK, vars
  <1>11. QED
    BY <1>1, <1>2, <1>3, <1>4, <1>5, <1>6, <1>7, <1>8, <1>9, <1>10
    DEF Next, Step, Publish

-----------------------------------------------------------------------------
(* HandoverInv: a worker holds only inserted events, calls sent only what  *)
(* the broker has, and a published mark rests on such a call.              *)

\* The initial tables are empty.
LEMMA HandoverInit == Init => HandoverInv
  BY OutboxAssumption DEF Init, HandoverInv, TypeOK, Batch, Results

\* HandoverInv is inductive: neither a lease that runs out under its holder nor a
\* crash between publishing and recording breaks it.
LEMMA HandoverStep == HandoverInv /\ [Next]_vars => HandoverInv'
  <1> SUFFICES ASSUME HandoverInv, [Next]_vars
               PROVE  HandoverInv'
    OBVIOUS
  <1>t. TypeOK /\ TypeOK'
    BY TypeStep DEF HandoverInv
  <1>1. ASSUME NEW e \in Events, Insert(e)
        PROVE  HandoverInv'
    BY <1>1, <1>t DEF HandoverInv, Insert, Batch
  <1>2. ASSUME NEW e \in Events, LeaseAges(e)
        PROVE  HandoverInv'
    BY <1>2, <1>t DEF HandoverInv, TypeOK, LeaseAges, Batch
  <1>3. ASSUME NEW w \in Workers, Reclaim(w)
        PROVE  HandoverInv'
    <2>1. \A e \in Events : row'[e].published = row[e].published
      BY <1>3, <1>t DEF TypeOK, Reclaim, ReclaimedRows
    <2>2. QED
      BY <1>3, <1>t, <2>1 DEF HandoverInv, Reclaim, Batch
  <1>4. ASSUME NEW w \in Workers, Claim(w)
        PROVE  HandoverInv'
    <2>1. \A e \in Events : row'[e].published = row[e].published
      BY <1>4, <1>t DEF TypeOK, Claim
    <2>2. PICK skipped \in SUBSET (Claimable \cap Recording(w)) :
            result' = [result EXCEPT ![w] =
                [e \in Events |-> IF e \in Oldest(Claimable \ skipped)
                                  THEN "waiting" ELSE "none"]]
      BY <1>4 DEF Claim
    <2>3. Oldest(Claimable \ skipped) \subseteq inserted
      BY DEF Oldest, Claimable
    <2>4. \A v \in Workers, e \in Events :
            result'[v][e] = IF v = w
                            THEN (IF e \in Oldest(Claimable \ skipped)
                                  THEN "waiting" ELSE "none")
                            ELSE result[v][e]
      BY <1>t, <2>2 DEF TypeOK
    <2>5. QED
      BY <1>4, <1>t, <2>1, <2>3, <2>4 DEF HandoverInv, Claim, Batch
  <1>5. ASSUME NEW w \in Workers, NEW e \in Events, BrokerAppends(w, e)
        PROVE  HandoverInv'
    <2>1. e \in inserted
      BY <1>5 DEF HandoverInv, BrokerAppends, Batch
    <2>2. QED
      BY <1>5, <1>t, <2>1 DEF HandoverInv, TypeOK, BrokerAppends, Batch
  <1>6. ASSUME NEW w \in Workers, NEW e \in Events, SendSucceeds(w, e)
        PROVE  HandoverInv'
    BY <1>6, <1>t DEF HandoverInv, TypeOK, SendSucceeds, Acknowledged, Batch
  <1>7. ASSUME NEW w \in Workers, NEW e \in Events, SendFails(w, e)
        PROVE  HandoverInv'
    BY <1>7, <1>t DEF HandoverInv, TypeOK, SendFails, Batch
  <1>8. ASSUME NEW w \in Workers, Record(w)
        PROVE  HandoverInv'
    <2>1. \A e \in Events : row'[e].published =>
                              row[e].published \/ result[w][e] = "ok"
      BY <1>8, <1>t, OutcomeFields DEF TypeOK, Record
    <2>2. \A v \in Workers, e \in Events :
            result'[v][e] = IF v = w THEN "none" ELSE result[v][e]
      BY <1>8, <1>t DEF TypeOK, Record
    <2>3. QED
      BY <1>8, <1>t, <2>1, <2>2 DEF HandoverInv, Record, Batch
  <1>9. ASSUME NEW w \in Workers, Crash(w)
        PROVE  HandoverInv'
    <2>1. \A v \in Workers, e \in Events :
            result'[v][e] = IF v = w THEN "none" ELSE result[v][e]
      BY <1>9, <1>t DEF TypeOK, Crash
    <2>2. QED
      BY <1>9, <1>t, <2>1 DEF HandoverInv, Crash, Batch
  <1>10. CASE UNCHANGED vars
    BY <1>10, <1>t DEF HandoverInv, Batch, vars
  <1>11. QED
    BY <1>1, <1>2, <1>3, <1>4, <1>5, <1>6, <1>7, <1>8, <1>9, <1>10
    DEF Next, Step, Publish

\* HandoverInv holds in every state.
LEMMA Handover == Spec => []HandoverInv
  BY HandoverInit, HandoverStep, PTL DEF Spec

-----------------------------------------------------------------------------
(* The refinement.                                                         *)

\* The empty tables are the empty promise.
LEMMA PromiseInit == Init => Promise!ALOInit
  BY DEF Init, Promise!ALOInit

\* Every step of the worker is a step of the promise, or leaves it alone: Insert
\* accepts, BrokerAppends delivers, Record writes off what it marks published.
LEMMA PromiseStep ==
    HandoverInv /\ [Next]_vars => [Promise!ALONext]_(Promise!aloVars)
  <1> SUFFICES ASSUME HandoverInv, [Next]_vars
               PROVE  [Promise!ALONext]_(Promise!aloVars)
    OBVIOUS
  <1> DEFINE Published == {e \in Events : row[e].published}
  <1>t. TypeOK
    BY DEF HandoverInv
  <1>1. ASSUME NEW e \in Events, Insert(e)
        PROVE  Promise!Accept(e)
    BY <1>1 DEF Insert, Promise!Accept
  <1>2. ASSUME NEW w \in Workers, NEW e \in Events, BrokerAppends(w, e)
        PROVE  Promise!Deliver(e)
    BY <1>2 DEF HandoverInv, BrokerAppends, Batch, Promise!Deliver
  <1>3. ASSUME NEW w \in Workers, Record(w)
        PROVE  \E S \in SUBSET Events : Promise!WriteOff(S)
    <2> DEFINE S == {e \in Events : result[w][e] = "ok"}
    <2>1. \A e \in Events : row'[e].published <=>
                              (row[e].published \/ result[w][e] = "ok")
      BY <1>3, <1>t, OutcomeFields DEF TypeOK, Record, Batch
    <2>2. Published' = Published \cup S
      BY <2>1
    <2>3. S \subseteq delivered
      BY DEF HandoverInv
    <2>4. S \in SUBSET Events
      OBVIOUS
    <2>5. QED
      <3> HIDE DEF S
      <3>1. QED
        BY <1>3, <2>2, <2>3, <2>4 DEF Record, Promise!WriteOff
  <1>4. ASSUME inserted' = inserted, delivered' = delivered,
               \A e \in Events : row'[e].published = row[e].published
        PROVE  UNCHANGED Promise!aloVars
    <2>1. Published' = Published
      BY <1>4
    <2>2. QED
      BY <1>4, <2>1 DEF Promise!aloVars
  <1>5. ASSUME NEW e \in Events, LeaseAges(e)
        PROVE  UNCHANGED Promise!aloVars
    BY <1>5, <1>t, <1>4 DEF TypeOK, LeaseAges
  <1>6. ASSUME NEW w \in Workers, Reclaim(w)
        PROVE  UNCHANGED Promise!aloVars
    BY <1>6, <1>t, <1>4 DEF TypeOK, Reclaim, ReclaimedRows
  <1>7. ASSUME NEW w \in Workers, Claim(w)
        PROVE  UNCHANGED Promise!aloVars
    BY <1>7, <1>t, <1>4 DEF TypeOK, Claim
  <1>8. ASSUME NEW w \in Workers, NEW e \in Events,
               SendSucceeds(w, e) \/ SendFails(w, e)
        PROVE  UNCHANGED Promise!aloVars
    BY <1>8, <1>4 DEF SendSucceeds, SendFails
  <1>9. ASSUME NEW w \in Workers, Crash(w)
        PROVE  UNCHANGED Promise!aloVars
    BY <1>9, <1>4 DEF Crash
  <1>10. CASE UNCHANGED vars
    BY <1>10, <1>4 DEF vars
  <1>11. QED
    BY <1>1, <1>2, <1>3, <1>5, <1>6, <1>7, <1>8, <1>9, <1>10
    DEF Next, Step, Publish, Promise!ALONext

\* The outbox worker implements the at-least-once promise: a crash, a send that
\* times out or a lost lease may repeat a delivery and never skips one.
THEOREM Refinement == Spec => ImplementsAtLeastOnce
  <1>1. QED
    BY Handover, PromiseInit, PromiseStep, PTL
    DEF Spec, ImplementsAtLeastOnce, Promise!ALOSpec

-----------------------------------------------------------------------------
(* Marks are never taken back.                                             *)

\* No step, in particular no late Record of a worker that lost its lease, makes a
\* published event unpublished or forgets a counted failure.
LEMMA FinalStep ==
    ASSUME TypeOK, [Next]_vars, NEW e \in Events
    PROVE  /\ row[e].published => row'[e].published
           /\ row'[e].attempts >= row[e].attempts
  <1>1. ASSUME row'[e].published = row[e].published, row'[e].attempts = row[e].attempts
        PROVE  /\ row[e].published => row'[e].published
               /\ row'[e].attempts >= row[e].attempts
    BY <1>1 DEF TypeOK
  <1>2. ASSUME NEW f \in Events, Insert(f) \/ LeaseAges(f)
        PROVE  row'[e].published = row[e].published /\ row'[e].attempts = row[e].attempts
    BY <1>2 DEF TypeOK, Insert, LeaseAges
  <1>3. ASSUME NEW w \in Workers, Reclaim(w) \/ Claim(w) \/ Publish(w) \/ Crash(w)
        PROVE  row'[e].published = row[e].published /\ row'[e].attempts = row[e].attempts
    <2>1. CASE Reclaim(w)
      BY <2>1 DEF TypeOK, Reclaim, ReclaimedRows
    <2>2. CASE Claim(w)
      BY <2>2 DEF TypeOK, Claim
    <2>3. CASE Publish(w) \/ Crash(w)
      BY <2>3 DEF Publish, BrokerAppends, SendSucceeds, SendFails, Crash
    <2>4. QED
      BY <1>3, <2>1, <2>2, <2>3
  <1>4. ASSUME NEW w \in Workers, Record(w)
        PROVE  /\ row[e].published => row'[e].published
               /\ row'[e].attempts >= row[e].attempts
    <2>1. CASE e \in Batch(w)
      BY <1>4, <2>1, OutcomeFields DEF TypeOK, Record
    <2>2. CASE e \notin Batch(w)
      BY <1>1, <1>4, <2>2 DEF TypeOK, Record
    <2>3. QED
      BY <2>1, <2>2
  <1>5. CASE UNCHANGED vars
    BY <1>1, <1>5 DEF vars
  <1>6. QED
    BY <1>1, <1>2, <1>3, <1>4, <1>5 DEF Next, Step

\* Publishing is final and failures are counted for good, for any number of
\* workers racing on the same row.
THEOREM PublishingIsFinal == Spec => PublishedIsFinal
  <1>1. HandoverInv /\ [Next]_vars =>
          [\A e \in Events : /\ row[e].published => row'[e].published
                             /\ row'[e].attempts >= row[e].attempts]_vars
    BY FinalStep DEF HandoverInv
  <1>2. QED
    BY <1>1, Handover, PTL DEF Spec, PublishedIsFinal

-----------------------------------------------------------------------------
(* AttemptsInv: every worker that may still count a failure for an event   *)
(* has been counted beforehand, since it claimed it below the limit.       *)

\* The workers that hold an event are finitely many.
LEMMA HoldersFinite ==
    ASSUME NEW e \in Events
    PROVE  /\ IsFiniteSet(Holders(e)) /\ Cardinality(Holders(e)) \in Nat
           /\ Cardinality(Holders(e)) =< Cardinality(Workers)
           /\ Cardinality(Workers) \in Nat
  <1>1. Holders(e) \in SUBSET Workers
    BY DEF Holders
  <1>2. QED
    BY <1>1, OutboxAssumption, FS_Subset, FS_CardinalityType

\* A step that counts no failure and lets no worker claim the event.
LEMMA NoMoreHolders ==
    ASSUME TypeOK, TypeOK', AttemptsInv, NEW e \in Events,
           row'[e].attempts = row[e].attempts, Holders(e)' \subseteq Holders(e)
    PROVE  row'[e].attempts + Cardinality(Holders(e)')
              < MaxFailedAttempts + Cardinality(Workers)
  <1>1. /\ Cardinality(Holders(e)') \in Nat
        /\ Cardinality(Holders(e)') =< Cardinality(Holders(e))
    BY HoldersFinite, FS_Subset, FS_CardinalityType
  <1>2. row[e].attempts \in Nat
    BY DEF TypeOK
  <1>3. row[e].attempts + Cardinality(Holders(e)) < MaxFailedAttempts + Cardinality(Workers)
    BY DEF AttemptsInv
  <1>4. QED
    BY <1>1, <1>2, <1>3, HoldersFinite, OutboxAssumption

\* AttemptsInv is kept: only Claim adds a holder, below the limit, and Record takes
\* one away for the failure it counts.
LEMMA AttemptsStep == HandoverInv /\ AttemptsInv /\ [Next]_vars => AttemptsInv'
  <1> SUFFICES ASSUME HandoverInv, AttemptsInv, [Next]_vars, NEW e \in Events
               PROVE  row'[e].attempts + Cardinality(Holders(e)')
                         < MaxFailedAttempts + Cardinality(Workers)
    BY DEF AttemptsInv
  <1>t. TypeOK /\ TypeOK'
    BY TypeStep DEF HandoverInv
  <1>n. row[e].attempts \in Nat /\ MaxFailedAttempts \in Nat
    BY <1>t, OutboxAssumption DEF TypeOK
  <1>1. CASE \E f \in Events : Insert(f) \/ LeaseAges(f)
    <2>1. row'[e].attempts = row[e].attempts /\ Holders(e)' = Holders(e)
      BY <1>1, <1>t DEF Insert, LeaseAges, TypeOK, Holders, Batch
    <2>2. QED
      BY <1>t, <2>1, NoMoreHolders
  <1>2. ASSUME NEW w \in Workers, Reclaim(w)
        PROVE  row'[e].attempts + Cardinality(Holders(e)')
                  < MaxFailedAttempts + Cardinality(Workers)
    <2>1. row'[e].attempts = row[e].attempts /\ Holders(e)' = Holders(e)
      BY <1>2, <1>t DEF Reclaim, ReclaimedRows, TypeOK, Holders, Batch
    <2>2. QED
      BY <1>t, <2>1, NoMoreHolders
  <1>3. ASSUME NEW w \in Workers, Claim(w)
        PROVE  row'[e].attempts + Cardinality(Holders(e)')
                  < MaxFailedAttempts + Cardinality(Workers)
    <2>1. row'[e].attempts = row[e].attempts
      BY <1>3, <1>t DEF TypeOK, Claim
    <2>2. PICK skipped \in SUBSET (Claimable \cap Recording(w)) :
            result' = [result EXCEPT ![w] =
                [f \in Events |-> IF f \in Oldest(Claimable \ skipped)
                                  THEN "waiting" ELSE "none"]]
      BY <1>3 DEF Claim
    <2>3. CASE e \in Oldest(Claimable \ skipped)
      <3>1. row[e].attempts < MaxFailedAttempts
        BY <2>3 DEF Oldest, Claimable
      <3>2. Holders(e)' \in SUBSET Workers
        BY DEF Holders
      <3>3. Cardinality(Holders(e)') \in Nat /\ Cardinality(Holders(e)') =< Cardinality(Workers)
        BY <3>2, OutboxAssumption, FS_Subset, FS_CardinalityType
      <3>4. QED
        BY <1>n, <2>1, <3>1, <3>3, HoldersFinite
    <2>4. CASE e \notin Oldest(Claimable \ skipped)
      <3>1. \A v \in Workers : result'[v][e] = IF v = w THEN "none" ELSE result[v][e]
        BY <1>t, <2>2, <2>4 DEF TypeOK
      <3>2. Holders(e)' \subseteq Holders(e)
        BY <3>1 DEF Holders, Batch
      <3>3. QED
        BY <1>t, <2>1, <3>2, NoMoreHolders
    <2>5. QED
      BY <2>3, <2>4
  <1>4. ASSUME NEW w \in Workers, Publish(w)
        PROVE  row'[e].attempts + Cardinality(Holders(e)')
                  < MaxFailedAttempts + Cardinality(Workers)
    <2>1. PICK f \in Events, x \in {"appended", "ok", "failed"} :
            /\ row' = row /\ result[w][f] # "none"
            /\ result' = [result EXCEPT ![w][f] = x]
      BY <1>4 DEF Publish, BrokerAppends, SendSucceeds, SendFails, Acknowledged
    <2>2. \A v \in Workers : result'[v][e] # "none" => result[v][e] # "none"
      BY <1>t, <2>1 DEF TypeOK
    <2>3. Holders(e)' \subseteq Holders(e)
      BY <2>2 DEF Holders, Batch
    <2>4. QED
      BY <1>t, <2>1, <2>3, NoMoreHolders
  <1>5. ASSUME NEW w \in Workers, Record(w) \/ Crash(w)
        PROVE  row'[e].attempts + Cardinality(Holders(e)')
                  < MaxFailedAttempts + Cardinality(Workers)
    <2>1. \A v \in Workers : result'[v][e] = IF v = w THEN "none" ELSE result[v][e]
      BY <1>5, <1>t DEF TypeOK, Record, Crash
    <2>2. Holders(e)' = Holders(e) \ {w}
      BY <2>1 DEF Holders, Batch
    <2>3. CASE row'[e].attempts = row[e].attempts
      BY <1>t, <2>2, <2>3, NoMoreHolders
    <2>4. CASE row'[e].attempts # row[e].attempts
      <3>1. Record(w) /\ e \in Batch(w)
        BY <1>5, <2>4 DEF Record, Crash
      <3>2. row'[e].attempts = row[e].attempts + 1
        <4>1. row'[e] = Outcome(w, e)
          BY <3>1 DEF Record
        <4>2. Outcome(w, e).attempts \in {row[e].attempts, row[e].attempts + 1}
          BY <1>t DEF Outcome, TypeOK
        <4>3. QED
          BY <2>4, <4>1, <4>2
      <3>3. w \in Holders(e)
        BY <3>1 DEF Holders
      <3>4. Cardinality(Holders(e)') = Cardinality(Holders(e)) - 1
        BY <2>2, <3>3, HoldersFinite, FS_RemoveElement
      <3>5. row[e].attempts + Cardinality(Holders(e)) < MaxFailedAttempts + Cardinality(Workers)
        BY DEF AttemptsInv
      <3>6. QED
        BY <1>n, <3>2, <3>4, <3>5, HoldersFinite
    <2>5. QED
      BY <2>3, <2>4
  <1>6. CASE UNCHANGED vars
    <2>1. row'[e].attempts = row[e].attempts /\ Holders(e)' = Holders(e)
      BY <1>6 DEF vars, Holders, Batch
    <2>2. QED
      BY <1>t, <2>1, NoMoreHolders
  <1>7. QED
    BY <1>1, <1>2, <1>3, <1>4, <1>5, <1>6 DEF Next, Step

\* No worker holds anything at first.
LEMMA AttemptsInit == Init => AttemptsInv
  <1> SUFFICES ASSUME Init, NEW e \in Events
               PROVE  row[e].attempts + Cardinality(Holders(e))
                         < MaxFailedAttempts + Cardinality(Workers)
    BY DEF AttemptsInv
  <1>1. row[e].attempts = 0 /\ Holders(e) = {}
    BY DEF Init, Holders, Batch
  <1>2. QED
    BY <1>1, FS_EmptySet, HoldersFinite, OutboxAssumption

\* In every reachable state of run_once in any number of workers, a row is marked
\* published only if the broker has its event, and its failures and the workers
\* that may still add one are bounded (DeliveryInv).
THEOREM Delivery == Spec => []DeliveryInv
  <1>1. Init => DeliveryInv
    BY HandoverInit, AttemptsInit DEF DeliveryInv
  <1>2. DeliveryInv /\ [Next]_vars => DeliveryInv'
    BY HandoverStep, AttemptsStep DEF DeliveryInv
  <1>3. QED
    BY <1>1, <1>2, PTL DEF Spec

\* The retry limit of run_once holds up to one late failure per other worker.
THEOREM RetriesBounded == Spec => []AttemptsBounded
  <1>1. DeliveryInv => AttemptsBounded
    <2> SUFFICES ASSUME DeliveryInv, NEW e \in Events
                 PROVE  row[e].attempts < MaxFailedAttempts + Cardinality(Workers)
      BY DEF AttemptsBounded
    <2>1. /\ row[e].attempts + Cardinality(Holders(e)) < MaxFailedAttempts + Cardinality(Workers)
          /\ row[e].attempts \in Nat
      BY DEF DeliveryInv, HandoverInv, AttemptsInv, TypeOK
    <2>2. QED
      BY <2>1, HoldersFinite, OutboxAssumption
  <1>2. QED
    BY <1>1, Delivery, PTL
=============================================================================
