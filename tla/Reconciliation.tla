---------------------------- MODULE Reconciliation ----------------------------
(***************************************************************************)
(* The reconciliation service (crates/reconciliation-service/src), beside  *)
(* the payment service and the settlement worker.  A run reads the         *)
(* payments captured in the last 24 hours, then asks the provider for its  *)
(* charges of the same period, and records what does not agree, a          *)
(* statement at a time.  Runs share nothing but the payments they read, so *)
(* one at a time is followed, by its run_id.  Every payment is taken to    *)
(* have been charged with Stripe; the provider is external.                *)
(***************************************************************************)
EXTENDS Settlement

CONSTANTS
    Period,        \* 24 hours, in ticks of the clock
    PageLimit,     \* limit=100 of the charge list; no second page is read
    MaxClock,      \* bound on the clock
    Skew           \* how far the clocks of the provider and of the payment service
                   \* may be from the reconciler's

ASSUME ReconciliationAssumption ==
    Period \in Nat /\ PageLimit \in Nat /\ MaxClock \in Nat /\ Skew \in Nat

VARIABLES
    byChargeId,    \* whether acquirer_reference is the id of a charge, by which the
                   \* run looks it up; the Stripe adapter's is that of a payment intent
    clock,         \* of the reconciliation service
    createdAt,     \* provider: when the charge of each payment was made, by its clock
    reversed,      \* provider: charges that have failed since
    capturedAt,    \* payments.captured_at, by the payment service's clock
    run,           \* the last run: its row and where it is
    mismatches     \* reconciliation_mismatches of that run

rvars == <<byChargeId, clock, createdAt, reversed, capturedAt, run, mismatches>>
officeVars == <<sysVars, rvars>>

Kinds == {"missing_in_provider", "amount_mismatch", "status_mismatch"}

Unseen == [p \in CreateReqs |-> "absent"]

NoRun == [status |-> "none", step |-> "idle", start |-> 0, end |-> 0, ours |-> Unseen,
          todo |-> {}, partial |-> FALSE, due |-> {}, checked |-> {}]

\* ours: the statuses of the payments that were read; checked: the ones counted by
\* payments_checked; partial (the list of charges was cut or empty) and due (see
\* NothingOverlooked) are history.
RunState == [status: {"none", "running", "completed", "failed"},
             step: {"idle", "read", "fetch", "record"},
             start: Int, end: 0..MaxClock,
             ours: [CreateReqs -> Statuses \cup {"absent"}],
             todo: SUBSET (CreateReqs \X Kinds),
             partial: BOOLEAN, due: SUBSET CreateReqs, checked: SUBSET CreateReqs]

\* What the clocks of the other services show.
Dates == (clock - Skew)..(clock + Skew)

\* Every variable of the service has its type.
ReconciliationTypeOK ==
    /\ byChargeId \in BOOLEAN
    /\ clock \in 0..MaxClock
    /\ createdAt \in [CreateReqs -> Int]
    /\ reversed \subseteq CreateReqs
    /\ capturedAt \in [CreateReqs -> Int]
    /\ run \in RunState
    /\ mismatches \subseteq CreateReqs \X Kinds

OfficeInit ==
    /\ SysInit
    /\ byChargeId \in BOOLEAN
    /\ clock = 0
    /\ createdAt = [p \in CreateReqs |-> 0]
    /\ reversed = {}
    /\ capturedAt = [p \in CreateReqs |-> 0]
    /\ run = NoRun
    /\ mismatches = {}

-----------------------------------------------------------------------------

\* The other services go on: a charge is dated by the provider when it is made,
\* a capture by the payment service when it is booked (Utc::now()).
Business ==
    /\ SysNext
    /\ createdAt' \in {[p \in CreateReqs |->
            IF acq[p] # "done" /\ acq'[p] = "done" THEN date ELSE createdAt[p]] : date \in Dates}
    /\ capturedAt' \in {[p \in CreateReqs |->
            IF payments[p].captured = 0 /\ payments'[p].captured > 0 THEN date
            ELSE capturedAt[p]] : date \in Dates}
    /\ UNCHANGED <<byChargeId, clock, reversed, run, mismatches>>

\* Time passes.  A run is short against a tick.
Tick ==
    /\ run.step = "idle"
    /\ clock < MaxClock
    /\ clock' = clock + 1
    /\ UNCHANGED <<sysVars, byChargeId, createdAt, reversed, capturedAt, run, mismatches>>

\* A charge fails at the provider after it was approved.
Reverse(p) ==
    /\ acq[p] = "done"
    /\ p \notin reversed
    /\ reversed' = reversed \cup {p}
    /\ UNCHANGED <<sysVars, byChargeId, clock, createdAt, capturedAt, run, mismatches>>

InPeriod(t, start, end) == start =< t /\ t =< end

\* captured_at BETWEEN period_start AND period_end.
CapturedIn(start, end) ==
    {p \in CreateReqs : payments[p].captured > 0 /\ InPeriod(capturedAt[p], start, end)}

\* run_daily, by the scheduler or POST /v1/reconcile: the row of the run.
StartRun ==
    /\ run.step = "idle"
    /\ run' = [NoRun EXCEPT !.status = "running", !.step = "read",
                            !.start = clock - Period, !.end = clock,
                            !.due = CapturedIn(clock - Period, clock) \cap reversed]
    /\ mismatches' = {}
    /\ UNCHANGED <<sysVars, byChargeId, clock, createdAt, reversed, capturedAt>>

\* reconcile_stripe reads our payments before it asks the provider.
ReadPayments ==
    /\ run.step = "read"
    /\ run' = [run EXCEPT !.step = "fetch",
            !.ours = [p \in CreateReqs |->
                IF p \in CapturedIn(run.start, run.end) THEN payments[p].status ELSE "absent"]]
    /\ UNCHANGED <<sysVars, byChargeId, clock, createdAt, reversed, capturedAt, mismatches>>

\* Mutant: created[lt] instead of created[lte].
ChargesBefore(start, end) ==
    {p \in CreateReqs : acq[p] = "done" /\ start =< createdAt[p] /\ createdAt[p] < end}

\* The provider's charges with created[gte] and created[lte].
Charges(start, end) ==
    {p \in CreateReqs : acq[p] = "done" /\ InPeriod(createdAt[p], start, end)}

\* The newest PageLimit of them.
Pages(charges) ==
    {S \in SUBSET charges :
        /\ Cardinality(S) = IF Cardinality(charges) =< PageLimit THEN Cardinality(charges)
                            ELSE PageLimit
        /\ \A p \in S, q \in charges \ S : createdAt[q] =< createdAt[p]}

\* Mutant: a settled payment is expected to have no particular status.
OnlyCapturedExpected(status) == IF status = "captured" THEN "succeeded" ELSE ""

\* The status a charge should have.
ExpectedStripe(status) ==
    IF status \in {"captured", "settled"} THEN "succeeded"
    ELSE IF status = "failed" THEN "failed" ELSE ""

ChargeStatus(p) == IF p \in reversed THEN "failed" ELSE "succeeded"

\* The amount the provider was asked for.
ChargeAmount(p) == req[p].amount

\* The list is indexed by the ids of the charges.
Found(p, page) == byChargeId /\ p \in page

\* What the loop over our payments will record.
Disagreements(page) ==
    {v \in CreateReqs \X Kinds :
        /\ run.ours[v[1]] # "absent"
        /\ IF ~Found(v[1], page) THEN v[2] = "missing_in_provider"
           ELSE \/ /\ v[2] = "amount_mismatch"
                   /\ payments[v[1]].amount # ChargeAmount(v[1])
                \/ /\ v[2] = "status_mismatch"
                   /\ ExpectedStripe(run.ours[v[1]]) # ""
                   /\ ChargeStatus(v[1]) # ExpectedStripe(run.ours[v[1]])}

\* fetch_stripe_charges: a page of charges, or nothing at all when there is no API
\* key or the body (of any HTTP status) has no data.
FetchCharges ==
    LET charges == Charges(run.start, run.end) IN
    /\ run.step = "fetch"
    /\ \E page \in Pages(charges) \cup {{}} :
        run' = [run EXCEPT !.step = "record", !.todo = Disagreements(page),
                           !.partial = page # charges]
    /\ UNCHANGED <<sysVars, byChargeId, clock, createdAt, reversed, capturedAt, mismatches>>

\* record_mismatch, a statement of its own.
RecordMismatch(v) ==
    /\ run.step = "record" /\ v \in run.todo
    /\ mismatches' = mismatches \cup {v}
    /\ run' = [run EXCEPT !.todo = @ \ {v}]
    /\ UNCHANGED <<sysVars, byChargeId, clock, createdAt, reversed, capturedAt>>

Checked == {p \in CreateReqs : run.ours[p] # "absent"}

\* The last UPDATE of the run's row.  payments_checked is written on completion;
\* mismatches_found is the number of rows recorded.
Closed(status) ==
    [run EXCEPT !.status = status, !.step = "idle", !.ours = Unseen, !.todo = {},
                !.checked = IF status = "completed" THEN Checked ELSE {}]

CompleteRun ==
    /\ run.step = "record" /\ run.todo = {}
    /\ run' = Closed("completed")
    /\ UNCHANGED <<sysVars, byChargeId, clock, createdAt, reversed, capturedAt, mismatches>>

\* A statement or the call to the provider fails: the run is marked failed, with
\* what it has recorded.  If the service dies, or the database is away for that
\* statement too, its row stays at running.
EndRun ==
    /\ run.step # "idle"
    /\ run' = Closed("failed") \/ run' = Closed("running")
    /\ UNCHANGED <<sysVars, byChargeId, clock, createdAt, reversed, capturedAt, mismatches>>

Reconcile ==
    \/ StartRun \/ ReadPayments \/ FetchCharges \/ CompleteRun \/ EndRun
    \/ \E v \in CreateReqs \X Kinds : RecordMismatch(v)

OfficeNext == Business \/ Tick \/ Reconcile \/ \E p \in CreateReqs : Reverse(p)

OfficeSpec == OfficeInit /\ [][OfficeNext]_officeVars

-----------------------------------------------------------------------------
(* Properties                                                              *)

\* The charge is dated before the period (the payment was captured later), or
\* after it by a clock that is ahead.
DatedOutside(p) ==
    \/ createdAt[p] < run.start
    \/ run.end < createdAt[p] /\ createdAt[p] =< run.end + Skew

Explained(v) ==
    \/ /\ v[2] = "missing_in_provider" /\ acq[v[1]] = "done"
       /\ DatedOutside(v[1]) \/ run.partial
    \/ v[2] = "status_mismatch" /\ v[1] \in reversed

\* Looked up by the id of a payment intent no payment is found: a completed run
\* has reported each one it checked as missing, and nothing else.
NothingMatches ==
    run.status = "completed" => mismatches = run.checked \X {"missing_in_provider"}

\* What an alarm of reconcile_stripe means.  Where the references are charge ids
\* none is false: a payment is reported missing only if its charge is dated
\* outside the period or the list was cut or empty, a status only for a charge
\* that failed, and amounts always agree; payments captured, settled or refunded
\* while the run is under way raise none.  With the references the Stripe adapter
\* stores alarms mean nothing: every payment raises one.
AlarmsAreExplained ==
    IF byChargeId THEN \A v \in mismatches : Explained(v) ELSE NothingMatches

\* A run that completes has reported every payment of its period whose charge had
\* failed before the run began, also if it is settled meanwhile.
NothingOverlooked ==
    run.status = "completed" => \A p \in run.due : \E v \in mismatches : v[1] = p

\* A payment was charged for its amount, and by the provider's clock not long ahead.
ChargedBefore ==
    \A p \in CreateReqs :
        /\ createdAt[p] =< clock + Skew
        /\ Exists(p) => req[p].amount = payments[p].amount

\* A run under way: its period ends now, it has read payments of the period, the
\* due ones among them, and what it has still to record is explained.
RunInv ==
    /\ run.step # "idle" => run.end = clock /\ run.start = clock - Period
                            /\ run.status = "running"
    /\ run.due \subseteq reversed
    /\ run.step = "read" => run.due \subseteq CapturedIn(run.start, run.end)
    /\ run.step \in {"read", "fetch"} => run.todo = {} /\ mismatches = {}
    /\ run.step \in {"fetch", "record"} =>
          /\ \A p \in run.due : run.ours[p] # "absent"
          /\ \A p \in CreateReqs : run.ours[p] # "absent" =>
                p \in CapturedIn(run.start, run.end) /\ run.ours[p] \in {"captured", "settled"}
    /\ run.step = "record" => \A p \in run.due : \E v \in mismatches \cup run.todo : v[1] = p
    /\ byChargeId => \A v \in run.todo : Explained(v)
    /\ ~byChargeId /\ run.step = "record" =>
          mismatches \cup run.todo = Checked \X {"missing_in_provider"}

\* The inductive invariant behind AlarmsAreExplained and NothingOverlooked.
OfficeInv ==
    /\ IInv /\ ReconciliationTypeOK /\ ChargedBefore /\ RunInv
    /\ AlarmsAreExplained /\ NothingOverlooked
=============================================================================
