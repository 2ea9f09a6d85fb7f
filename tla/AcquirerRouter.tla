--------------------------- MODULE AcquirerRouter ---------------------------
(***************************************************************************)
(* The acquirer router (crates/acquirer-router/src/router.rs) and the      *)
(* circuit breaker it keeps for each acquirer (circuit_breaker.rs).        *)
(* Callers run concurrently; every breaker method holds its mutex for the  *)
(* whole call and no longer: between the admission of a request and its    *)
(* call to the acquirer, and until the outcome is recorded, others run.    *)
(***************************************************************************)
EXTENDS Integers

CONSTANTS
    Acquirers,          \* numbered by priority
    Callers,
    FailureThreshold,   \* 5 in the code
    SuccessThreshold    \* 2 in the code

ASSUME RouterAssumption ==
    /\ Acquirers \subseteq Nat \ {0}
    /\ FailureThreshold \in Nat \ {0}
    /\ SuccessThreshold \in Nat \ {0}

VARIABLES
    breaker,   \* cooled: the time in Open { until } has passed
    caller,    \* the operation each caller runs, the entries it has yet to filter
               \* (scan) and to try (left), and the one that has admitted it (at,
               \* or 0)
    sent,      \* the acquirers each caller's operation was sent to
    taken,     \* the acquirers that carried it out
    streak,    \* history: failures recorded since the last success, successes
               \* since the last failure, up to the thresholds
    strays     \* history: the callers each breaker had admitted, and that had not
               \* called yet, when it opened

vars == <<breaker, caller, sent, taken, streak, strays>>

Breaker == [state: {"closed", "open", "half_open"}, failure_count: Nat,
            success_count: Nat, cooled: BOOLEAN]

Caller == [op: {"none", "charge", "direct"}, scan: SUBSET Acquirers,
           left: SUBSET Acquirers, at: Acquirers \cup {0}]

Idle == [op |-> "none", scan |-> {}, left |-> {}, at |-> 0]

\* Every variable has its type.
TypeOK ==
    /\ breaker \in [Acquirers -> Breaker]
    /\ caller \in [Callers -> Caller]
    /\ sent \in [Callers -> SUBSET Acquirers]
    /\ taken \in [Callers -> SUBSET Acquirers]
    /\ streak \in [Acquirers -> [fails: 0..FailureThreshold, oks: 0..SuccessThreshold]]
    /\ strays \in [Acquirers -> SUBSET Callers]

Init ==
    /\ breaker = [a \in Acquirers |-> [state |-> "closed", failure_count |-> 0,
                                       success_count |-> 0, cooled |-> FALSE]]
    /\ caller = [c \in Callers |-> Idle]
    /\ sent = [c \in Callers |-> {}]
    /\ taken = [c \in Callers |-> {}]
    /\ streak = [a \in Acquirers |-> [fails |-> 0, oks |-> 0]]
    /\ strays = [a \in Acquirers |-> {}]

-----------------------------------------------------------------------------
(* CircuitBreaker                                                          *)

IsOpen(b) == b.state = "open"

Cooling(b) == b.state = "open" /\ ~b.cooled

\* allow_request's answer ...
AllowRequest(b) == ~Cooling(b)

\* Mutant: probes resume the count of the last recovery.
ProbeAgain(b) == IF IsOpen(b) THEN [b EXCEPT !.state = "half_open"] ELSE b

\* ... and what it does to the breaker when it says yes.
Admit(b) == IF IsOpen(b) THEN [b EXCEPT !.state = "half_open", !.success_count = 0] ELSE b

\* record_success.
RecordSuccess(b) ==
    IF b.state = "half_open"
    THEN [b EXCEPT !.failure_count = 0, !.success_count = @ + 1,
                   !.state = IF b.success_count + 1 >= SuccessThreshold
                             THEN "closed" ELSE "half_open"]
    ELSE [b EXCEPT !.failure_count = 0]

\* record_failure; in an open breaker, by a late reply, it may prolong the wait.
RecordFailure(b) ==
    IF b.failure_count + 1 >= FailureThreshold \/ b.state = "half_open"
    THEN [b EXCEPT !.state = "open", !.failure_count = 0, !.cooled = FALSE]
    ELSE [b EXCEPT !.failure_count = @ + 1]

\* The callers that acquirer a's breaker has admitted and that are about to call.
Admitted(a) == {c \in Callers : caller[c].at = a /\ a \notin sent[c]}

Bump(n, cap) == IF n < cap THEN n + 1 ELSE n

Succeeded(a) ==
    /\ breaker' = [breaker EXCEPT ![a] = RecordSuccess(@)]
    /\ streak' = [streak EXCEPT ![a] = [fails |-> 0, oks |-> Bump(@.oks, SuccessThreshold)]]
    /\ UNCHANGED strays

Failed(a) ==
    /\ breaker' = [breaker EXCEPT ![a] = RecordFailure(@)]
    /\ streak' = [streak EXCEPT ![a] = [fails |-> Bump(@.fails, FailureThreshold), oks |-> 0]]
    /\ strays' = [strays EXCEPT ![a] =
            IF ~IsOpen(breaker[a]) /\ IsOpen(RecordFailure(breaker[a])) THEN Admitted(a) ELSE @]

\* Instant::now() reaches until.
CoolDown(a) ==
    /\ Cooling(breaker[a])
    /\ breaker' = [breaker EXCEPT ![a].cooled = TRUE]
    /\ UNCHANGED <<caller, sent, taken, streak, strays>>

-----------------------------------------------------------------------------
(* AcquirerRouter: charge, capture, refund                                 *)

\* charge filters the entries first; capture and refund, which share their code
\* ("direct"), go through all of them.
Start(c, op) ==
    /\ caller[c].op = "none"
    /\ caller' = [caller EXCEPT ![c] =
            [op |-> op, scan |-> IF op = "charge" THEN Acquirers ELSE {},
             left |-> IF op = "charge" THEN {} ELSE Acquirers, at |-> 0]]
    /\ sent' = [sent EXCEPT ![c] = {}]
    /\ taken' = [taken EXCEPT ![c] = {}]
    /\ UNCHANGED <<breaker, streak, strays>>

\* The entries are sorted by priority.
First(S) == {a \in S : \A b \in S : a =< b}

\* The filter looks at one breaker at a time.
Filter(c) ==
    /\ \E a \in First(caller[c].scan) :
        caller' = [caller EXCEPT ![c] =
            [@ EXCEPT !.scan = caller[c].scan \ {a},
                      !.left = caller[c].left \cup (IF IsOpen(breaker[a]) THEN {} ELSE {a})]]
    /\ UNCHANGED <<breaker, sent, taken, streak, strays>>

Trying(c) == caller[c].op # "none" /\ caller[c].scan = {} /\ caller[c].at = 0

\* Mutant: an entry that passed the filter is called without asking its breaker.
TryUnasked(c) ==
    /\ Trying(c)
    /\ \E a \in First(caller[c].left) :
        caller' = [caller EXCEPT ![c] = [@ EXCEPT !.left = caller[c].left \ {a}, !.at = a]]
    /\ UNCHANGED <<breaker, sent, taken, streak, strays>>

\* The next entry's breaker admits the request, and its mutex is released.
Try(c) ==
    /\ Trying(c)
    /\ \E a \in First(caller[c].left) :
        /\ AllowRequest(breaker[a])
        /\ breaker' = [breaker EXCEPT ![a] = Admit(@)]
        /\ caller' = [caller EXCEPT ![c] = [@ EXCEPT !.left = caller[c].left \ {a}, !.at = a]]
    /\ UNCHANGED <<sent, taken, streak, strays>>

\* adapter.charge, capture or refund is called, whatever the breaker says by now.
Call(c) ==
    /\ caller[c].at # 0 /\ caller[c].at \notin sent[c]
    /\ sent' = [sent EXCEPT ![c] = @ \cup {caller[c].at}]
    /\ strays' = [strays EXCEPT ![caller[c].at] = @ \ {c}]
    /\ UNCHANGED <<breaker, caller, taken, streak>>

\* It does not admit it: the next one is looked at.
Skip(c) ==
    /\ Trying(c)
    /\ \E a \in First(caller[c].left) :
        /\ ~AllowRequest(breaker[a])
        /\ caller' = [caller EXCEPT ![c].left = @ \ {a}]
    /\ UNCHANGED <<breaker, sent, taken, streak, strays>>

Return(c) == caller' = [caller EXCEPT ![c] = Idle]

\* No entry is left: the last error, or AllAcquirersFailed.
GiveUp(c) ==
    /\ Trying(c) /\ caller[c].left = {}
    /\ Return(c)
    /\ UNCHANGED <<breaker, sent, taken, streak, strays>>

\* An acquirer carries out an operation it was sent, its caller waiting or not.
Acts(c, a) ==
    /\ a \in sent[c] \ taken[c]
    /\ taken' = [taken EXCEPT ![c] = @ \cup {a}]
    /\ UNCHANGED <<breaker, caller, sent, streak, strays>>

Waiting(c) == caller[c].at # 0 /\ caller[c].at \in sent[c]

Confirmed(c) == Waiting(c) /\ caller[c].at \in taken[c]

ReplyOk(c) ==
    /\ Confirmed(c)
    /\ Succeeded(caller[c].at)
    /\ Return(c)
    /\ UNCHANGED <<sent, taken>>

\* A declined charge is the customer's matter: the breaker is not told.
ReplyDeclined(c) ==
    /\ caller[c].op = "charge" /\ Waiting(c)
    /\ caller[c].at \notin taken[c]
    /\ sent' = [sent EXCEPT ![c] = @ \ {caller[c].at}]
    /\ Return(c)
    /\ UNCHANGED <<breaker, taken, streak, strays>>

\* Mutant: capture and refund go on to the next entry, too.
AlwaysFailsOver(c) == caller[c].op \in {"charge", "direct"}

FailsOver(c) == caller[c].op = "charge"

\* An error or a timeout, whether or not the acquirer has acted or will: a charge
\* goes on to the next candidate, capture and refund return it.
ReplyError(c) ==
    /\ Waiting(c)
    /\ Failed(caller[c].at)
    /\ \/ FailsOver(c) /\ caller' = [caller EXCEPT ![c].at = 0]
       \/ ~FailsOver(c) /\ Return(c)
    /\ UNCHANGED <<sent, taken>>

\* The caller's future is dropped while it waits, the only await: nothing is
\* recorded.
Dropped(c) ==
    /\ Waiting(c)
    /\ Return(c)
    /\ UNCHANGED <<breaker, sent, taken, streak, strays>>

-----------------------------------------------------------------------------

Step(c) ==
    \/ Filter(c) \/ Try(c) \/ Call(c) \/ Skip(c) \/ GiveUp(c)
    \/ ReplyOk(c) \/ ReplyDeclined(c) \/ ReplyError(c)

Next ==
    \/ \E a \in Acquirers : CoolDown(a)
    \/ \E c \in Callers :
        \/ \E op \in {"charge", "direct"} : Start(c, op)
        \/ \E a \in Acquirers : Acts(c, a)
        \/ Step(c) \/ Dropped(c)

Spec == Init /\ [][Next]_vars

-----------------------------------------------------------------------------
(* Properties                                                              *)

\* While a breaker is open its acquirer is called only by callers that were
\* admitted before it opened, and by each of them once: an entry that passed the
\* filter, or a call that was answered late, brings no others.
OnlyStraysCall ==
    [][\A c \in Callers, a \in Acquirers :
        (a \in sent'[c] /\ a \notin sent[c] /\ IsOpen(breaker[a])) => c \in strays[a]]_vars

\* A breaker changes for cause, whatever late replies it is told of: it opens
\* from closed only after FailureThreshold failures with no success between them,
\* and closes only after SuccessThreshold successes with no failure between them.
EarnedTransitions ==
    [][\A a \in Acquirers :
        /\ (breaker[a].state = "closed" /\ breaker'[a].state = "open") =>
              streak'[a].fails >= FailureThreshold
        /\ (breaker[a].state # "closed" /\ breaker'[a].state = "closed") =>
              breaker[a].state = "half_open" /\ streak'[a].oks >= SuccessThreshold]_vars

\* An operation is sent a second time only if it is a charge, and then to an entry
\* of lower priority than all before: a capture or refund that timed out, perhaps
\* after it was carried out, is never repeated with another acquirer, and no
\* acquirer gets the same charge twice.
OnlyChargesFailOver ==
    [][\A c \in Callers, a \in Acquirers :
        (a \in sent'[c] /\ a \notin sent[c] /\ sent[c] # {}) =>
            caller[c].op = "charge" /\ \A b \in sent[c] : b < a]_vars

\* The counters of a breaker stay below their thresholds and never exceed what
\* was really recorded in a row: the inductive invariant.
BreakerInv ==
    /\ TypeOK
    /\ \A a \in Acquirers :
          /\ breaker[a].failure_count < FailureThreshold
          /\ breaker[a].failure_count =< streak[a].fails
          /\ breaker[a].state = "half_open" =>
                /\ breaker[a].success_count < SuccessThreshold
                /\ breaker[a].success_count =< streak[a].oks

\* Whoever is admitted by a breaker that is open now was admitted before it opened.
StrayInv == \A a \in Acquirers : IsOpen(breaker[a]) => Admitted(a) \subseteq strays[a]
=============================================================================
