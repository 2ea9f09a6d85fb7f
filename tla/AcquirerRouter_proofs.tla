----------------------- MODULE AcquirerRouter_proofs -----------------------
(***************************************************************************)
(* The circuit breaker changes for cause, for any thresholds, acquirers    *)
(* and callers.  The strengthening: a breaker's counters never run ahead   *)
(* of what was recorded in a row (BreakerInv).  An open breaker has        *)
(* admitted no one since it opened (StrayInv).  And calls are sent a       *)
(* second time only for charges, down the priorities (TriedInv).           *)
(***************************************************************************)
EXTENDS AcquirerRouter, TLAPS

\* A breaker and the history kept of it satisfy the invariant.
Sound(b, s) ==
    /\ b.failure_count < FailureThreshold
    /\ b.failure_count =< s.fails
    /\ b.state = "half_open" => /\ b.success_count < SuccessThreshold
                                /\ b.success_count =< s.oks

Streak == [fails: 0..FailureThreshold, oks: 0..SuccessThreshold]

\* The fields of a breaker and of its history are typed.
LEMMA Fields ==
    ASSUME NEW b \in Breaker, NEW s \in Streak
    PROVE  /\ b.failure_count \in Nat /\ b.success_count \in Nat
           /\ b.state \in {"closed", "open", "half_open"}
           /\ s.fails \in 0..FailureThreshold /\ s.oks \in 0..SuccessThreshold
  BY DEF Breaker, Streak

\* allow_request opens the half-open phase with no success counted.
LEMMA AdmitKeeps ==
    ASSUME NEW b \in Breaker, NEW s \in Streak, Sound(b, s)
    PROVE  /\ Admit(b) \in Breaker
           /\ Sound(Admit(b), s)
           /\ Admit(b).state = "closed" <=> b.state = "closed"
           /\ Admit(b).state = "open" => b.state = "open"
  <1>1. CASE b.state = "open"
    <2>1. /\ Admit(b) \in Breaker
          /\ Admit(b).state = "half_open"
          /\ Admit(b).failure_count = b.failure_count
          /\ Admit(b).success_count = 0
      BY <1>1 DEF Admit, IsOpen, Breaker
    <2>2. QED
      BY <1>1, <2>1, Fields, RouterAssumption DEF Sound
  <1>2. CASE b.state # "open"
    BY <1>2 DEF Admit, IsOpen
  <1>3. QED
    BY <1>1, <1>2

\* The history of a success.
Success(s) == [fails |-> 0, oks |-> Bump(s.oks, SuccessThreshold)]

\* record_success closes a half-open breaker only on the last success it needs.
LEMMA SuccessKeeps ==
    ASSUME NEW b \in Breaker, NEW s \in Streak, Sound(b, s)
    PROVE  /\ RecordSuccess(b) \in Breaker /\ Success(s) \in Streak
           /\ Sound(RecordSuccess(b), Success(s))
           /\ RecordSuccess(b).state = "open" => b.state = "open"
           /\ (RecordSuccess(b).state = "closed" /\ b.state # "closed") =>
                 b.state = "half_open" /\ Success(s).oks >= SuccessThreshold
  <1>1. Success(s) \in Streak
    BY Fields, RouterAssumption DEF Success, Streak, Bump
  <1>2. /\ Success(s).fails = 0
        /\ Success(s).oks = IF s.oks < SuccessThreshold THEN s.oks + 1 ELSE s.oks
    BY DEF Success, Bump
  <1>3. CASE b.state = "half_open"
    <2> DEFINE st == IF b.success_count + 1 >= SuccessThreshold THEN "closed" ELSE "half_open"
    <2>1. RecordSuccess(b) = [b EXCEPT !.failure_count = 0,
                                       !.success_count = b.success_count + 1, !.state = st]
      BY <1>3 DEF RecordSuccess
    <2>2. st \in {"closed", "half_open"} /\ b.success_count + 1 \in Nat
      BY Fields
    <2>3. st = IF b.success_count + 1 >= SuccessThreshold THEN "closed" ELSE "half_open"
      OBVIOUS
    <2> HIDE DEF st
    <2>4. /\ RecordSuccess(b) \in Breaker
          /\ RecordSuccess(b).failure_count = 0
          /\ RecordSuccess(b).success_count = b.success_count + 1
          /\ RecordSuccess(b).state = st
      <3>1. RecordSuccess(b) = [state |-> st, failure_count |-> 0,
                                success_count |-> b.success_count + 1,
                                cooled |-> b.cooled]
        BY <2>1 DEF Breaker
      <3>2. QED
        BY <2>2, <3>1 DEF Breaker
    <2>5. QED
      BY <1>1, <1>2, <1>3, <2>3, <2>4, Fields, RouterAssumption DEF Sound
  <1>4. CASE b.state # "half_open"
    <2>1. /\ RecordSuccess(b) \in Breaker
          /\ RecordSuccess(b).failure_count = 0
          /\ RecordSuccess(b).state = b.state
      BY <1>4 DEF RecordSuccess, Breaker
    <2>2. QED
      BY <1>1, <1>2, <1>4, <2>1, RouterAssumption DEF Sound
  <1>5. QED
    BY <1>3, <1>4

\* The history of a failure.
Failure(s) == [fails |-> Bump(s.fails, FailureThreshold), oks |-> 0]

\* record_failure opens a closed breaker only on the last failure it allows.
LEMMA FailureKeeps ==
    ASSUME NEW b \in Breaker, NEW s \in Streak, Sound(b, s)
    PROVE  /\ RecordFailure(b) \in Breaker /\ Failure(s) \in Streak
           /\ Sound(RecordFailure(b), Failure(s))
           /\ RecordFailure(b).state = "closed" => b.state = "closed"
           /\ (RecordFailure(b).state = "open" /\ b.state = "closed") =>
                 Failure(s).fails >= FailureThreshold
  <1>1. Failure(s) \in Streak
    BY Fields, RouterAssumption DEF Failure, Streak, Bump
  <1>2. Failure(s).fails = IF s.fails < FailureThreshold THEN s.fails + 1 ELSE s.fails
    BY DEF Failure, Bump
  <1>3. CASE b.failure_count + 1 >= FailureThreshold \/ b.state = "half_open"
    <2>1. /\ RecordFailure(b) \in Breaker
          /\ RecordFailure(b).failure_count = 0
          /\ RecordFailure(b).state = "open"
      BY <1>3 DEF RecordFailure, Breaker
    <2>2. Failure(s).fails \in Nat
      BY <1>1, Fields
    <2>3. QED
      BY <1>1, <1>2, <1>3, <2>1, <2>2, Fields, RouterAssumption DEF Sound
  <1>4. CASE ~(b.failure_count + 1 >= FailureThreshold \/ b.state = "half_open")
    <2>1. /\ RecordFailure(b) \in Breaker
          /\ RecordFailure(b).failure_count = b.failure_count + 1
          /\ RecordFailure(b).state = b.state
      BY <1>4 DEF RecordFailure, Breaker
    <2>2. QED
      BY <1>1, <1>2, <1>4, <2>1, Fields, RouterAssumption DEF Sound
  <1>5. QED
    BY <1>3, <1>4

-----------------------------------------------------------------------------
(* One step of the router.                                                 *)

\* What a step may do to the breaker of acquirer a.
BreakerMove(a) ==
    \/ breaker'[a] = breaker[a] /\ streak'[a] = streak[a]
    \/ /\ Cooling(breaker[a])
       /\ breaker'[a] = [breaker[a] EXCEPT !.cooled = TRUE]
       /\ streak'[a] = streak[a]
    \/ breaker'[a] = Admit(breaker[a]) /\ streak'[a] = streak[a]
    \/ breaker'[a] = RecordSuccess(breaker[a]) /\ streak'[a] = Success(streak[a])
    \/ breaker'[a] = RecordFailure(breaker[a]) /\ streak'[a] = Failure(streak[a])

\* The callers' bookkeeping stays typed.
CallersTyped ==
    /\ caller' \in [Callers -> Caller]
    /\ sent' \in [Callers -> SUBSET Acquirers]
    /\ taken' \in [Callers -> SUBSET Acquirers]
    /\ strays' \in [Acquirers -> SUBSET Callers]

\* Writing the lists or the target of a caller keeps it typed.
LEMMA Retarget ==
    ASSUME NEW r \in Caller, NEW S \in SUBSET Acquirers, NEW t \in Acquirers \cup {0}
    PROVE  /\ [r EXCEPT !.left = S, !.at = t] \in Caller
           /\ \A T \in SUBSET Acquirers : [r EXCEPT !.scan = T, !.left = S] \in Caller
  BY DEF Caller

\* Every step is one breaker method on one breaker, or leaves them all alone.
LEMMA Moves ==
    ASSUME TypeOK, [Next]_vars
    PROVE  /\ \A a \in Acquirers : BreakerMove(a)
           /\ DOMAIN breaker' = Acquirers /\ DOMAIN streak' = Acquirers
           /\ breaker' = [a \in Acquirers |-> breaker'[a]]
           /\ streak' = [a \in Acquirers |-> streak'[a]]
           /\ CallersTyped
  <1> DEFINE Goal == /\ \A a \in Acquirers : BreakerMove(a)
                     /\ DOMAIN breaker' = Acquirers /\ DOMAIN streak' = Acquirers
                     /\ breaker' = [a \in Acquirers |-> breaker'[a]]
                     /\ streak' = [a \in Acquirers |-> streak'[a]]
                     /\ CallersTyped
  <1>0. /\ breaker = [a \in Acquirers |-> breaker[a]]
        /\ streak = [a \in Acquirers |-> streak[a]]
        /\ caller \in [Callers -> Caller] /\ sent \in [Callers -> SUBSET Acquirers]
        /\ taken \in [Callers -> SUBSET Acquirers]
        /\ strays \in [Acquirers -> SUBSET Callers]
    BY DEF TypeOK
  <1>i. Idle \in Caller
    BY DEF Idle, Caller
  <1>1. ASSUME NEW a \in Acquirers, CoolDown(a) PROVE Goal
    BY <1>0, <1>1 DEF CoolDown, BreakerMove, CallersTyped
  <1>2. ASSUME NEW c \in Callers, NEW op \in {"charge", "direct"}, Start(c, op)
        PROVE  Goal
    BY <1>0, <1>2 DEF Start, BreakerMove, CallersTyped, Caller
  <1>3. ASSUME NEW c \in Callers, NEW a \in Acquirers, Acts(c, a) PROVE Goal
    BY <1>0, <1>3 DEF Acts, BreakerMove, CallersTyped
  <1>4. ASSUME NEW c \in Callers, Filter(c) PROVE Goal
    <2>1. PICK a \in First(caller[c].scan) : caller' = [caller EXCEPT ![c] =
            [@ EXCEPT !.scan = caller[c].scan \ {a},
                      !.left = caller[c].left \cup (IF IsOpen(breaker[a]) THEN {} ELSE {a})]]
      BY <1>4 DEF Filter
    <2>2. caller[c] \in Caller /\ a \in Acquirers
      BY <1>0 DEF First, Caller
    <2>3. /\ caller[c].left \cup (IF IsOpen(breaker[a]) THEN {} ELSE {a}) \in SUBSET Acquirers
          /\ caller[c].scan \ {a} \in SUBSET Acquirers
      BY <2>2 DEF Caller
    <2>4. caller' \in [Callers -> Caller]
      BY <1>0, <2>1, <2>2, <2>3, Retarget
    <2>5. QED
      BY <1>0, <1>4, <2>4 DEF Filter, BreakerMove, CallersTyped
  <1>5. ASSUME NEW c \in Callers, Try(c) PROVE Goal
    <2>1. PICK a \in First(caller[c].left) :
            /\ breaker' = [breaker EXCEPT ![a] = Admit(@)]
            /\ caller' = [caller EXCEPT ![c] = [@ EXCEPT !.left = caller[c].left \ {a}, !.at = a]]
      BY <1>5 DEF Try
    <2>2. caller[c] \in Caller /\ a \in Acquirers /\ caller[c].left \ {a} \in SUBSET Acquirers
      BY <1>0 DEF First, Caller
    <2>3. caller' \in [Callers -> Caller]
      BY <1>0, <2>1, <2>2, Retarget
    <2>4. QED
      BY <1>0, <1>5, <2>1, <2>2, <2>3 DEF Try, BreakerMove, CallersTyped
  <1>c. ASSUME NEW c \in Callers, Call(c) PROVE Goal
    <2>1. caller[c].at \in Acquirers
      BY <1>0, <1>c DEF Call, Caller
    <2>2. QED
      BY <1>0, <1>c, <2>1 DEF Call, BreakerMove, CallersTyped
  <1>6. ASSUME NEW c \in Callers, Skip(c) PROVE Goal
    <2>1. caller' \in [Callers -> Caller]
      <3>1. PICK a : caller' = [caller EXCEPT ![c].left = @ \ {a}]
        BY <1>6 DEF Skip
      <3>2. QED
        BY <1>0, <3>1 DEF Caller
    <2>2. QED
      BY <1>0, <1>6, <2>1 DEF Skip, BreakerMove, CallersTyped
  <1>7. ASSUME NEW c \in Callers, GiveUp(c) \/ Dropped(c) PROVE Goal
    BY <1>0, <1>i, <1>7 DEF GiveUp, Dropped, Return, BreakerMove, CallersTyped
  <1>8. ASSUME NEW c \in Callers, ReplyOk(c) PROVE Goal
    <2>1. caller[c].at \in Acquirers
      BY <1>0, <1>8 DEF ReplyOk, Confirmed, Waiting, Caller
    <2>2. QED
      BY <1>0, <1>i, <1>8, <2>1
      DEF ReplyOk, Succeeded, Success, Return, BreakerMove, CallersTyped
  <1>9. ASSUME NEW c \in Callers, ReplyDeclined(c) PROVE Goal
    BY <1>0, <1>i, <1>9 DEF ReplyDeclined, Return, BreakerMove, CallersTyped
  <1>10. ASSUME NEW c \in Callers, ReplyError(c) PROVE Goal
    <2>1. caller[c].at \in Acquirers
      BY <1>0, <1>10 DEF ReplyError, Waiting, Caller
    <2>2. caller' \in [Callers -> Caller]
      <3>1. CASE caller' = [caller EXCEPT ![c].at = 0]
        BY <1>0, <3>1 DEF Caller
      <3>2. CASE caller' = [caller EXCEPT ![c] = Idle]
        BY <1>0, <1>i, <3>2
      <3>3. QED
        BY <1>10, <3>1, <3>2 DEF ReplyError, Return
    <2>3. strays' \in [Acquirers -> SUBSET Callers]
      <3>1. Admitted(caller[c].at) \subseteq Callers
        BY DEF Admitted
      <3>2. QED
        BY <1>0, <1>10, <2>1, <3>1 DEF ReplyError, Failed
    <2>4. QED
      BY <1>0, <1>10, <2>1, <2>2, <2>3
      DEF ReplyError, Failed, Failure, BreakerMove, CallersTyped
  <1>11. ASSUME UNCHANGED vars PROVE Goal
    BY <1>0, <1>11 DEF vars, BreakerMove, CallersTyped
  <1> HIDE DEF Goal
  <1>12. ASSUME NEW c \in Callers, Step(c) PROVE Goal
    BY <1>4, <1>5, <1>c, <1>6, <1>7, <1>8, <1>9, <1>10, <1>12 DEF Step
  <1>13. Goal
    BY <1>1, <1>2, <1>3, <1>7, <1>11, <1>12 DEF Next
  <1>14. QED
    BY <1>13 DEF Goal

\* A move keeps a breaker sound and changes its state for cause.
LEMMA MoveKeeps ==
    ASSUME BreakerInv, NEW a \in Acquirers, BreakerMove(a)
    PROVE  /\ breaker'[a] \in Breaker /\ streak'[a] \in Streak
           /\ Sound(breaker'[a], streak'[a])
           /\ (breaker[a].state = "closed" /\ breaker'[a].state = "open") =>
                 streak'[a].fails >= FailureThreshold
           /\ (breaker[a].state # "closed" /\ breaker'[a].state = "closed") =>
                 breaker[a].state = "half_open" /\ streak'[a].oks >= SuccessThreshold
  <1>1. breaker[a] \in Breaker /\ streak[a] \in Streak /\ Sound(breaker[a], streak[a])
    BY DEF BreakerInv, TypeOK, Streak, Sound
  <1>2. CASE breaker'[a] = breaker[a] /\ streak'[a] = streak[a]
    BY <1>1, <1>2
  <1>3. CASE /\ Cooling(breaker[a])
             /\ breaker'[a] = [breaker[a] EXCEPT !.cooled = TRUE]
             /\ streak'[a] = streak[a]
    BY <1>1, <1>3 DEF Cooling, Breaker, Sound
  <1>4. CASE breaker'[a] = Admit(breaker[a]) /\ streak'[a] = streak[a]
    BY <1>1, <1>4, AdmitKeeps
  <1>5. CASE breaker'[a] = RecordSuccess(breaker[a]) /\ streak'[a] = Success(streak[a])
    BY <1>1, <1>5, SuccessKeeps
  <1>6. CASE breaker'[a] = RecordFailure(breaker[a]) /\ streak'[a] = Failure(streak[a])
    BY <1>1, <1>6, FailureKeeps
  <1>7. QED
    BY <1>2, <1>3, <1>4, <1>5, <1>6 DEF BreakerMove

\* BreakerInv is inductive.
LEMMA BreakerStep == BreakerInv /\ [Next]_vars => BreakerInv'
  <1> SUFFICES ASSUME BreakerInv, [Next]_vars PROVE BreakerInv'
    OBVIOUS
  <1>1. /\ \A a \in Acquirers : BreakerMove(a)
        /\ breaker' = [a \in Acquirers |-> breaker'[a]]
        /\ streak' = [a \in Acquirers |-> streak'[a]]
        /\ CallersTyped
    BY Moves DEF BreakerInv
  <1>2. \A a \in Acquirers : /\ breaker'[a] \in Breaker /\ streak'[a] \in Streak
                             /\ Sound(breaker'[a], streak'[a])
    BY <1>1, MoveKeeps
  <1>3. breaker' \in [Acquirers -> Breaker] /\ streak' \in [Acquirers -> Streak]
    BY <1>1, <1>2
  <1>4. TypeOK'
    BY <1>1, <1>3 DEF TypeOK, CallersTyped, Streak
  <1>5. QED
    BY <1>2, <1>4 DEF BreakerInv, Sound

\* The counters of every breaker are covered by what was recorded in a row.
THEOREM Counters == Spec => []BreakerInv
  <1>1. Init => BreakerInv
    BY RouterAssumption DEF Init, BreakerInv, TypeOK, Breaker, Caller, Idle
  <1>2. QED
    BY <1>1, BreakerStep, PTL DEF Spec

\* A breaker opens only after FailureThreshold failures in a row and closes only
\* after SuccessThreshold successes in a row, late replies included.
THEOREM BreakersEarnTheirState == Spec => EarnedTransitions
  <1> DEFINE Earned == \A a \in Acquirers :
        /\ (breaker[a].state = "closed" /\ breaker'[a].state = "open") =>
              streak'[a].fails >= FailureThreshold
        /\ (breaker[a].state # "closed" /\ breaker'[a].state = "closed") =>
              breaker[a].state = "half_open" /\ streak'[a].oks >= SuccessThreshold
  <1>1. BreakerInv /\ [Next]_vars => [Earned]_vars
    <2> SUFFICES ASSUME BreakerInv, [Next]_vars PROVE Earned
      OBVIOUS
    <2>1. \A a \in Acquirers : BreakerMove(a)
      BY Moves DEF BreakerInv
    <2>2. QED
      BY <2>1, MoveKeeps
  <1>2. QED
    BY <1>1, Counters, PTL DEF Spec, EarnedTransitions

-----------------------------------------------------------------------------
(* Where calls are sent.                                                   *)

\* What a step may do to the acquirers a caller's operation was sent to: nothing,
\* forget some, or add the one that has admitted it.
SentMove(c) ==
    \/ sent'[c] \subseteq sent[c]
    \/ /\ caller[c].at # 0 /\ caller[c].at \notin sent[c]
       /\ sent'[c] = sent[c] \cup {caller[c].at}

\* Only a call adds to what was sent.
LEMMA SentMoves ==
    ASSUME TypeOK, [Next]_vars, NEW c \in Callers
    PROVE  SentMove(c)
  <1>0. sent \in [Callers -> SUBSET Acquirers]
    BY DEF TypeOK
  <1>1. ASSUME NEW d \in Callers, Call(d) PROVE SentMove(c)
    BY <1>0, <1>1 DEF Call, SentMove
  <1>2. ASSUME NEW d \in Callers, NEW op \in {"charge", "direct"}, Start(d, op)
        PROVE  SentMove(c)
    BY <1>0, <1>2 DEF Start, SentMove
  <1>3. ASSUME NEW d \in Callers, ReplyDeclined(d) PROVE SentMove(c)
    BY <1>0, <1>3 DEF ReplyDeclined, SentMove
  <1>4. ASSUME sent' = sent PROVE SentMove(c)
    BY <1>4 DEF SentMove
  <1>5. ASSUME NEW d \in Callers, Step(d) \/ Dropped(d) PROVE SentMove(c)
    BY <1>1, <1>3, <1>4, <1>5
    DEF Step, Dropped, Filter, Try, Skip, GiveUp, ReplyOk, ReplyError
  <1>6. QED
    BY <1>2, <1>4, <1>5 DEF Next, CoolDown, Acts, vars

\* StrayInv is inductive relative to the types: a breaker that admits is not open
\* afterwards, and one that opens lists those it has admitted.
LEMMA StrayStep ==
    ASSUME TypeOK, StrayInv, [Next]_vars
    PROVE  StrayInv'
  <1> SUFFICES ASSUME NEW a \in Acquirers, IsOpen(breaker'[a]),
                      NEW e \in Callers, caller'[e].at = a, a \notin sent'[e]
               PROVE  e \in strays'[a]
    BY DEF StrayInv, Admitted, IsOpen
  <1>0. /\ breaker \in [Acquirers -> Breaker] /\ caller \in [Callers -> Caller]
        /\ sent \in [Callers -> SUBSET Acquirers] /\ strays \in [Acquirers -> SUBSET Callers]
        /\ a # 0
    BY RouterAssumption DEF TypeOK
  <1>1. IsOpen(breaker[a]) /\ caller[e].at = a /\ a \notin sent[e] => e \in strays[a]
    BY DEF StrayInv, Admitted
  <1>2. ASSUME NEW c \in Callers, Try(c) PROVE e \in strays'[a]
    <2>1. PICK b \in First(caller[c].left) :
            /\ breaker' = [breaker EXCEPT ![b] = Admit(@)]
            /\ caller' = [caller EXCEPT ![c] = [@ EXCEPT !.left = caller[c].left \ {b}, !.at = b]]
      BY <1>2 DEF Try
    <2>2. b \in Acquirers
      BY <1>0 DEF First, Caller
    <2>3. Admit(breaker[b]).state # "open"
      BY <1>0, <2>2 DEF Admit, IsOpen, Breaker
    <2>4. b # a
      BY <1>0, <2>1, <2>2, <2>3 DEF IsOpen
    <2>5. e # c
      <3>1. caller'[c].at = b
        BY <1>0, <2>1 DEF Caller
      <3>2. QED
        BY <2>4, <3>1
    <2>6. caller'[e] = caller[e] /\ breaker'[a] = breaker[a]
      BY <1>0, <2>1, <2>4, <2>5
    <2>7. QED
      BY <1>1, <1>2, <2>6 DEF Try
  <1>3. ASSUME NEW c \in Callers, Call(c) PROVE e \in strays'[a]
    <2>1. e # c
      BY <1>0, <1>3 DEF Call
    <2>2. caller[e].at = a /\ a \notin sent[e] /\ IsOpen(breaker[a])
      BY <1>0, <1>3, <2>1 DEF Call
    <2>3. QED
      BY <1>0, <1>1, <1>3, <2>1, <2>2 DEF Call
  <1>4. ASSUME NEW c \in Callers, ReplyError(c) PROVE e \in strays'[a]
    <2>1. caller[c].at \in Acquirers /\ sent' = sent
      BY <1>0, <1>4 DEF ReplyError, Waiting, Caller
    <2>2. caller'[e] = caller[e]
      <3>1. CASE caller' = [caller EXCEPT ![c].at = 0]
        <4>1. caller'[c].at = 0
          BY <1>0, <3>1 DEF Caller
        <4>2. QED
          BY <1>0, <3>1, <4>1
      <3>2. CASE caller' = [caller EXCEPT ![c] = Idle]
        BY <1>0, <3>2 DEF Idle
      <3>3. QED
        BY <1>4, <3>1, <3>2 DEF ReplyError, Return
    <2>3. e \in Admitted(a)
      BY <2>1, <2>2 DEF Admitted
    <2>4. CASE caller[c].at = a
      <3>1. IsOpen(RecordFailure(breaker[a]))
        BY <1>0, <1>4, <2>4 DEF ReplyError, Failed
      <3>2. strays'[a] = IF ~IsOpen(breaker[a]) /\ IsOpen(RecordFailure(breaker[a]))
                         THEN Admitted(a) ELSE strays[a]
        BY <1>0, <1>4, <2>4 DEF ReplyError, Failed
      <3>3. QED
        BY <1>1, <2>1, <2>2, <2>3, <3>1, <3>2
    <2>5. CASE caller[c].at # a
      BY <1>0, <1>1, <1>4, <2>1, <2>2, <2>5 DEF ReplyError, Failed
    <2>6. QED
      BY <2>4, <2>5
  <1>5. ASSUME NEW c \in Callers, ReplyOk(c) PROVE e \in strays'[a]
    <2>1. caller[c].at \in Acquirers
      BY <1>0, <1>5 DEF ReplyOk, Confirmed, Waiting, Caller
    <2>2. caller'[e] = caller[e]
      BY <1>0, <1>5 DEF ReplyOk, Return, Idle
    <2>3. IsOpen(breaker[a])
      <3>1. CASE caller[c].at = a
        <4>1. breaker'[a] = RecordSuccess(breaker[a]) /\ breaker[a] \in Breaker
          BY <1>0, <1>5, <3>1 DEF ReplyOk, Succeeded
        <4>2. CASE breaker[a].state = "half_open"
          <5>1. breaker'[a].state # "open"
            BY <4>1, <4>2 DEF RecordSuccess, Breaker
          <5>2. QED
            BY <5>1 DEF IsOpen
        <4>3. CASE breaker[a].state # "half_open"
          BY <4>1, <4>3 DEF RecordSuccess, IsOpen, Breaker
        <4>4. QED
          BY <4>2, <4>3
      <3>2. CASE caller[c].at # a
        BY <1>0, <1>5, <3>2 DEF ReplyOk, Succeeded
      <3>3. QED
        BY <3>1, <3>2
    <2>4. QED
      BY <1>1, <1>5, <2>2, <2>3 DEF ReplyOk, Succeeded
  <1>6. ASSUME NEW c \in Callers, GiveUp(c) \/ Dropped(c) \/ ReplyDeclined(c)
        PROVE  e \in strays'[a]
    <2>1. caller' = [caller EXCEPT ![c] = Idle] /\ breaker' = breaker /\ strays' = strays
      BY <1>6 DEF GiveUp, Dropped, ReplyDeclined, Return
    <2>2. e # c /\ caller'[e] = caller[e]
      BY <1>0, <2>1 DEF Idle
    <2>3. sent'[e] = sent[e]
      BY <1>0, <1>6, <2>2 DEF GiveUp, Dropped, ReplyDeclined
    <2>4. QED
      BY <1>1, <2>1, <2>2, <2>3
  <1>7. ASSUME NEW c \in Callers, NEW op \in {"charge", "direct"}, Start(c, op)
        PROVE  e \in strays'[a]
    BY <1>0, <1>1, <1>7 DEF Start
  <1>8. ASSUME NEW c \in Callers, Filter(c) \/ Skip(c) PROVE e \in strays'[a]
    <2>1. caller'[e].at = caller[e].at
      <3>1. ASSUME NEW S, NEW T, caller' = [caller EXCEPT ![c] =
                        [caller[c] EXCEPT !.scan = S, !.left = T]]
            PROVE  caller'[e].at = caller[e].at
        BY <1>0, <3>1 DEF Caller
      <3>2. ASSUME NEW b, caller' = [caller EXCEPT ![c].left = @ \ {b}]
            PROVE  caller'[e].at = caller[e].at
        BY <1>0, <3>2 DEF Caller
      <3>3. CASE Filter(c)
        BY <1>0, <3>1, <3>3 DEF Filter
      <3>4. CASE Skip(c)
        BY <3>2, <3>4 DEF Skip
      <3>5. QED
        BY <1>8, <3>3, <3>4
    <2>2. QED
      BY <1>1, <1>8, <2>1 DEF Filter, Skip
  <1>9. ASSUME NEW b \in Acquirers, CoolDown(b) PROVE e \in strays'[a]
    <2>1. IsOpen(breaker[a])
      BY <1>0, <1>9 DEF CoolDown, IsOpen, Breaker
    <2>2. QED
      BY <1>1, <1>9, <2>1 DEF CoolDown
  <1>10. ASSUME NEW c \in Callers, NEW b \in Acquirers, Acts(c, b) PROVE e \in strays'[a]
    BY <1>1, <1>10 DEF Acts
  <1>11. ASSUME UNCHANGED vars PROVE e \in strays'[a]
    BY <1>1, <1>11 DEF vars
  <1>12. ASSUME NEW c \in Callers, Step(c) PROVE e \in strays'[a]
    BY <1>2, <1>3, <1>4, <1>5, <1>6, <1>8, <1>12 DEF Step
  <1>13. QED
    BY <1>6, <1>7, <1>9, <1>10, <1>11, <1>12 DEF Next

\* An acquirer whose breaker is open is called only by callers that were admitted
\* before it opened, by each of them once.
THEOREM OpenAcquirersRest == Spec => OnlyStraysCall
  <1> DEFINE Rest == \A c \in Callers, a \in Acquirers :
                        (a \in sent'[c] /\ a \notin sent[c] /\ IsOpen(breaker[a])) =>
                            c \in strays[a]
  <1>1. Init => StrayInv
    BY DEF Init, StrayInv, IsOpen
  <1>2. BreakerInv /\ StrayInv /\ [Next]_vars => StrayInv'
    BY StrayStep DEF BreakerInv
  <1>3. BreakerInv /\ StrayInv /\ [Next]_vars => [Rest]_vars
    <2> SUFFICES ASSUME BreakerInv, StrayInv, [Next]_vars PROVE Rest
      OBVIOUS
    <2>1. \A c \in Callers : SentMove(c)
      BY SentMoves DEF BreakerInv
    <2>2. QED
      BY <2>1 DEF SentMove, StrayInv, Admitted
  <1>4. QED
    BY <1>1, <1>2, <1>3, Counters, PTL DEF Spec, OnlyStraysCall

\* A capture or refund that was sent is still waited for; a charge is sent only
\* once the entries are filtered, and before all the entries it has left.
Tried(c) ==
    /\ caller[c].op = "none" => caller[c].at = 0
    /\ caller[c].op = "direct" /\ sent[c] # {} => Waiting(c)
    /\ caller[c].op = "charge" =>
          /\ caller[c].scan # {} => sent[c] = {} /\ caller[c].at = 0
          /\ \A a \in sent[c], b \in caller[c].left : a < b
          /\ caller[c].at # 0 => \A b \in caller[c].left : caller[c].at < b
          /\ caller[c].at # 0 /\ caller[c].at \notin sent[c] =>
                \A a \in sent[c] : a < caller[c].at

TriedInv == \A c \in Callers : Tried(c)

\* TriedInv is inductive relative to the types.
LEMMA TriedStep ==
    ASSUME TypeOK, TriedInv, [Next]_vars
    PROVE  TriedInv'
  <1> SUFFICES ASSUME NEW c \in Callers PROVE Tried(c)'
    BY DEF TriedInv
  <1>0. /\ caller \in [Callers -> Caller] /\ sent \in [Callers -> SUBSET Acquirers]
        /\ Tried(c)
    BY DEF TypeOK, TriedInv
  <1>u. ASSUME caller'[c] = caller[c], sent'[c] = sent[c] PROVE Tried(c)'
    BY <1>0, <1>u DEF Tried, Waiting
  <1>i. ASSUME caller'[c] = Idle PROVE Tried(c)'
    BY <1>i DEF Tried, Idle
  <1>1. ASSUME NEW d \in Callers, NEW op \in {"charge", "direct"}, Start(d, op)
        PROVE  Tried(c)'
    <2>1. CASE d = c
      <3>1. sent'[c] = {} /\ caller'[c].at = 0
        BY <1>0, <1>1, <2>1 DEF Start
      <3>2. QED
        BY <3>1 DEF Tried
    <2>2. CASE d # c
      BY <1>0, <1>1, <1>u, <2>2 DEF Start
    <2>3. QED
      BY <2>1, <2>2
  <1>2. ASSUME NEW d \in Callers, Filter(d) PROVE Tried(c)'
    <2>1. PICK a \in First(caller[d].scan) : caller' = [caller EXCEPT ![d] =
            [@ EXCEPT !.scan = caller[d].scan \ {a},
                      !.left = caller[d].left \cup (IF IsOpen(breaker[a]) THEN {} ELSE {a})]]
      BY <1>2 DEF Filter
    <2>2. CASE d = c
      <3>1. caller[c].scan # {} /\ sent'[c] = sent[c]
        BY <1>2, <2>1, <2>2 DEF First, Filter
      <3>2. caller'[c].op = caller[c].op /\ caller'[c].at = caller[c].at
        BY <1>0, <2>1, <2>2 DEF Caller
      <3>3. QED
        BY <1>0, <3>1, <3>2 DEF Tried, Waiting
    <2>3. CASE d # c
      BY <1>0, <1>2, <1>u, <2>1, <2>3 DEF Filter
    <2>4. QED
      BY <2>2, <2>3
  <1>3. ASSUME NEW d \in Callers, Try(d) PROVE Tried(c)'
    <2>1. PICK a \in First(caller[d].left) :
            caller' = [caller EXCEPT ![d] = [@ EXCEPT !.left = caller[d].left \ {a}, !.at = a]]
      BY <1>3 DEF Try
    <2>2. CASE d = c
      <3>1. /\ caller'[c].op = caller[c].op /\ caller'[c].at = a
            /\ caller'[c].scan = {} /\ caller[c].at = 0 /\ caller[c].op # "none"
            /\ caller'[c].left = caller[c].left \ {a}
            /\ sent'[c] = sent[c]
        <4>1. caller'[c] = [caller[c] EXCEPT !.left = caller[c].left \ {a}, !.at = a]
          BY <1>0, <2>1, <2>2
        <4>2. /\ caller[c].scan = {} /\ caller[c].at = 0 /\ caller[c].op # "none"
              /\ sent' = sent /\ caller[c] \in Caller
          BY <1>0, <1>3, <2>1, <2>2 DEF Try, Trying
        <4>3. QED
          BY <4>1, <4>2 DEF Caller
      <3>2. /\ a \in caller[c].left /\ caller[c].left \subseteq Nat \ {0}
            /\ \A b \in caller[c].left : a =< b
        BY <1>0, <2>2, RouterAssumption DEF First, Caller
      <3>3. \A b \in caller[c].left \ {a} : a < b
        BY <3>2
      <3>4. QED
        BY <1>0, <3>1, <3>2, <3>3 DEF Tried, Waiting
    <2>3. CASE d # c
      BY <1>0, <1>3, <1>u, <2>1, <2>3 DEF Try
    <2>4. QED
      BY <2>2, <2>3
  <1>c. ASSUME NEW d \in Callers, Call(d) PROVE Tried(c)'
    <2>1. CASE d = c
      <3>1. /\ caller'[c] = caller[c] /\ caller[c].at # 0
            /\ sent'[c] = sent[c] \cup {caller[c].at}
        BY <1>0, <1>c, <2>1 DEF Call
      <3>2. QED
        BY <1>0, <3>1 DEF Tried, Waiting
    <2>2. CASE d # c
      BY <1>0, <1>c, <1>u, <2>2 DEF Call
    <2>3. QED
      BY <2>1, <2>2
  <1>4. ASSUME NEW d \in Callers, Skip(d) PROVE Tried(c)'
    <2>1. PICK a : caller' = [caller EXCEPT ![d].left = @ \ {a}]
      BY <1>4 DEF Skip
    <2>2. sent' = sent
      BY <1>4 DEF Skip
    <2>3. CASE d = c
      <3>1. /\ caller'[c].op = caller[c].op /\ caller'[c].at = caller[c].at
            /\ caller'[c].scan = caller[c].scan
            /\ caller'[c].left = caller[c].left \ {a}
        BY <1>0, <2>1, <2>3 DEF Caller
      <3>2. QED
        BY <1>0, <2>2, <3>1 DEF Tried, Waiting
    <2>4. CASE d # c
      BY <1>0, <1>u, <2>1, <2>2, <2>4
    <2>5. QED
      BY <2>3, <2>4
  <1>5. ASSUME NEW d \in Callers, caller' = [caller EXCEPT ![d] = Idle],
               \A e \in Callers \ {d} : sent'[e] = sent[e]
        PROVE  Tried(c)'
    BY <1>0, <1>5, <1>i, <1>u
  <1>6. ASSUME NEW d \in Callers, ReplyError(d) PROVE Tried(c)'
    <2>1. CASE Return(d)
      BY <1>5, <1>6, <2>1 DEF ReplyError, Return
    <2>2. CASE FailsOver(d) /\ caller' = [caller EXCEPT ![d].at = 0]
      <3>1. CASE d = c
        <4>1. /\ caller'[c].op = "charge" /\ caller'[c].scan = caller[c].scan
              /\ caller'[c].at = 0 /\ caller'[c].left = caller[c].left /\ sent'[c] = sent[c]
          BY <1>0, <1>6, <2>2, <3>1 DEF Caller, ReplyError, FailsOver
        <4>2. caller[c].op = "charge"
          BY <2>2, <3>1 DEF FailsOver
        <4>3. QED
          BY <1>0, <4>1, <4>2 DEF Tried
      <3>2. CASE d # c
        BY <1>0, <1>6, <1>u, <2>2, <3>2 DEF ReplyError
      <3>3. QED
        BY <3>1, <3>2
    <2>3. QED
      BY <1>6, <2>1, <2>2 DEF ReplyError
  <1>7. ASSUME NEW d \in Callers, GiveUp(d) \/ ReplyOk(d) \/ ReplyDeclined(d) \/ Dropped(d)
        PROVE  Tried(c)'
    <2>1. \A e \in Callers \ {d} : sent'[e] = sent[e]
      BY <1>0, <1>7 DEF GiveUp, ReplyOk, ReplyDeclined, Dropped
    <2>2. caller' = [caller EXCEPT ![d] = Idle]
      BY <1>7 DEF GiveUp, ReplyOk, ReplyDeclined, Dropped, Return
    <2>3. QED
      BY <1>5, <2>1, <2>2
  <1>8. ASSUME UNCHANGED <<caller, sent>> PROVE Tried(c)'
    BY <1>8, <1>u
  <1>9. ASSUME NEW d \in Callers, Step(d) PROVE Tried(c)'
    BY <1>2, <1>3, <1>c, <1>4, <1>6, <1>7, <1>9 DEF Step
  <1>10. QED
    BY <1>1, <1>7, <1>8, <1>9 DEF Next, CoolDown, Acts, vars

\* A capture or refund is never repeated with another acquirer, and a charge only
\* with one of lower priority than all it was sent to.
THEOREM NoCallIsRepeated == Spec => OnlyChargesFailOver
  <1> DEFINE Down == \A c \in Callers, a \in Acquirers :
                        (a \in sent'[c] /\ a \notin sent[c] /\ sent[c] # {}) =>
                            caller[c].op = "charge" /\ \A b \in sent[c] : b < a
  <1>1. Init => TriedInv
    BY DEF Init, TriedInv, Tried, Waiting, Idle
  <1>2. BreakerInv /\ TriedInv /\ [Next]_vars => TriedInv'
    BY TriedStep DEF BreakerInv
  <1>3. BreakerInv /\ TriedInv /\ [Next]_vars => [Down]_vars
    <2> SUFFICES ASSUME BreakerInv, TriedInv, [Next]_vars,
                        NEW c \in Callers, NEW a \in Acquirers,
                        a \in sent'[c], a \notin sent[c], sent[c] # {}
                 PROVE  caller[c].op = "charge" /\ \A b \in sent[c] : b < a
      OBVIOUS
    <2>1. a = caller[c].at /\ caller[c].at # 0
      <3>1. SentMove(c)
        BY SentMoves DEF BreakerInv
      <3>2. QED
        BY <3>1 DEF SentMove
    <2>2. caller[c].op = "charge"
      <3>1. caller[c].op # "none" /\ caller[c].op \in {"none", "charge", "direct"}
        <4>1. caller[c].op = "none" => caller[c].at = 0
          BY DEF TriedInv, Tried
        <4>2. caller[c] \in Caller
          BY DEF BreakerInv, TypeOK
        <4>3. QED
          BY <2>1, <4>1, <4>2 DEF Caller
      <3>2. QED
        BY <2>1, <3>1 DEF TriedInv, Tried, Waiting
    <2>3. Tried(c)
      BY DEF TriedInv
    <2>4. QED
      BY <2>1, <2>2, <2>3 DEF Tried
  <1>4. QED
    BY <1>1, <1>2, <1>3, Counters, PTL DEF Spec, OnlyChargesFailOver
=============================================================================
