---------------------------- MODULE Gateway_proofs ----------------------------
(***************************************************************************)
(* Proofs about the gateway and the merchant service for any number of     *)
(* merchants, requests, keys and any timing with MarkTtl >= HandlerTimeout.*)
(***************************************************************************)
EXTENDS Gateway, TLAPS

\* The parts of GatewayInv about Redis and the handlers ...
KeyInv ==
    /\ pc \in [Reqs -> PcStates] /\ left \in [Reqs -> 0..HandlerTimeout]
    /\ reply \in [Reqs -> Replies]
    /\ entry \in [RedisKeys -> {"none", "in_flight", "completed"}]
    /\ ttl \in [RedisKeys -> Nat]
    /\ raced \subseteq RedisKeys /\ lapsed \subseteq RedisKeys
    /\ \A r \in Reqs : HandlerInv(r)
    /\ \A k \in RedisKeys : entry[k] # "none" => ttl[k] > 0
    /\ MarksHold /\ OneAtATime
    /\ SuccessKept /\ OneSuccessPerKey
    /\ RecordsServed

\* ... and those about what the service has done.
ServiceInv ==
    /\ MerchantTypeOK
    /\ \A r \in Reqs : ServedInv(r)
    /\ ReplayIsEarned
    /\ VersionsPast /\ VersionSpentOnce

\* They make up GatewayInv, before and after a step.
LEMMA InvSplit ==
    /\ GatewayInv <=> KeyInv /\ ServiceInv
    /\ GatewayInv' <=> KeyInv' /\ ServiceInv'
  BY DEF GatewayInv, KeyInv, ServiceInv, GatewayTypeOK

\* Every request comes from a merchant, and a keyed one has its key in Redis.
LEMMA KeyedKey ==
    ASSUME KeyInv, NEW r \in Reqs, pc[r] # "idle"
    PROVE  /\ req[r].merchant \in Merchants /\ req[r].key \in Keys \cup {Null}
           /\ req[r].key # Null => RedisKey(r) \in RedisKeys
  BY DEF KeyInv, HandlerInv, Request, RedisKey, RedisKeys

\* The initial states satisfy the invariant.
LEMMA GatewayInitInv == GatewayInit => GatewayInv
  <1> SUFFICES ASSUME GatewayInit PROVE KeyInv /\ ServiceInv
    BY InvSplit
  <1> USE TimingAssumption
  <1>1. ServiceInv
    BY DEF GatewayInit, MerchantInit, ServiceInv, MerchantTypeOK, ServedInv,
           ReplayIsEarned, VersionsPast, VersionSpentOnce, Reqs
  <1>2. KeyInv
    BY DEF GatewayInit, MerchantInit, KeyInv, HandlerInv, MarksHold, OneAtATime,
           SuccessKept, OneSuccessPerKey, RecordsServed, Active, Uses, Keyed, Replies,
           PcStates
  <1> QED
    BY <1>1, <1>2

-----------------------------------------------------------------------------
(* Steps of the service                                                    *)

\* A service works on a request that its handler has forwarded, or that was
\* forwarded by a handler that is gone.
LEMMA ServedIsForwarded ==
    ASSUME KeyInv, NEW r \in Reqs, served[r] # "no"
    PROVE  pc[r] \in {"waiting", "done"} /\ req[r] \in Request
  BY DEF KeyInv, HandlerInv, PcStates

\* The service does nothing to the handlers but to change how it has served r.
LEMMA ServiceKeepsKeys ==
    ASSUME KeyInv, NEW r \in Reqs, UNCHANGED gvars, UNCHANGED req,
           served[r] \in {"running", "rotated"}, DOMAIN served = Reqs,
           NEW x \in {"rotated", "ok", "failed"}, served' = [served EXCEPT ![r] = x]
    PROVE  KeyInv'
  <1> USE DEF KeyInv, gvars
  <1>1. \A q \in Reqs : HandlerInv(q)'
    BY DEF HandlerInv, Active, PcStates
  <1>2. RecordsServed'
    BY DEF RecordsServed, Uses, Keyed, RedisKey
  <1>3. MarksHold' /\ OneAtATime' /\ SuccessKept' /\ OneSuccessPerKey'
    BY DEF MarksHold, OneAtATime, SuccessKept, OneSuccessPerKey, Uses, Keyed, RedisKey
  <1> QED
    BY <1>1, <1>2, <1>3

\* What a step of the service on request r may do: write to the row of r's
\* merchant, log the rotation, and say how far it is.
ServiceEffect(r, x) ==
    /\ UNCHANGED req
    /\ served' = [served EXCEPT ![r] = x]
    /\ \/ UNCHANGED <<merchants, applied>>
       \/ Applied(r) /\ served[r] = "running" /\ x # "rotated"
          /\ r \in RegisterReqs /\ UNCHANGED merchants
       \/ /\ Applied(r) /\ served[r] = "running"
          /\ r \in UpdateReqs \cup RotateReqs
          /\ r \in UpdateReqs => Expected(r)
          /\ \A m \in Merchants : merchants'[m].version =
                IF m = req[r].merchant THEN merchants[m].version + 1
                ELSE merchants[m].version

\* Every step of the service has such an effect, and keeps the types.
LEMMA ServiceStepEffect ==
    ASSUME MerchantTypeOK, NEW r \in Reqs, req[r] \in Request, ServiceStep(r)
    PROVE  /\ MerchantTypeOK'
           /\ \E x \in {"rotated", "ok", "failed"} : ServiceEffect(r, x)
  <1> USE DEF MerchantTypeOK
  <1>m. PICK m \in Merchants : m = req[r].merchant
    BY DEF Request
  <1>1. CASE UpdateMerchant(r)
    <2>1. merchants' = [merchants EXCEPT ![m] = [version |-> merchants[m].version + 1,
                                                 apiKey |-> merchants[m].apiKey]]
      BY <1>1, <1>m DEF UpdateMerchant, WriteRow, Bumped
    <2>2. MerchantTypeOK'
      BY <1>1, <2>1 DEF UpdateMerchant, Applied, Request
    <2> QED
      BY <1>1, <1>m, <2>1, <2>2 DEF UpdateMerchant, ServiceEffect
  <1>2. CASE RotateKey(r)
    <2>1. PICK k \in [Modes -> Nat] :
            merchants' = [merchants EXCEPT ![m] = [version |-> merchants[m].version + 1,
                                                   apiKey |-> k]]
      <3>1. merchants[m] \in [version: Nat, apiKey: [Modes -> Nat]]
        OBVIOUS
      <3>2. merchants[m].apiKey \in [Modes -> Nat] /\ req[r].rotates \in Modes
        BY <3>1 DEF Request
      <3>3. [merchants[m].apiKey EXCEPT ![req[r].rotates] = @ + 1] \in [Modes -> Nat]
        BY <3>2
      <3> QED
        BY <1>2, <1>m, <3>3 DEF RotateKey, WriteRow, Bumped
    <2>2. MerchantTypeOK'
      BY <1>2, <2>1 DEF RotateKey, Applied, Request
    <2> QED
      BY <1>2, <1>m, <2>1, <2>2, RequestsDisjoint DEF RotateKey, ServiceEffect
  <1>3. CASE AuditRotation(r)
    BY <1>3 DEF AuditRotation, AuditRow, ServiceEffect
  <1>4. CASE RegisterWebhook(r)
    BY <1>4 DEF RegisterWebhook, Applied, Request, ServiceEffect
  <1>5. CASE ServiceFails(r)
    BY <1>5 DEF ServiceFails, ServiceEffect
  <1> QED
    BY <1>1, <1>2, <1>3, <1>4, <1>5 DEF ServiceStep

\* A step of the service preserves the invariant.
LEMMA ServiceStepInv ==
    ASSUME GatewayInv, NEW r \in Reqs, ServiceStep(r), UNCHANGED gvars
    PROVE  GatewayInv'
  <1>0. KeyInv /\ ServiceInv
    BY InvSplit
  <1>1. served[r] \in {"running", "rotated"}
    BY DEF ServiceStep, UpdateMerchant, RotateKey, AuditRotation, RegisterWebhook,
           ServiceFails
  <1>2. req[r] \in Request
    BY <1>0, <1>1, ServedIsForwarded
  <1>3. MerchantTypeOK /\ MerchantTypeOK'
    BY <1>0, <1>2, ServiceStepEffect DEF ServiceInv
  <1>e. PICK x \in {"rotated", "ok", "failed"} : ServiceEffect(r, x)
    BY <1>2, <1>3, ServiceStepEffect
  <1>k. KeyInv'
    BY <1>0, <1>1, <1>3, <1>e, ServiceKeepsKeys DEF MerchantTypeOK, ServiceEffect
  <1>4. \A q \in Reqs : ServedInv(q)'
    <2> SUFFICES ASSUME NEW q \in Reqs PROVE ServedInv(q)'
      OBVIOUS
    <2> USE <1>0, <1>3 DEF ServiceInv, MerchantTypeOK
    <2>0. ASSUME Applied(r)
          PROVE  /\ applied \subseteq applied'
                 /\ \E a \in applied' : a.req = r
                 /\ \A a \in applied' : a.req # r => a \in applied
      <3> DEFINE new == [req |-> r, version |-> merchants[req[r].merchant].version]
      <3>1. applied' = applied \cup {new} /\ new.req = r
        BY <2>0 DEF Applied
      <3> HIDE DEF new
      <3> QED
        BY <3>1
    <2>1. CASE UpdateMerchant(r)
      BY <2>0, <2>1, RequestsDisjoint DEF ServedInv, UpdateMerchant
    <2>2. CASE RotateKey(r)
      BY <2>0, <2>2, RequestsDisjoint DEF ServedInv, RotateKey
    <2>3. CASE AuditRotation(r)
      BY <2>3, RequestsDisjoint DEF ServedInv, AuditRotation, AuditRow
    <2>4. CASE RegisterWebhook(r)
      BY <2>0, <2>4, RequestsDisjoint DEF ServedInv, RegisterWebhook
    <2>5. CASE ServiceFails(r)
      BY <2>5, RequestsDisjoint DEF ServedInv, ServiceFails
    <2> QED
      BY <2>1, <2>2, <2>3, <2>4, <2>5 DEF ServiceStep
  <1>5. ReplayIsEarned'
    <2>1. applied \subseteq applied' /\ UNCHANGED <<req, reply>>
      BY <1>e DEF ServiceEffect, Applied, gvars
    <2>2. \A s \in Reqs : /\ served[s] = "ok" => served'[s] = "ok"
                          /\ served[s] = "no" => served'[s] = "no"
      BY <1>1, <1>3, <1>e DEF MerchantTypeOK, ServiceEffect
    <2> QED
      BY <1>0, <2>1, <2>2 DEF ServiceInv, ReplayIsEarned
  <1>6. VersionsPast' /\ VersionSpentOnce'
    <2> USE <1>0, <1>1, <1>2, <1>3, <1>e DEF ServiceInv, MerchantTypeOK, ServiceEffect
    <2>0. \A a \in applied : a.req \in Reqs /\ a.version \in Nat
      OBVIOUS
    <2>1. CASE UNCHANGED <<merchants, applied>>
      BY <2>1 DEF VersionsPast, VersionSpentOnce
    <2>2. CASE Applied(r) /\ r \in RegisterReqs /\ UNCHANGED merchants
      BY <2>2, RequestsDisjoint DEF VersionsPast, VersionSpentOnce, Applied
    <2>3. CASE /\ Applied(r) /\ served[r] = "running"
               /\ r \in UpdateReqs \cup RotateReqs
               /\ r \in UpdateReqs => Expected(r)
               /\ \A m \in Merchants : merchants'[m].version =
                      IF m = req[r].merchant THEN merchants[m].version + 1
                      ELSE merchants[m].version
      <3> DEFINE new == [req |-> r, version |-> merchants[req[r].merchant].version]
      <3>1. applied' = applied \cup {new} /\ new.req = r
            /\ new.version = merchants[req[r].merchant].version /\ new.version \in Nat
        BY <2>3 DEF Applied, Request
      <3>2. \A a \in applied : a.req # r
        BY <2>3 DEF ServedInv
      <3>3. \A a \in applied :
                (a.req \in UpdateReqs \cup RotateReqs /\ req[a.req].merchant = req[r].merchant)
                    => a.version < new.version
        BY <3>1 DEF VersionsPast
      <3>4. r \in UpdateReqs => new.version = req[r].version
        BY <2>3, <3>1 DEF Expected
      <3> HIDE DEF new
      <3>5. VersionsPast'
        <4> SUFFICES ASSUME NEW a \in applied', a.req \in UpdateReqs \cup RotateReqs
                     PROVE  /\ a.version < merchants'[req[a.req].merchant].version
                            /\ a.req \in UpdateReqs => a.version = req[a.req].version
          BY DEF VersionsPast
        <4>1. CASE a = new
          BY <4>1, <2>3, <3>1, <3>4 DEF Request
        <4>2. CASE a \in applied
          <5>1. a.version < merchants[req[a.req].merchant].version
            BY <4>2 DEF VersionsPast
          <5>2. a.req \in UpdateReqs => a.version = req[a.req].version
            BY <4>2 DEF VersionsPast
          <5>3. served[a.req] # "no"
            BY <4>2, <2>0 DEF ServedInv
          <5>4. req[a.req].merchant \in Merchants
            BY <5>3, <2>0, <4>2, ServedIsForwarded DEF Request
          <5>5. merchants[req[a.req].merchant].version \in Nat
            BY <5>4
          <5>6. \/ merchants'[req[a.req].merchant].version =
                      merchants[req[a.req].merchant].version + 1
                \/ merchants'[req[a.req].merchant].version =
                      merchants[req[a.req].merchant].version
            BY <5>4, <2>3
          <5>7. a.version < merchants'[req[a.req].merchant].version
            BY <5>1, <5>5, <5>6, <2>0, <4>2
          <5> QED
            BY <5>2, <5>7
        <4> QED
          BY <4>1, <4>2, <3>1
      <3>6. VersionSpentOnce'
        <4> SUFFICES ASSUME NEW a \in applied', NEW b \in applied', a.req \in UpdateReqs,
                            b.req \in UpdateReqs \cup RotateReqs,
                            req[a.req].merchant = req[b.req].merchant
                     PROVE  a.version = req[a.req].version /\ (a.version = b.version => a = b)
          BY DEF VersionSpentOnce
        <4>1. CASE a \in applied /\ b \in applied
          BY <4>1 DEF VersionSpentOnce
        <4>2. CASE a = new /\ b \in applied
          BY <4>2, <3>1, <3>3, <3>4, <2>0
        <4>3. CASE a \in applied /\ b = new
          BY <4>3, <3>1, <3>3, <2>0 DEF VersionsPast
        <4>4. CASE a = new /\ b = new
          BY <4>4, <3>1, <3>4
        <4> QED
          BY <4>1, <4>2, <4>3, <4>4, <3>1
      <3> QED
        BY <3>5, <3>6
    <2> QED
      BY <2>1, <2>2, <2>3
  <1> QED
    BY <1>k, <1>3, <1>4, <1>5, <1>6, InvSplit DEF ServiceInv

\* So does the creation of a merchant.
LEMMA CreateMerchantInv ==
    ASSUME GatewayInv, NEW m \in Merchants, CreateMerchant(m), UNCHANGED gvars
    PROVE  GatewayInv'
  <1>0. KeyInv /\ ServiceInv
    BY InvSplit
  <1>1. KeyInv'
    BY <1>0 DEF CreateMerchant, gvars, KeyInv, HandlerInv, MarksHold, OneAtATime,
           SuccessKept, OneSuccessPerKey, RecordsServed, Active, Uses, Keyed, RedisKey
  <1>2. ServiceInv'
    BY <1>0 DEF CreateMerchant, gvars, ServiceInv, MerchantTypeOK, ServedInv,
           ReplayIsEarned, VersionsPast, VersionSpentOnce
  <1> QED
    BY <1>1, <1>2, InvSplit

-----------------------------------------------------------------------------
(* Steps of the handlers                                                   *)

\* A step that leaves the service alone and answers no "completed".
LEMMA ServiceKept ==
    ASSUME ServiceInv, UNCHANGED mvars, DOMAIN reply = Reqs,
           \A r \in Reqs : reply'[r] = "replay_completed" => reply[r] = "replay_completed"
    PROVE  ServiceInv'
  BY DEF ServiceInv, mvars, MerchantTypeOK, ServedInv, ReplayIsEarned, VersionsPast,
         VersionSpentOnce

\* A step that hands r to its service.
LEMMA ServiceForwarded ==
    ASSUME ServiceInv, NEW r \in Reqs, served[r] = "no", reply[r] = "none",
           UNCHANGED reply, served' = [served EXCEPT ![r] = "running"],
           UNCHANGED <<merchants, req, applied, endpoints, audit>>
    PROVE  ServiceInv'
  <1> USE DEF ServiceInv, MerchantTypeOK
  <1>1. MerchantTypeOK'
    OBVIOUS
  <1>2. \A q \in Reqs : ServedInv(q)'
    BY DEF ServedInv
  <1>3. ReplayIsEarned'
    BY DEF ReplayIsEarned
  <1>4. VersionsPast' /\ VersionSpentOnce'
    BY DEF VersionsPast, VersionSpentOnce
  <1> QED
    BY <1>1, <1>2, <1>3, <1>4

\* A new request.
LEMMA ArriveInv ==
    ASSUME GatewayInv, NEW r \in Reqs, NEW m \in Merchants, NEW k \in Keys \cup {Null},
           Arrive(r, m, k)
    PROVE  GatewayInv'
  <1>0. KeyInv /\ ServiceInv /\ pc[r] = "idle" /\ served[r] = "no" /\ reply[r] = "none"
    BY InvSplit DEF Arrive, KeyInv, HandlerInv
  <1>1. PICK q \in Request : req' = [req EXCEPT ![r] = q]
    <2>1. PICK d \in Modes, t \in Modes :
            \E v \in 1..merchants[m].version, a \in 1..merchants[m].apiKey[d] :
                req' = [req EXCEPT ![r] = [merchant |-> m, key |-> k, mode |-> d,
                                           apiKey |-> a, version |-> v, rotates |-> t]]
      BY DEF Arrive
    <2>2. merchants[m].version \in Nat /\ merchants[m].apiKey[d] \in Nat
      BY <1>0 DEF ServiceInv, MerchantTypeOK
    <2>3. 1..merchants[m].version \subseteq Nat /\ 1..merchants[m].apiKey[d] \subseteq Nat
      BY <2>2
    <2> QED
      BY <2>1, <2>3 DEF Request
  <1>2. ServiceInv'
    <2> USE <1>0, <1>1 DEF ServiceInv, MerchantTypeOK
    <2>0. \A a \in applied : a.req \in Reqs /\ a.req # r /\ req'[a.req] = req[a.req]
      BY DEF ServedInv
    <2>1. MerchantTypeOK'
      BY DEF Arrive
    <2>2. \A p \in Reqs : ServedInv(p)'
      BY DEF Arrive, ServedInv
    <2>3. ReplayIsEarned'
      BY DEF Arrive, ReplayIsEarned
    <2>4. VersionsPast' /\ VersionSpentOnce'
      BY <2>0 DEF Arrive, VersionsPast, VersionSpentOnce
    <2> QED
      BY <2>1, <2>2, <2>3, <2>4
  <1>3. KeyInv'
    <2> USE <1>0, TimingAssumption DEF KeyInv
    <2>0. DOMAIN req = Reqs
      BY DEF ServiceInv, MerchantTypeOK
    <2>1. \A p \in Reqs : HandlerInv(p)'
      BY <1>1, <2>0 DEF Arrive, HandlerInv, Active
    <2>2. \A p \in Reqs, c \in RedisKeys :
              (pc'[p] \in {"waiting", "done"} \/ p # r) => (Uses(p, c)' <=> Uses(p, c))
      BY <1>1, <2>0 DEF Arrive, Uses, Keyed, RedisKey
    <2>3. /\ pc' \in [Reqs -> PcStates] /\ left' \in [Reqs -> 0..HandlerTimeout]
          /\ pc'[r] = "arrived" /\ \A p \in Reqs : p # r => pc'[p] = pc[p] /\ left'[p] = left[p]
          /\ UNCHANGED <<reply, entry, ttl, raced, lapsed, served>>
      BY DEF Arrive, PcStates
    <2>4. MarksHold' /\ OneAtATime'
      BY <2>2, <2>3 DEF MarksHold, OneAtATime
    <2>5. SuccessKept' /\ OneSuccessPerKey'
      BY <2>2, <2>3 DEF SuccessKept, OneSuccessPerKey
    <2>6. RecordsServed'
      BY <2>2, <2>3 DEF RecordsServed
    <2> QED
      BY <2>1, <2>3, <2>4, <2>5, <2>6
  <1> QED
    BY <1>2, <1>3, InvSplit

\* A handler ends with an answer other than a success, and leaves Redis alone.
LEMMA EndsQuietly ==
    ASSUME KeyInv, NEW r \in Reqs, Active(r), UNCHANGED <<req, served>>,
           NEW what \in {"error", "replay_in_flight", "replay_completed"}, Answer(r, what),
           what = "replay_completed" => served[r] = "no",
           UNCHANGED <<entry, ttl, raced, lapsed>>
    PROVE  KeyInv'
  <1> USE DEF KeyInv
  <1>1. /\ pc' \in [Reqs -> PcStates] /\ left' \in [Reqs -> 0..HandlerTimeout]
        /\ reply' \in [Reqs -> Replies]
        /\ pc'[r] = "done" /\ reply'[r] = what
        /\ \A p \in Reqs : p # r => pc'[p] = pc[p] /\ left'[p] = left[p] /\ reply'[p] = reply[p]
    BY TimingAssumption DEF Answer, PcStates, Replies
  <1>2. \A p \in Reqs, c \in RedisKeys : Uses(p, c)' <=> Uses(p, c)
    BY <1>1 DEF Active, Uses, Keyed, RedisKey
  <1>3. \A p \in Reqs : HandlerInv(p)'
    BY <1>1 DEF HandlerInv, Active
  <1>4. MarksHold' /\ OneAtATime' /\ SuccessKept' /\ OneSuccessPerKey'
    BY <1>1, <1>2 DEF MarksHold, OneAtATime, SuccessKept, OneSuccessPerKey
  <1>5. RecordsServed'
    BY <1>2 DEF RecordsServed
  <1> QED
    BY <1>1, <1>3, <1>4, <1>5

\* Answers that leave Redis alone: a refusal, a replay, a handler that is dropped.
LEMMA EndingInv ==
    ASSUME GatewayInv, NEW r \in Reqs,
           Refuse(r) \/ Unauthorized(r) \/ Replay(r) \/ Abandon(r)
    PROVE  GatewayInv'
  <1>0. KeyInv /\ ServiceInv /\ Active(r)
    BY InvSplit DEF Refuse, Unauthorized, Replay, Abandon, Active
  <1>1. UNCHANGED mvars /\ UNCHANGED <<entry, ttl, raced, lapsed>>
    BY DEF Refuse, Unauthorized, Replay, Abandon
  <1>2. CASE Answer(r, "error")
    <2>1. KeyInv'
      BY <1>0, <1>1, <1>2, EndsQuietly DEF mvars
    <2>2. ServiceInv'
      BY <1>0, <1>1, <1>2, ServiceKept DEF Answer, KeyInv
    <2> QED
      BY <2>1, <2>2, InvSplit
  <1>3. CASE Replay(r)
    <2> DEFINE k == RedisKey(r)
    <2>0. pc[r] = "lookup" /\ served[r] = "no" /\ k \in RedisKeys /\ Uses(r, k)
      BY <1>0, <1>3, KeyedKey DEF Replay, KeyInv, HandlerInv, Uses, Keyed
    <2>1. PICK what \in {"replay_in_flight", "replay_completed"} :
              /\ Answer(r, what)
              /\ what = "replay_completed" => entry[k] = "completed"
      BY <1>3 DEF Replay
    <2>2. KeyInv'
      BY <1>0, <1>1, <2>0, <2>1, EndsQuietly DEF mvars
    <2>3. ServiceInv'
      <3>1. ReplayIsEarned'
        <4> SUFFICES ASSUME NEW p \in Reqs, reply'[p] = "replay_completed"
                     PROVE  /\ served[p] = "no"
                            /\ \E s \in Reqs :
                                /\ s # p /\ served[s] = "ok"
                                /\ req[s].merchant = req[p].merchant /\ req[s].key = req[p].key
                                /\ \E a \in applied : a.req = s
          BY <1>1 DEF ReplayIsEarned, mvars
        <4>1. CASE p # r
          BY <1>0, <2>1, <4>1 DEF Answer, KeyInv, ServiceInv, ReplayIsEarned
        <4>2. CASE p = r
          <5>1. entry[k] = "completed"
            BY <1>0, <2>1, <4>2 DEF Answer, KeyInv
          <5>2. PICK s \in Reqs : Uses(s, k) /\ served[s] = "ok"
            BY <1>0, <2>0, <5>1 DEF KeyInv, RecordsServed
          <5>3. s # r /\ \E a \in applied : a.req = s
            BY <1>0, <2>0, <5>2 DEF ServiceInv, ServedInv
          <5>4. req[s].merchant = req[r].merchant /\ req[s].key = req[r].key
            BY <5>2 DEF Uses, RedisKey
          <5> QED
            BY <2>0, <5>2, <5>3, <5>4, <4>2
        <4> QED
          BY <4>1, <4>2
      <3> QED
        BY <1>0, <1>1, <3>1 DEF ServiceInv, mvars, MerchantTypeOK, ServedInv, VersionsPast,
               VersionSpentOnce
    <2> QED
      BY <2>2, <2>3, InvSplit
  <1> QED
    BY <1>2, <1>3 DEF Refuse, Unauthorized, Abandon

\* Authentication passes a request on to the lookup, or straight to its service.
LEMMA AuthenticateInv ==
    ASSUME GatewayInv, NEW r \in Reqs, Authenticate(r)
    PROVE  GatewayInv'
  <1>0. /\ KeyInv /\ ServiceInv
        /\ pc[r] = "arrived" /\ served[r] = "no" /\ reply[r] = "none" /\ DOMAIN served = Reqs
    BY InvSplit DEF Authenticate, KeyInv, HandlerInv, ServiceInv, MerchantTypeOK
  <1> USE <1>0 DEF KeyInv
  <1>1. /\ pc' \in [Reqs -> PcStates]
        /\ pc'[r] = (IF req[r].key = Null THEN "waiting" ELSE "lookup")
        /\ \A p \in Reqs : p # r => pc'[p] = pc[p] /\ served'[p] = served[p]
        /\ UNCHANGED <<req, left, reply, entry, ttl, raced, lapsed>>
        /\ req[r].key # Null => served' = served
    BY DEF Authenticate, AfterAuth, PcStates, ServiceInv, MerchantTypeOK
  <1>2. \A p \in Reqs, c \in RedisKeys : Uses(p, c)' <=> Uses(p, c)
    BY <1>1 DEF Uses, Keyed, RedisKey
  <1>3. \A p \in Reqs : HandlerInv(p)'
    BY <1>1 DEF HandlerInv, Active
  <1>4. MarksHold' /\ OneAtATime'
    <2>1. \A p \in Reqs, c \in RedisKeys : Uses(p, c)' /\ pc'[p] = "waiting" =>
              Uses(p, c) /\ pc[p] = "waiting"
      BY <1>1, <1>2 DEF Uses, Keyed
    <2> QED
      BY <1>1, <2>1 DEF MarksHold, OneAtATime
  <1>5. SuccessKept' /\ OneSuccessPerKey'
    BY <1>1, <1>2 DEF SuccessKept, OneSuccessPerKey
  <1>6. RecordsServed'
    BY <1>1, <1>2 DEF RecordsServed
  <1>7. KeyInv'
    BY <1>1, <1>3, <1>4, <1>5, <1>6
  <1>8. ServiceInv'
    <2>1. CASE req[r].key = Null
      BY <1>1, <2>1, ServiceForwarded DEF Authenticate
    <2>2. CASE req[r].key # Null
      BY <1>1, <2>2, ServiceKept DEF Authenticate, mvars
    <2> QED
      BY <2>1, <2>2
  <1> QED
    BY <1>7, <1>8, InvSplit

\* The lookup finds nothing.
LEMMA LookupMissesInv ==
    ASSUME GatewayInv, NEW r \in Reqs, LookupMisses(r)
    PROVE  GatewayInv'
  <1>0. KeyInv /\ ServiceInv /\ pc[r] = "lookup"
    BY InvSplit DEF LookupMisses
  <1> USE <1>0 DEF KeyInv
  <1>1. /\ pc' \in [Reqs -> PcStates] /\ pc'[r] = "missed"
        /\ \A p \in Reqs : p # r => pc'[p] = pc[p]
        /\ UNCHANGED mvars /\ UNCHANGED <<req, served>>
        /\ UNCHANGED <<left, reply, entry, ttl, raced, lapsed>>
    BY DEF LookupMisses, PcStates, mvars
  <1>2. \A p \in Reqs, c \in RedisKeys : Uses(p, c)' <=> Uses(p, c)
    BY <1>1 DEF Uses, Keyed, RedisKey
  <1>3. \A p \in Reqs : HandlerInv(p)'
    BY <1>1 DEF HandlerInv, Active
  <1>4. MarksHold' /\ OneAtATime' /\ SuccessKept' /\ OneSuccessPerKey' /\ RecordsServed'
    BY <1>1, <1>2 DEF MarksHold, OneAtATime, SuccessKept, OneSuccessPerKey, RecordsServed
  <1>5. KeyInv'
    BY <1>1, <1>3, <1>4
  <1>6. ServiceInv'
    BY <1>1, ServiceKept
  <1> QED
    BY <1>5, <1>6, InvSplit

\* The mark is set, over a value or not, by a handler that goes on to its service
\* or ends.
LEMMA MarkKeys ==
    ASSUME KeyInv, NEW r \in Reqs, pc[r] = "missed", SetInFlight(RedisKey(r)),
           UNCHANGED <<req>>, DOMAIN served = Reqs,
           \/ /\ pc' = [pc EXCEPT ![r] = "waiting"]
              /\ served' = [served EXCEPT ![r] = "running"]
              /\ UNCHANGED <<left, reply>>
           \/ Answer(r, "error") /\ UNCHANGED served
    PROVE  KeyInv'
  <1> DEFINE k == RedisKey(r)
  <1> USE TimingAssumption DEF KeyInv
  <1>0. k \in RedisKeys /\ Uses(r, k) /\ served[r] = "no" /\ left[r] > 0
    BY KeyedKey DEF HandlerInv, Uses, Keyed, Active
  <1>1. /\ pc' \in [Reqs -> PcStates] /\ left' \in [Reqs -> 0..HandlerTimeout]
        /\ reply' \in [Reqs -> Replies]
        /\ \/ pc'[r] = "waiting" /\ reply'[r] = reply[r] /\ left'[r] = left[r]
           \/ pc'[r] = "done" /\ reply'[r] = "error" /\ served'[r] = "no"
        /\ \A p \in Reqs : p # r => /\ pc'[p] = pc[p] /\ left'[p] = left[p]
                                    /\ reply'[p] = reply[p] /\ served'[p] = served[p]
    BY <1>0 DEF Answer, PcStates, Replies
  <1>2. /\ entry' \in [RedisKeys -> {"none", "in_flight", "completed"}]
        /\ ttl' \in [RedisKeys -> Nat]
        /\ raced \subseteq raced' /\ raced' \subseteq RedisKeys /\ lapsed' = lapsed
        /\ entry'[k] = "in_flight" /\ ttl'[k] = MarkTtl
        /\ entry[k] # "none" => k \in raced'
        /\ \A c \in RedisKeys : c # k => entry'[c] = entry[c] /\ ttl'[c] = ttl[c]
    BY <1>0 DEF SetInFlight
  <1>3. \A p \in Reqs, c \in RedisKeys : Uses(p, c)' <=> Uses(p, c)
    BY <1>0, <1>1 DEF Uses, Keyed, RedisKey
  <1>4. \A p \in Reqs : HandlerInv(p)'
    BY <1>0, <1>1 DEF HandlerInv, Active
  <1>5. Uses(r, k)' /\ \A c \in RedisKeys : c # k => ~Uses(r, c)
    BY <1>0, <1>3 DEF Uses
  <1> HIDE DEF k
  <1>6. \A p \in Reqs : p # r /\ Uses(p, k) /\ pc[p] = "waiting" => k \in raced'
    BY <1>0, <1>2 DEF MarksHold
  <1>7. MarksHold'
    <2> SUFFICES ASSUME NEW c \in RedisKeys, NEW p \in Reqs, Uses(p, c)', pc'[p] = "waiting",
                        c \notin raced'
                 PROVE  entry'[c] = "in_flight" /\ ttl'[c] >= left'[p]
      BY DEF MarksHold
    <2>1. CASE p = r
      <3>1. c = k
        BY <2>1, <1>3, <1>5
      <3>2. left'[r] =< HandlerTimeout
        BY <1>1
      <3> QED
        BY <2>1, <3>1, <3>2, <1>2, <1>1
    <2>2. CASE p # r
      <3>1. c # k
        BY <2>2, <1>1, <1>3, <1>6
      <3> QED
        BY <2>2, <3>1, <1>1, <1>2, <1>3 DEF MarksHold
    <2> QED
      BY <2>1, <2>2
  <1>8. OneAtATime'
    <2> SUFFICES ASSUME NEW c \in RedisKeys, NEW p \in Reqs, NEW q \in Reqs,
                        Uses(p, c)', pc'[p] = "waiting", Uses(q, c)', pc'[q] = "waiting",
                        p # q
                 PROVE  c \in raced'
      BY DEF OneAtATime
    <2>1. CASE p # r /\ q # r
      BY <2>1, <1>1, <1>2, <1>3 DEF OneAtATime
    <2>2. CASE p = r \/ q = r
      <3>1. c = k
        BY <2>2, <1>3, <1>5
      <3> QED
        BY <2>2, <3>1, <1>1, <1>3, <1>6
    <2> QED
      BY <2>1, <2>2
  <1>9. SuccessKept'
    <2> SUFFICES ASSUME NEW c \in RedisKeys, NEW p \in Reqs, Uses(p, c)',
                        reply'[p] = "success", c \notin raced' \cup lapsed'
                 PROVE  entry'[c] = "completed"
      BY DEF SuccessKept
    <2>1. p # r /\ reply[p] = "success"
      BY <1>0, <1>1 DEF HandlerInv
    <2>2. entry[c] = "completed"
      BY <2>1, <1>2, <1>3 DEF SuccessKept
    <2>3. c # k
      BY <2>2, <1>2
    <2> QED
      BY <2>2, <2>3, <1>2
  <1>10. OneSuccessPerKey'
    BY <1>0, <1>1, <1>2, <1>3 DEF OneSuccessPerKey, HandlerInv
  <1>11. RecordsServed'
    BY <1>0, <1>1, <1>2, <1>3 DEF RecordsServed
  <1>12. \A c \in RedisKeys : entry'[c] # "none" => ttl'[c] > 0
    BY <1>2
  <1> QED
    BY <1>1, <1>2, <1>4, <1>7, <1>8, <1>9, <1>10, <1>11, <1>12

\* Marking, whether it is reported to succeed or to fail, preserves the invariant.
LEMMA MarkInv ==
    ASSUME GatewayInv, NEW r \in Reqs, Mark(r) \/ MarkFails(r)
    PROVE  GatewayInv'
  <1>0. /\ KeyInv /\ ServiceInv /\ pc[r] = "missed" /\ Active(r)
        /\ DOMAIN served = Reqs /\ served[r] = "no"
        /\ DOMAIN reply = Reqs /\ reply[r] = "none"
    BY InvSplit DEF Mark, MarkFails, Active, ServiceInv, MerchantTypeOK, KeyInv, HandlerInv
  <1>1. CASE Mark(r)
    <2>1. KeyInv'
      BY <1>0, <1>1, MarkKeys DEF Mark
    <2>2. ServiceInv'
      BY <1>0, <1>1, ServiceForwarded DEF Mark
    <2> QED
      BY <2>1, <2>2, InvSplit
  <1>2. CASE MarkFails(r)
    <2>1. UNCHANGED <<req, served>> /\ Answer(r, "error") /\ UNCHANGED mvars
      BY <1>2 DEF MarkFails, mvars
    <2>2. ServiceInv'
      BY <1>0, <2>1, ServiceKept DEF Answer
    <2>3. KeyInv'
      BY <1>0, <1>2, <2>1, MarkKeys, EndsQuietly DEF MarkFails
    <2> QED
      BY <2>2, <2>3, InvSplit
  <1> QED
    BY <1>1, <1>2

\* A waiting handler ends, and with it the mark it relied on: the success is
\* recorded (or the record lost), or the mark deleted (or left).
LEMMA EndsWaiting ==
    ASSUME KeyInv, NEW r \in Reqs, pc[r] = "waiting", req[r].key # Null,
           UNCHANGED <<req, served, raced>>,
           NEW what \in {"success", "error"}, Answer(r, what),
           \/ served[r] = "ok" /\ KeepAnswer(RedisKey(r))
           \/ what = "error" /\ DropMark(RedisKey(r))
    PROVE  KeyInv'
  <1> DEFINE k == RedisKey(r)
  <1> USE TimingAssumption DEF KeyInv
  <1>0. k \in RedisKeys /\ Uses(r, k) /\ \A c \in RedisKeys : c # k => ~Uses(r, c)
    BY KeyedKey DEF Uses, Keyed
  <1>1. /\ pc' \in [Reqs -> PcStates] /\ left' \in [Reqs -> 0..HandlerTimeout]
        /\ reply' \in [Reqs -> Replies]
        /\ pc'[r] = "done" /\ reply'[r] = what
        /\ \A p \in Reqs : p # r => /\ pc'[p] = pc[p] /\ left'[p] = left[p]
                                    /\ reply'[p] = reply[p]
    BY DEF Answer, PcStates, Replies
  <1>2. /\ entry' \in [RedisKeys -> {"none", "in_flight", "completed"}]
        /\ ttl' \in [RedisKeys -> Nat] /\ lapsed' \subseteq RedisKeys
        /\ lapsed \subseteq lapsed'
        /\ \A c \in RedisKeys : c # k => entry'[c] = entry[c] /\ ttl'[c] = ttl[c]
        /\ what = "success" => entry'[k] = "completed" \/ k \in lapsed'
        /\ entry'[k] = "completed" => served[r] = "ok" \/ entry[k] = "completed"
        /\ entry'[k] # "none" => ttl'[k] > 0
    BY <1>0 DEF KeepAnswer, DropMark
  <1>3. \A p \in Reqs, c \in RedisKeys : Uses(p, c)' <=> Uses(p, c)
    BY <1>0, <1>1 DEF Uses, Keyed, RedisKey
  <1>4. what = "success" => served[r] = "ok"
    OBVIOUS
  <1>5. \A p \in Reqs : HandlerInv(p)'
    BY <1>1, <1>4 DEF HandlerInv, Active
  <1> HIDE DEF k
  <1>6. \A p \in Reqs : p # r /\ Uses(p, k) /\ pc[p] = "waiting" => k \in raced
    BY <1>0 DEF OneAtATime
  <1>7. k \notin raced => entry[k] = "in_flight"
    BY <1>0 DEF MarksHold
  <1>8. \A p \in Reqs : Uses(p, k) /\ reply[p] = "success" => k \in raced \cup lapsed
    BY <1>0, <1>7 DEF SuccessKept
  <1>9. MarksHold' /\ OneAtATime'
    BY <1>1, <1>2, <1>3, <1>6 DEF MarksHold, OneAtATime
  <1>10. SuccessKept'
    <2> SUFFICES ASSUME NEW c \in RedisKeys, NEW p \in Reqs, Uses(p, c)',
                        reply'[p] = "success", c \notin raced \cup lapsed'
                 PROVE  entry'[c] = "completed"
      BY DEF SuccessKept
    <2>1. CASE p = r
      BY <2>1, <1>0, <1>1, <1>2, <1>3
    <2>2. CASE p # r
      <3>1. reply[p] = "success" /\ Uses(p, c)
        BY <2>2, <1>1, <1>3
      <3>2. c # k
        BY <3>1, <1>2, <1>8
      <3> QED
        BY <3>1, <3>2, <1>2 DEF SuccessKept
    <2> QED
      BY <2>1, <2>2
  <1>11. OneSuccessPerKey'
    <2> SUFFICES ASSUME NEW c \in RedisKeys, NEW p \in Reqs, NEW q \in Reqs,
                        Uses(p, c), reply'[p] = "success",
                        Uses(q, c), reply'[q] = "success", p # q
                 PROVE  c \in raced \cup lapsed'
      BY <1>3 DEF OneSuccessPerKey
    <2>1. CASE p # r /\ q # r
      BY <2>1, <1>1, <1>2 DEF OneSuccessPerKey
    <2>2. CASE p = r \/ q = r
      <3>1. c = k
        BY <2>2, <1>0
      <3> QED
        BY <2>2, <3>1, <1>1, <1>2, <1>8
    <2> QED
      BY <2>1, <2>2
  <1>12. RecordsServed'
    BY <1>0, <1>2, <1>3 DEF RecordsServed
  <1>13. \A c \in RedisKeys : entry'[c] # "none" => ttl'[c] > 0
    BY <1>2
  <1> QED
    BY <1>1, <1>2, <1>5, <1>9, <1>10, <1>11, <1>12, <1>13

\* A waiting handler without a key ends.
LEMMA EndsUnkeyed ==
    ASSUME KeyInv, NEW r \in Reqs, pc[r] = "waiting", req[r].key = Null,
           UNCHANGED <<req, served, entry, ttl, raced, lapsed>>,
           NEW what \in {"success", "error"}, Answer(r, what),
           what = "success" => served[r] = "ok"
    PROVE  KeyInv'
  <1> USE DEF KeyInv
  <1>1. /\ pc' \in [Reqs -> PcStates] /\ left' \in [Reqs -> 0..HandlerTimeout]
        /\ reply' \in [Reqs -> Replies]
        /\ pc'[r] = "done" /\ reply'[r] = what
        /\ \A p \in Reqs : p # r => /\ pc'[p] = pc[p] /\ left'[p] = left[p]
                                    /\ reply'[p] = reply[p]
    BY TimingAssumption DEF Answer, PcStates, Replies
  <1>2. \A p \in Reqs, c \in RedisKeys : (Uses(p, c)' <=> Uses(p, c)) /\ ~Uses(r, c)
    BY <1>1 DEF Uses, Keyed, RedisKey
  <1>3. \A p \in Reqs : HandlerInv(p)'
    BY <1>1 DEF HandlerInv, Active
  <1>4. MarksHold' /\ OneAtATime'
    BY <1>1, <1>2 DEF MarksHold, OneAtATime
  <1>5. SuccessKept' /\ OneSuccessPerKey' /\ RecordsServed'
    BY <1>1, <1>2 DEF SuccessKept, OneSuccessPerKey, RecordsServed
  <1> QED
    BY <1>1, <1>3, <1>4, <1>5

\* Passing an answer on, or giving up on the service, preserves the invariant.
LEMMA RelayInv ==
    ASSUME GatewayInv, NEW r \in Reqs, Relay(r) \/ BadGateway(r)
    PROVE  GatewayInv'
  <1>0. KeyInv /\ ServiceInv /\ pc[r] = "waiting" /\ DOMAIN reply = Reqs
    BY InvSplit DEF Relay, BadGateway, KeyInv
  <1>1. PICK what \in {"success", "error"} :
            Answer(r, what) /\ (what = "success" => served[r] = "ok" /\ Relay(r))
    BY DEF Relay, BadGateway
  <1>2. UNCHANGED mvars /\ UNCHANGED <<req, served, raced>>
    BY DEF Relay, BadGateway, mvars
  <1>3. ServiceInv'
    BY <1>0, <1>1, <1>2, ServiceKept DEF Answer
  <1>4. CASE req[r].key = Null
    <2>1. KeyInv'
      BY <1>0, <1>1, <1>2, <1>4, EndsUnkeyed DEF Relay, BadGateway
    <2> QED
      BY <2>1, <1>3, InvSplit
  <1>5. CASE req[r].key # Null
    <2>1. \/ served[r] = "ok" /\ KeepAnswer(RedisKey(r))
          \/ what = "error" /\ DropMark(RedisKey(r))
      BY <1>1, <1>5 DEF Relay, BadGateway, IsSuccess
    <2>2. KeyInv'
      BY <1>0, <1>1, <1>2, <1>5, <2>1, EndsWaiting
    <2> QED
      BY <2>2, <1>3, InvSplit
  <1> QED
    BY <1>4, <1>5

\* Time passing preserves the invariant: a mark has at least as long to live as
\* the handler that relies on it.
LEMMA TickInv ==
    ASSUME GatewayInv, Tick
    PROVE  GatewayInv'
  <1>0. KeyInv /\ ServiceInv
    BY InvSplit
  <1> USE <1>0, TimingAssumption DEF KeyInv
  <1>1. /\ UNCHANGED mvars /\ UNCHANGED <<req, served, raced>>
        /\ lapsed \subseteq lapsed' /\ lapsed' \subseteq RedisKeys
    BY DEF Tick, mvars
  <1>2. \A p \in Reqs :
            /\ pc'[p] = IF TimedOut(p) THEN "done" ELSE pc[p]
            /\ reply'[p] = IF TimedOut(p) THEN "error" ELSE reply[p]
            /\ left'[p] = Less1(left[p])
    BY DEF Tick
  <1>3. \A c \in RedisKeys :
            /\ entry'[c] = IF Expires(c) THEN "none" ELSE entry[c]
            /\ ttl'[c] = Less1(ttl[c])
            /\ Expires(c) /\ entry[c] = "completed" => c \in lapsed'
    BY DEF Tick
  <1>4. /\ pc' \in [Reqs -> PcStates] /\ reply' \in [Reqs -> Replies]
        /\ left' \in [Reqs -> 0..HandlerTimeout]
    BY DEF Tick, PcStates, Replies, Less1
  <1>5. /\ entry' \in [RedisKeys -> {"none", "in_flight", "completed"}]
        /\ ttl' \in [RedisKeys -> Nat]
    BY DEF Tick, Less1
  <1>6. \A p \in Reqs, c \in RedisKeys : Uses(p, c)' <=> Uses(p, c)
    BY <1>1, <1>2 DEF Uses, Keyed, RedisKey, TimedOut, Active
  <1>7. \A p \in Reqs : HandlerInv(p)'
    BY <1>1, <1>2 DEF HandlerInv, TimedOut, Active, Less1
  <1>8. \A c \in RedisKeys : entry'[c] # "none" => ttl'[c] > 0
    BY <1>3 DEF Expires, Less1
  <1>9. MarksHold'
    <2> SUFFICES ASSUME NEW c \in RedisKeys, NEW p \in Reqs, Uses(p, c)', pc'[p] = "waiting",
                        c \notin raced
                 PROVE  entry'[c] = "in_flight" /\ ttl'[c] >= left'[p]
      BY <1>1 DEF MarksHold
    <2>1. pc[p] = "waiting" /\ ~TimedOut(p) /\ Uses(p, c)
      BY <1>2, <1>6
    <2>2. entry[c] = "in_flight" /\ ttl[c] >= left[p] /\ left[p] > 1
      BY <2>1 DEF MarksHold, TimedOut, HandlerInv, Active
    <2> QED
      BY <2>2, <1>2, <1>3 DEF Expires, Less1
  <1>10. OneAtATime'
    BY <1>1, <1>2, <1>6 DEF OneAtATime
  <1>11. SuccessKept' /\ OneSuccessPerKey'
    BY <1>1, <1>2, <1>3, <1>6 DEF SuccessKept, OneSuccessPerKey
  <1>12. RecordsServed'
    BY <1>1, <1>3, <1>6 DEF RecordsServed
  <1>13. KeyInv'
    BY <1>1, <1>4, <1>5, <1>7, <1>8, <1>9, <1>10, <1>11, <1>12
  <1>14. ServiceInv'
    BY <1>1, <1>2, ServiceKept
  <1> QED
    BY <1>13, <1>14, InvSplit

-----------------------------------------------------------------------------
(* The theorems                                                            *)

\* Every step preserves the invariant.
LEMMA GatewayStepInv == GatewayInv /\ [GatewayNext]_gatewayVars => GatewayInv'
  <1> SUFFICES ASSUME GatewayInv, [GatewayNext]_gatewayVars PROVE GatewayInv'
    OBVIOUS
  <1>1. CASE UNCHANGED gatewayVars
    <2>1. KeyInv /\ ServiceInv
      BY InvSplit
    <2>2. KeyInv'
      BY <1>1, <2>1 DEF gatewayVars, gvars, mvars, KeyInv, HandlerInv, MarksHold, OneAtATime,
             SuccessKept, OneSuccessPerKey, RecordsServed, Active, Uses, Keyed, RedisKey
    <2>3. ServiceInv'
      BY <1>1, <2>1 DEF gatewayVars, gvars, mvars, ServiceInv, MerchantTypeOK, ServedInv,
             ReplayIsEarned, VersionsPast, VersionSpentOnce
    <2> QED
      BY <2>2, <2>3, InvSplit
  <1>2. CASE \E m \in Merchants : CreateMerchant(m) /\ UNCHANGED gvars
    BY <1>2, CreateMerchantInv
  <1>3. CASE Tick
    BY <1>3, TickInv
  <1>4. ASSUME NEW r \in Reqs, HandlerStep(r) PROVE GatewayInv'
    BY <1>4, EndingInv, AuthenticateInv, LookupMissesInv, MarkInv, RelayInv DEF HandlerStep
  <1>5. ASSUME NEW r \in Reqs, ServiceStep(r), UNCHANGED gvars PROVE GatewayInv'
    BY <1>5, ServiceStepInv
  <1>6. ASSUME NEW r \in Reqs, NEW m \in Merchants, NEW k \in Keys \cup {Null},
               Arrive(r, m, k)
        PROVE  GatewayInv'
    BY <1>6, ArriveInv
  <1> QED
    BY <1>1, <1>2, <1>3, <1>4, <1>5, <1>6 DEF GatewayNext

\* GatewayInv is an invariant of the gateway with the merchant service.
THEOREM GatewayInvariance == GatewaySpec => []GatewayInv
  BY GatewayInitInv, GatewayStepInv, PTL DEF GatewaySpec

\* For any number of requests and keys, two handlers are past the idempotency
\* middleware under one key only if a request that had found the key free has at
\* some time set its mark over the value of another.
THEOREM MarksExclude == GatewaySpec => []OneAtATime
  <1>1. GatewayInv => OneAtATime
    BY DEF GatewayInv
  <1> QED
    BY <1>1, GatewayInvariance, PTL

\* No key succeeds twice unless it raced or its record lapsed.
THEOREM SucceedsOnce == GatewaySpec => []OneSuccessPerKey
  <1>1. GatewayInv => OneSuccessPerKey
    BY DEF GatewayInv
  <1> QED
    BY <1>1, GatewayInvariance, PTL

\* A replayed "completed" stands for another request of that merchant and key, of
\* whatever kind, that a service carried out; the one it answers was not.
THEOREM ReplaysEarned == GatewaySpec => []ReplayIsEarned
  <1>1. GatewayInv => ReplayIsEarned
    BY DEF GatewayInv
  <1> QED
    BY <1>1, GatewayInvariance, PTL

\* Optimistic locking holds for any number of updates and rotations.
THEOREM OptimisticLocking == GatewaySpec => []VersionSpentOnce
  <1>1. GatewayInv => VersionSpentOnce
    BY DEF GatewayInv
  <1> QED
    BY <1>1, GatewayInvariance, PTL

\* A rotation whose new key was handed out is in the audit log.
THEOREM RotationsLogged == GatewaySpec => []RotationsAudited
  <1>1. GatewayInv => RotationsAudited
    BY DEF GatewayInv, GatewayTypeOK, MerchantTypeOK, RotationsAudited, ServedInv,
           HandlerInv, Reqs
  <1> QED
    BY <1>1, GatewayInvariance, PTL

\* A recorded success stays on record until it expires, unless the key raced.
THEOREM RecordsStable == GatewaySpec => CompletedIsStable
  <1> DEFINE A == \A k \in RedisKeys : entry[k] = "completed" /\ entry'[k] # "completed" =>
                      k \in raced' \/ k \in lapsed'
  <1>1. GatewayInv /\ [GatewayNext]_gatewayVars => [A]_gatewayVars
    <2> SUFFICES ASSUME GatewayInv, GatewayNext, NEW k \in RedisKeys,
                        entry[k] = "completed", entry'[k] # "completed"
                 PROVE  k \in raced' \/ k \in lapsed'
      OBVIOUS
    <2>0. KeyInv
      BY InvSplit
    <2>1. CASE Tick
      BY <2>1 DEF Tick
    <2>2. ASSUME NEW r \in Reqs, Mark(r) \/ MarkFails(r)
          PROVE  k \in raced'
      BY <2>0, <2>2 DEF Mark, MarkFails, SetInFlight, KeyInv
    <2>3. ASSUME NEW r \in Reqs, Relay(r) \/ BadGateway(r)
          PROVE  k \in raced'
      <3>1. /\ pc[r] = "waiting" /\ req[r].key # Null /\ raced' = raced
            /\ KeepAnswer(RedisKey(r)) \/ DropMark(RedisKey(r))
        BY <2>3 DEF Relay, BadGateway
      <3>2. k = RedisKey(r)
        BY <2>0, <3>1 DEF KeepAnswer, DropMark, KeyInv
      <3>3. Uses(r, k)
        BY <3>1, <3>2 DEF Uses, Keyed
      <3> QED
        BY <2>0, <3>1, <3>3 DEF KeyInv, MarksHold
    <2>4. ASSUME UNCHANGED entry PROVE FALSE
      BY <2>4
    <2> QED
      BY <2>1, <2>2, <2>3, <2>4 DEF GatewayNext, HandlerStep, Refuse, Unauthorized,
             Authenticate, Replay, LookupMisses, Abandon, Arrive, gvars
  <1> QED
    BY <1>1, GatewayInvariance, PTL DEF GatewaySpec, CompletedIsStable
=============================================================================
