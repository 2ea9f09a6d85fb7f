------------------------------- MODULE Gateway -------------------------------
(***************************************************************************)
(* The API gateway (crates/api-gateway/src): the request timeout, the rate *)
(* limiter, the authentication and idempotency middlewares and the proxy,  *)
(* in front of the merchant service.  Requests to the other services pass  *)
(* through it in the same way.  Redis keeps one entry per merchant and     *)
(* idempotency key.                                                        *)
(* Deadlines are timers that count down with Tick: what is left of a       *)
(* handler's 30 seconds and of an entry's time to live.                    *)
(***************************************************************************)
EXTENDS MerchantService

CONSTANTS
    HandlerTimeout,    \* TimeoutLayer
    MarkTtl,           \* time to live of an in-flight mark
    CompletedTtl       \* idempotency_ttl_seconds

\* main.rs and idempotency.rs both say 30 seconds.
ASSUME TimingAssumption ==
    /\ HandlerTimeout \in Nat \ {0}
    /\ MarkTtl \in Nat /\ MarkTtl >= HandlerTimeout
    /\ CompletedTtl \in Nat \ {0}

VARIABLES
    pc,         \* where the handler of each request is
    left,       \* the time its handler has left
    reply,      \* what the client was answered
    entry,      \* Redis: the value of each key, and the time it has left
    ttl,
    raced,      \* history: keys marked while they held a value
    lapsed      \* history: keys whose "completed" expired or was never written

gvars == <<pc, left, reply, entry, ttl, raced, lapsed>>
gatewayVars == <<mvars, gvars>>

RedisKeys == Merchants \X Keys

PcStates == {"idle", "arrived", "lookup", "missed", "waiting", "done"}

\* "error" is any status but a success, and a handler that was dropped.
Replies == {"none", "success", "error", "replay_in_flight", "replay_completed"}

\* Every variable has its type.
GatewayTypeOK ==
    /\ MerchantTypeOK
    /\ pc \in [Reqs -> PcStates]
    /\ left \in [Reqs -> 0..HandlerTimeout]
    /\ reply \in [Reqs -> Replies]
    /\ entry \in [RedisKeys -> {"none", "in_flight", "completed"}]
    /\ ttl \in [RedisKeys -> Nat]
    /\ raced \subseteq RedisKeys
    /\ lapsed \subseteq RedisKeys

GatewayInit ==
    /\ MerchantInit
    /\ pc = [r \in Reqs |-> "idle"]
    /\ left = [r \in Reqs |-> 0]
    /\ reply = [r \in Reqs |-> "none"]
    /\ entry = [k \in RedisKeys |-> "none"]
    /\ ttl = [k \in RedisKeys |-> 0]
    /\ raced = {}
    /\ lapsed = {}

Active(r) == pc[r] \notin {"idle", "done"}

RedisKey(r) == <<req[r].merchant, req[r].key>>

Answer(r, what) ==
    /\ pc' = [pc EXCEPT ![r] = "done"]
    /\ left' = [left EXCEPT ![r] = 0]
    /\ reply' = [reply EXCEPT ![r] = what]

-----------------------------------------------------------------------------

\* A request comes in.  Its client has an API key that was issued at some time,
\* and sends an update for a version it may know of (GET does not return it).
Arrive(r, m, k) ==
    /\ pc[r] = "idle"
    /\ \E v \in 1..merchants[m].version, d, t \in Modes :
        \E a \in 1..merchants[m].apiKey[d] :
            /\ r \notin UpdateReqs => v = 1
            /\ r \notin RotateReqs => t = d
            /\ req' = [req EXCEPT ![r] = [merchant |-> m, key |-> k, mode |-> d,
                                         apiKey |-> a, version |-> v, rotates |-> t]]
    /\ pc' = [pc EXCEPT ![r] = "arrived"]
    /\ left' = [left EXCEPT ![r] = HandlerTimeout]
    /\ UNCHANGED <<merchants, served, applied, endpoints, audit>>
    /\ UNCHANGED <<reply, entry, ttl, raced, lapsed>>

\* rate_limit_middleware has no cell left, the API key or the idempotency key is
\* malformed, or a query fails.
Refuse(r) ==
    /\ pc[r] \in {"arrived", "lookup"}
    /\ Answer(r, "error")
    /\ UNCHANGED <<mvars, entry, ttl, raced, lapsed>>

\* lookup_merchant_by_key_hash: the key has to be the one in force.
InForce(r) == merchants[req[r].merchant].apiKey[req[r].mode] = req[r].apiKey

\* auth_middleware.
Unauthorized(r) ==
    /\ pc[r] = "arrived"
    /\ ~InForce(r)
    /\ Answer(r, "error")
    /\ UNCHANGED <<mvars, entry, ttl, raced, lapsed>>

\* Without an Idempotency-Key (or for a method that changes nothing) the request
\* goes straight to the proxy.
AfterAuth(r) == IF req[r].key = Null THEN "waiting" ELSE "lookup"

Authenticate(r) ==
    /\ pc[r] = "arrived"
    /\ InForce(r)
    /\ pc' = [pc EXCEPT ![r] = AfterAuth(r)]
    /\ served' = [served EXCEPT ![r] = IF req[r].key = Null THEN "running" ELSE @]
    /\ UNCHANGED <<merchants, req, applied, endpoints, audit>>
    /\ UNCHANGED <<left, reply, entry, ttl, raced, lapsed>>

\* GET: a value is replayed with status 200, whatever it is.
Replay(r) ==
    /\ pc[r] = "lookup"
    /\ entry[RedisKey(r)] # "none"
    /\ Answer(r, IF entry[RedisKey(r)] = "completed" THEN "replay_completed"
                 ELSE "replay_in_flight")
    /\ UNCHANGED <<mvars, entry, ttl, raced, lapsed>>

LookupMisses(r) ==
    /\ pc[r] = "lookup"
    /\ entry[RedisKey(r)] = "none"
    /\ pc' = [pc EXCEPT ![r] = "missed"]
    /\ UNCHANGED <<mvars, left, reply, entry, ttl, raced, lapsed>>

\* Mutant: the mark lives shorter than a handler.
SetBriefly(k) ==
    /\ entry' = [entry EXCEPT ![k] = "in_flight"]
    /\ ttl' = [ttl EXCEPT ![k] = 1]
    /\ raced' = IF entry[k] = "none" THEN raced ELSE raced \cup {k}
    /\ UNCHANGED lapsed

\* SETEX, whether or not the key has got a value since.
SetInFlight(k) ==
    /\ entry' = [entry EXCEPT ![k] = "in_flight"]
    /\ ttl' = [ttl EXCEPT ![k] = MarkTtl]
    /\ raced' = IF entry[k] = "none" THEN raced ELSE raced \cup {k}
    /\ UNCHANGED lapsed

Mark(r) ==
    /\ pc[r] = "missed"
    /\ SetInFlight(RedisKey(r))
    /\ pc' = [pc EXCEPT ![r] = "waiting"]
    /\ served' = [served EXCEPT ![r] = "running"]
    /\ UNCHANGED <<merchants, req, applied, endpoints, audit, left, reply>>

\* SETEX reports an error, before or after Redis has carried it out.
MarkFails(r) ==
    /\ pc[r] = "missed"
    /\ SetInFlight(RedisKey(r)) \/ UNCHANGED <<entry, ttl, raced, lapsed>>
    /\ Answer(r, "error")
    /\ UNCHANGED mvars

\* Mutant: the key is marked completed whatever the answer was.
AnyAnswer(r) == TRUE

IsSuccess(r) == served[r] = "ok"

\* Mutant: the success is not recorded.
ForgetAnswer(k) ==
    /\ entry' = [entry EXCEPT ![k] = "none"]
    /\ ttl' = [ttl EXCEPT ![k] = 0]
    /\ UNCHANGED lapsed

\* The SETEX "completed" that follows a success.  Its errors are ignored.
KeepAnswer(k) ==
    \/ /\ entry' = [entry EXCEPT ![k] = "completed"]
       /\ ttl' = [ttl EXCEPT ![k] = CompletedTtl]
       /\ UNCHANGED lapsed
    \/ /\ lapsed' = lapsed \cup {k}
       /\ UNCHANGED <<entry, ttl>>

\* The DEL that follows any other answer.  Its errors are ignored.
DropMark(k) ==
    \/ /\ entry' = [entry EXCEPT ![k] = "none"]
       /\ ttl' = [ttl EXCEPT ![k] = 0]
       /\ UNCHANGED lapsed
    \/ UNCHANGED <<entry, ttl, lapsed>>

\* The service's answer is recorded and passed on, unless the handler is dropped
\* in between.
Relay(r) ==
    /\ pc[r] = "waiting"
    /\ served[r] \in {"ok", "failed"}
    /\ IF req[r].key = Null THEN UNCHANGED <<entry, ttl, lapsed>>
       ELSE IF IsSuccess(r) THEN KeepAnswer(RedisKey(r))
       ELSE DropMark(RedisKey(r))
    /\ \E what \in IF served[r] = "ok" THEN {"success", "error"} ELSE {"error"} :
            Answer(r, what)
    /\ UNCHANGED <<mvars, raced>>

\* The service cannot be reached or the connection breaks: it may yet do what it
\* was asked for.  An unknown service or an oversized body ends here as well.
BadGateway(r) ==
    /\ pc[r] = "waiting"
    /\ IF req[r].key = Null THEN UNCHANGED <<entry, ttl, lapsed>>
       ELSE DropMark(RedisKey(r))
    /\ Answer(r, "error")
    /\ UNCHANGED <<mvars, raced>>

\* The client hangs up or the gateway dies: the handler is dropped where it is.
Abandon(r) ==
    /\ Active(r)
    /\ Answer(r, "error")
    /\ UNCHANGED <<mvars, entry, ttl, raced, lapsed>>

TimedOut(r) == Active(r) /\ left[r] = 1

\* Mutant: an in-flight mark is set without a time to live.
OnlyCompletedExpires(k) == entry[k] = "completed" /\ ttl[k] =< 1

Expires(k) == entry[k] # "none" /\ ttl[k] =< 1

Less1(n) == IF n > 0 THEN n - 1 ELSE 0

\* Time passes: TimeoutLayer drops the handlers whose time is up, leaving their
\* marks, and Redis the entries whose time is up.
Tick ==
    /\ \/ \E r \in Reqs : Active(r)
       \/ \E k \in RedisKeys : entry[k] # "none"
    /\ pc' = [r \in Reqs |-> IF TimedOut(r) THEN "done" ELSE pc[r]]
    /\ reply' = [r \in Reqs |-> IF TimedOut(r) THEN "error" ELSE reply[r]]
    /\ left' = [r \in Reqs |-> Less1(left[r])]
    /\ entry' = [k \in RedisKeys |-> IF Expires(k) THEN "none" ELSE entry[k]]
    /\ ttl' = [k \in RedisKeys |-> Less1(ttl[k])]
    /\ lapsed' = lapsed \cup {k \in RedisKeys : Expires(k) /\ entry[k] = "completed"}
    /\ UNCHANGED <<mvars, raced>>

HandlerStep(r) ==
    \/ Refuse(r) \/ Unauthorized(r) \/ Authenticate(r) \/ Replay(r) \/ LookupMisses(r)
    \/ Mark(r) \/ MarkFails(r) \/ Relay(r) \/ BadGateway(r) \/ Abandon(r)

GatewayNext ==
    \/ \E m \in Merchants : CreateMerchant(m) /\ UNCHANGED gvars
    \/ \E r \in Reqs :
        \/ HandlerStep(r)
        \/ ServiceStep(r) /\ UNCHANGED gvars
        \/ \E m \in Merchants, k \in Keys \cup {Null} : Arrive(r, m, k)
    \/ Tick

GatewaySpec == GatewayInit /\ [][GatewayNext]_gatewayVars

\* Time does not stand still.  Nothing else is relied upon: services may hang.
FairGateway == GatewaySpec /\ WF_gatewayVars(Tick)

-----------------------------------------------------------------------------
(* Properties                                                              *)

Keyed(r) == pc[r] # "idle" /\ req[r].key # Null

\* Whose key is k.
Uses(r, k) == Keyed(r) /\ RedisKey(r) = k

\* The in-flight mark excludes: two handlers wait for a service under one key only
\* if at some time a request set its mark over the value of another, having looked
\* the key up before.  (From then on the key is not protected: a third request may
\* find it free once one of the two has deleted the mark.)  A mark never expires
\* under the handler that relies on it.
OneAtATime ==
    \A k \in RedisKeys : \A r, s \in Reqs :
        (/\ Uses(r, k) /\ pc[r] = "waiting"
         /\ Uses(s, k) /\ pc[s] = "waiting" /\ r # s) => k \in raced

\* No two requests of a merchant succeed under one key, unless they raced past
\* the lookup or the record of the first success lapsed before the second came.
OneSuccessPerKey ==
    \A k \in RedisKeys : \A r, s \in Reqs :
        (/\ Uses(r, k) /\ reply[r] = "success"
         /\ Uses(s, k) /\ reply[s] = "success" /\ r # s) => k \in raced \cup lapsed

\* A client told "completed" is told so of another request: one of its own merchant,
\* under the key it sent, that had its effect and was answered so by its service,
\* whatever operation that was (idempotency_middleware compares keys and nothing
\* else).  Its own request is never handed to a service.
ReplayIsEarned ==
    \A r \in Reqs : reply[r] = "replay_completed" =>
        /\ served[r] = "no"
        /\ \E s \in Reqs :
            /\ s # r /\ served[s] = "ok"
            /\ req[s].merchant = req[r].merchant /\ req[s].key = req[r].key
            /\ \E a \in applied : a.req = s

\* A success that is on record stays until it expires: no failing or late request
\* takes it away or turns it back to in-flight, unless two raced past the lookup.
CompletedIsStable ==
    [][\A k \in RedisKeys : entry[k] = "completed" /\ entry'[k] # "completed" =>
            k \in raced' \/ k \in lapsed']_gatewayVars

\* A rotation whose client was given the new key is in the audit log, though the
\* key and the log are written in two transactions; a logged one took place.
RotationsAudited ==
    /\ \A r \in RotateReqs : reply[r] = "success" => r \in audit
    /\ \A r \in audit : \E a \in applied : a.req = r

\* A key does not stay in flight for ever, whoever died holding it.
KeyIsReleased ==
    \A k \in RedisKeys : entry[k] = "in_flight" ~> entry[k] # "in_flight"

\* What holds a key: the handler that waits under an unraced key has its mark in
\* Redis, and the mark outlives it.
MarksHold ==
    \A k \in RedisKeys : \A r \in Reqs :
        Uses(r, k) /\ pc[r] = "waiting" /\ k \notin raced =>
            entry[k] = "in_flight" /\ ttl[k] >= left[r]

\* A success that was told is on record, or the key raced or lapsed.
SuccessKept ==
    \A k \in RedisKeys : \A r \in Reqs :
        Uses(r, k) /\ reply[r] = "success" /\ k \notin raced \cup lapsed =>
            entry[k] = "completed"

\* A record stands for a request that was served.
RecordsServed ==
    \A k \in RedisKeys : entry[k] = "completed" =>
        \E s \in Reqs : Uses(s, k) /\ served[s] = "ok"

\* How far a handler is, what its service has done and what was answered.
HandlerInv(r) ==
    /\ Active(r) => left[r] > 0
    /\ pc[r] # "idle" => req[r] \in Request
    /\ pc[r] \in {"lookup", "missed"} => req[r].key # Null
    /\ pc[r] \in {"idle", "arrived", "lookup", "missed"} => served[r] = "no"
    /\ pc[r] # "done" => reply[r] = "none"
    /\ reply[r] = "success" => served[r] = "ok"
    /\ reply[r] = "replay_completed" => served[r] = "no"

ServedInv(r) ==
    /\ served[r] \in {"no", "running"} => \A a \in applied : a.req # r
    /\ served[r] \in {"rotated", "ok"} => \E a \in applied : a.req = r
    /\ served[r] = "rotated" => r \in RotateReqs
    /\ r \in RotateReqs /\ served[r] = "ok" => r \in audit
    /\ r \in audit => \E a \in applied : a.req = r

\* The writes of a merchant found versions before the one it has now.
VersionsPast ==
    \A a \in applied : a.req \in UpdateReqs \cup RotateReqs =>
        /\ a.version < merchants[req[a.req].merchant].version
        /\ a.req \in UpdateReqs => a.version = req[a.req].version

\* The inductive invariant of the gateway and the merchant service.
GatewayInv ==
    /\ GatewayTypeOK
    /\ \A r \in Reqs : HandlerInv(r) /\ ServedInv(r)
    /\ \A k \in RedisKeys : entry[k] # "none" => ttl[k] > 0
    /\ MarksHold /\ OneAtATime
    /\ SuccessKept /\ OneSuccessPerKey
    /\ RecordsServed /\ ReplayIsEarned
    /\ VersionsPast /\ VersionSpentOnce
=============================================================================
