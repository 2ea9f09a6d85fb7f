----------------------------- MODULE AtLeastOnce -----------------------------
(***************************************************************************)
(* What the transactional outbox promises its users: an event accepted     *)
(* with a business transaction may be delivered any number of times, and   *)
(* is written off only after it was delivered.                             *)
(***************************************************************************)
CONSTANT Events

VARIABLES accepted, delivered, writtenOff

aloVars == <<accepted, delivered, writtenOff>>

ALOInit == accepted = {} /\ delivered = {} /\ writtenOff = {}

Accept(e) ==
    /\ e \notin accepted
    /\ accepted' = accepted \cup {e}
    /\ UNCHANGED <<delivered, writtenOff>>

Deliver(e) ==
    /\ e \in accepted
    /\ delivered' = delivered \cup {e}
    /\ UNCHANGED <<accepted, writtenOff>>

WriteOff(S) ==
    /\ S \subseteq delivered
    /\ writtenOff' = writtenOff \cup S
    /\ UNCHANGED <<accepted, delivered>>

ALONext ==
    \/ \E e \in Events : Accept(e) \/ Deliver(e)
    \/ \E S \in SUBSET Events : WriteOff(S)

ALOSpec == ALOInit /\ [][ALONext]_aloVars
=============================================================================
