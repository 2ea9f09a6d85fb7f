--------------------------- MODULE MerchantService ---------------------------
(***************************************************************************)
(* The merchant service (crates/merchant-service/src/handlers.rs, db.rs)   *)
(* and the trigger on its table (migrations/007).  A request is in the     *)
(* hands of the service from the moment it is forwarded until it is        *)
(* answered, whether or not anybody still waits for the answer.  What a    *)
(* profile says is left out: its version stands for it.                    *)
(***************************************************************************)
EXTENDS Naturals, FiniteSets

CONSTANTS
    Merchants,
    UpdateReqs,      \* PATCH /merchants/:id
    RotateReqs,      \* POST /merchants/:id/rotate-key
    RegisterReqs,    \* POST /merchants/:id/webhooks
    Modes,           \* the two kinds of API key, live and test
    Keys,            \* values of the Idempotency-Key header
    Null             \* no such header

Reqs == UpdateReqs \cup RotateReqs \cup RegisterReqs

VARIABLES
    merchants,    \* table merchants: the version (0: no row) and, for each of the
                  \* two key columns, how many keys have been in it
    req,          \* what each request asks for
    served,       \* how far its service has come with it
    applied,      \* history: requests that changed the service's state, and the
                  \* version each of them found
    endpoints,    \* table webhook_endpoints, a row by the request that added it
    audit         \* table audit_log, a row by the rotation it is about

mvars == <<merchants, req, served, applied, endpoints, audit>>

\* The merchant (which a request names in its path as well), the idempotency key,
\* the API key by its kind and number, the version an update expects and the
\* kind of key a rotation replaces.
Request == [merchant: Merchants, key: Keys \cup {Null}, mode: Modes, apiKey: Nat,
            version: Nat, rotates: Modes]

ASSUME RequestsDisjoint ==
    /\ UpdateReqs \cap RotateReqs = {}
    /\ UpdateReqs \cap RegisterReqs = {}
    /\ RotateReqs \cap RegisterReqs = {}

\* Every variable of the service has its type.
MerchantTypeOK ==
    /\ merchants \in [Merchants -> [version: Nat, apiKey: [Modes -> Nat]]]
    /\ req \in [Reqs -> Request \cup {Null}]
    /\ served \in [Reqs -> {"no", "running", "rotated", "ok", "failed"}]
    /\ applied \subseteq [req: Reqs, version: Nat]
    /\ endpoints \subseteq RegisterReqs
    /\ audit \subseteq RotateReqs

MerchantInit ==
    /\ merchants = [m \in Merchants |-> [version |-> 0, apiKey |-> [d \in Modes |-> 0]]]
    /\ req = [r \in Reqs |-> Null]
    /\ served = [r \in Reqs |-> "no"]
    /\ applied = {}
    /\ endpoints = {}
    /\ audit = {}

\* create_merchant, which needs no API key.  The row and its merchant_balances row
\* are one transaction; the e-mail address is unique, so a merchant is created
\* once even if the re-read after the commit fails and the request is repeated.
CreateMerchant(m) ==
    /\ merchants[m].version = 0
    /\ merchants' = [merchants EXCEPT ![m] =
            [version |-> 1, apiKey |-> [d \in Modes |-> 1]]]
    /\ UNCHANGED <<req, served, applied, endpoints, audit>>

\* Mutant: the trigger on the table is missing.
NotBumped(version) == version

\* increment_version_column, BEFORE UPDATE ON merchants.
Bumped(version) == version + 1

\* An UPDATE of a merchant's row.
WriteRow(m, apiKey) ==
    merchants' = [merchants EXCEPT ![m] =
        [version |-> Bumped(merchants[m].version), apiKey |-> apiKey]]

Applied(r) ==
    applied' = applied \cup {[req |-> r, version |-> merchants[req[r].merchant].version]}

Expected(r) ==
    /\ merchants[req[r].merchant].version > 0
    /\ merchants[req[r].merchant].version = req[r].version

\* update_merchant: the UPDATE finds the row at the expected version.  The re-read
\* that makes up the answer may fail.
UpdateMerchant(r) ==
    /\ r \in UpdateReqs
    /\ served[r] = "running"
    /\ Expected(r)
    /\ WriteRow(req[r].merchant, merchants[req[r].merchant].apiKey)
    /\ Applied(r)
    /\ \E answer \in {"ok", "failed"} : served' = [served EXCEPT ![r] = answer]
    /\ UNCHANGED <<req, endpoints, audit>>

\* rotate_api_key: the UPDATE of the key column, then the audit row, each a
\* transaction of its own.
RotateKey(r) ==
    /\ r \in RotateReqs
    /\ served[r] = "running"
    /\ WriteRow(req[r].merchant,
                [merchants[req[r].merchant].apiKey EXCEPT ![req[r].rotates] = @ + 1])
    /\ Applied(r)
    /\ served' = [served EXCEPT ![r] = "rotated"]
    /\ UNCHANGED <<req, endpoints, audit>>

AuditRow(r) == audit \cup {r}

AuditRotation(r) ==
    /\ r \in RotateReqs
    /\ served[r] = "rotated"
    /\ audit' = AuditRow(r)
    /\ served' = [served EXCEPT ![r] = "ok"]
    /\ UNCHANGED <<merchants, req, applied, endpoints>>

RegisterWebhook(r) ==
    /\ r \in RegisterReqs
    /\ served[r] = "running"
    /\ endpoints' = endpoints \cup {r}
    /\ Applied(r)
    /\ served' = [served EXCEPT ![r] = "ok"]
    /\ UNCHANGED <<merchants, req, audit>>

\* An error answer: bad input, a version conflict, a failing statement, the
\* service's own timeout.  A rotation that is past its UPDATE is not taken back.
ServiceFails(r) ==
    /\ served[r] \in {"running", "rotated"}
    /\ served' = [served EXCEPT ![r] = "failed"]
    /\ UNCHANGED <<merchants, req, applied, endpoints, audit>>

ServiceStep(r) ==
    \/ UpdateMerchant(r) \/ RotateKey(r) \/ AuditRotation(r)
    \/ RegisterWebhook(r) \/ ServiceFails(r)

-----------------------------------------------------------------------------
(* Properties                                                              *)

\* Optimistic locking: an update is applied to the very row its client had seen.
\* Every write moves the version on, a rotation too, so no two of them, however
\* they race or are repeated, find the same version of a merchant.
VersionSpentOnce ==
    \A a, b \in applied :
        (/\ a.req \in UpdateReqs /\ b.req \in UpdateReqs \cup RotateReqs
         /\ req[a.req].merchant = req[b.req].merchant)
            => /\ a.version = req[a.req].version
               /\ a.version = b.version => a = b
=============================================================================
