-------------------------- MODULE MCWebhookService --------------------------
(***************************************************************************)
(* Instances of WebhookService for TLC, and what the documents say of the  *)
(* notifications.                                                          *)
(***************************************************************************)
EXTENDS WebhookService, TLC

CONSTANTS e1, e2, s1, s2

\* docs/outbox.md, "never diverge": a message whose offset is committed has led to
\* a row for every endpoint that matched it.
ConsumedIsPersisted ==
    \A o \in Offsets, e \in Matching : o < committed => row[<<o, e>>].status # "absent"
=============================================================================
