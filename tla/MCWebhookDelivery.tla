------------------------- MODULE MCWebhookDelivery -------------------------
(***************************************************************************)
(* Small instances of WebhookDelivery: events for one endpoint that the    *)
(* merchant creates, edits and deletes, and the statement about the delays *)
(* that the code does not keep.                                            *)
(***************************************************************************)
EXTENDS WebhookDelivery

(* "Exponential backoff: 1min, 5min, 30min" (webhook.service.ts:154): the  *)
(* k-th retry of a delivery waits for the k-th delay.                      *)
BackoffFollowed ==
    \A d \in Deliveries : \A k \in DOMAIN waits[d] : waits[d][k] = k
=============================================================================
