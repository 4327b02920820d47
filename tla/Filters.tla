------------------------------ MODULE Filters ------------------------------
(***************************************************************************)
(* Which committed events a webhook and a policy select.  An event carries *)
(* what the filters can tell apart; its resource is the chain it is on.    *)
(***************************************************************************)
LOCAL INSTANCE Naturals

\* len(xs) > 0 && !contains(xs, x) rules the event out.
Admits(xs, x) == xs = {} \/ x \in xs

\* Webhook.Matches
WebhookMatches(h, x, e) ==
  /\ h.enabled
  /\ Admits(h.operations, e.operation)
  /\ Admits(h.resources, x)

\* Evaluate and Condition.Matches.  A key the event lacks reads as "".
MetadataOf(e, k) == IF k \in DOMAIN e.metadata THEN e.metadata[k] ELSE ""

PolicyMatches(h, x, e) ==
  /\ h.enabled
  /\ Admits(h.operations, e.operation)
  /\ Admits(h.resources, x)
  /\ Admits(h.actors, e.actor)
  /\ \A k \in DOMAIN h.metadata : MetadataOf(e, k) = h.metadata[k]
=============================================================================
