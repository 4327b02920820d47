----------------------------- MODULE Dispatcher -----------------------------
(***************************************************************************)
(* The workers that work off the rows: events.Dispatcher and               *)
(* policy.Executor, the same program up to what an attempt is (an HTTP     *)
(* POST, or a registered action).  One runs in every replica.  An executed *)
(* policy's "succeeded" is "delivered" here.                               *)
(*                                                                         *)
(* A batch is read once; each of its rows is then attempted from what was  *)
(* read, however the row has changed since.                                *)
(***************************************************************************)
EXTENDS Subscriptions

CONSTANTS
  Sender,      \* one dispatcher per replica
  ClaimLimit   \* DispatcherConfig.BatchLimit, ExecutorConfig.BatchLimit

ASSUME ClaimLimitIsPositive == ClaimLimit \in Nat \ {0}

VARIABLES
  batch,    \* each dispatcher's batch and the attempt it is in
  accepted  \* ids the endpoint took, or whose action took effect

dispatchVars == <<batch, accepted>>

\* claim: retry_count as read, by row still to attempt.
NoBatch == [pc |-> "idle", claim |-> <<>>, at |-> None, max |-> 0,
            status |-> "pending", retry |-> 0]

BatchTypeOK(b) ==
  /\ b.pc \in {"idle", "lookup", "send", "mark"}
  /\ DOMAIN b.claim \subseteq DOMAIN items
  /\ \A d \in DOMAIN b.claim : b.claim[d] \in Nat
  /\ b.at \in DOMAIN items \cup {None}
  /\ b.max \in Nat /\ b.status \in Status /\ b.retry \in Nat

\* The attempt's outcome is known; MarkResult is next.
Staged(b, d, status, retry) ==
  [b EXCEPT !.pc = "mark", !.at = d, !.status = status, !.retry = retry]

\* The attempt is over: the next row of the batch, or the next batch.
Finished(b) ==
  IF DOMAIN b.claim = {b.at} THEN NoBatch
  ELSE [NoBatch EXCEPT !.pc = "lookup",
          !.claim = [d \in DOMAIN b.claim \ {b.at} |-> b.claim[d]]]

-----------------------------------------------------------------------------
\* RunOnce: ClaimDue takes at most ClaimLimit rows.  Due times that differ are
\* not modelled, so which ones is open.
ClaimDue(p) ==
  /\ batch[p].pc = "idle"
  /\ Due # {}
  /\ \E S \in SUBSET Due :
       /\ S # {} /\ Cardinality(S) <= ClaimLimit
       /\ S = Due \/ Cardinality(S) = ClaimLimit
       /\ batch' = [batch EXCEPT ![p] = [NoBatch EXCEPT !.pc = "lookup",
                      !.claim = [d \in S |-> items[d].retry]]]
  /\ UNCHANGED <<tableVars, faults, adminVars, accepted>>

\* attempt: webhooks.Get, policies.Get.  Whether the subscriber is enabled is not
\* asked again.
Lookup(p, d) ==
  /\ batch[p].pc = "lookup"
  /\ d \in DOMAIN batch[p].claim
  /\ batch' = [batch EXCEPT ![p] =
       IF subs[d[1]] = None
         THEN Staged(@, d, "dead_letter", @.claim[d])
         ELSE [@ EXCEPT !.pc = "send", !.at = d, !.max = subs[d[1]].maxRetries]]
  /\ UNCHANGED <<tableVars, faults, adminVars, accepted>>

\* attempt: any error of Get, not only "not found", ends in the dead letters.
LookupFails(p, d) ==
  /\ Fault("lookup")
  /\ batch[p].pc = "lookup"
  /\ d \in DOMAIN batch[p].claim
  /\ batch' = [batch EXCEPT ![p] = Staged(@, d, "dead_letter", @.claim[d])]
  /\ UNCHANGED <<tableVars, adminVars, accepted>>

\* Mutant: the budget ends one attempt early.
FailureEarly(b) ==
  LET n == b.claim[b.at] + 1
  IN Staged(b, b.at, IF n >= b.max - 1 THEN "dead_letter" ELSE "failed", n)

\* Mutant: the attempt is not counted.
FailureUncounted(b) == Staged(b, b.at, "failed", b.claim[b.at])


\* attempt: one failed send; the budget was read with the subscriber.
Failure(b) ==
  LET n == b.claim[b.at] + 1
  IN Staged(b, b.at, IF n >= b.max THEN "dead_letter" ELSE "failed", n)

\* Mutant: any answer counts as success.
SendAnyAnswer(p) ==
  /\ batch[p].pc = "send"
  /\ accepted' \in {accepted, accepted \cup {batch[p].at}}
  /\ batch' = [batch EXCEPT ![p] = Staged(@, @.at, "delivered", @.claim[@.at])]
  /\ UNCHANGED <<tableVars, faults, adminVars>>

\* attempt: the endpoint answers 2xx; or refuses, answers otherwise or panics;
\* or takes the event and its answer is lost (RequestTimeout).
Send(p) ==
  /\ batch[p].pc = "send"
  /\ \/ /\ accepted' = accepted \cup {batch[p].at}
        /\ batch' = [batch EXCEPT ![p] =
                       Staged(@, @.at, "delivered", @.claim[@.at])]
     \/ /\ accepted' \in {accepted, accepted \cup {batch[p].at}}
        /\ batch' = [batch EXCEPT ![p] = Failure(@)]
  /\ UNCHANGED <<tableVars, faults, adminVars>>

\* attempt: MarkResult
MarkResult(p) ==
  /\ batch[p].pc = "mark"
  /\ items' = Marked(batch[p].at, batch[p].status, batch[p].retry)
  /\ batch' = [batch EXCEPT ![p] = Finished(@)]
  /\ UNCHANGED <<log, subs, faults, adminVars, accepted>>

\* attempt drops the error of a MarkResult that fails.
MarkFails(p) ==
  /\ Fault("mark")
  /\ batch[p].pc = "mark"
  /\ batch' = [batch EXCEPT ![p] = Finished(@)]
  /\ UNCHANGED <<tableVars, adminVars, accepted>>

\* The process stops; the rows of its batch are as they were.
Stop(p) ==
  /\ Fault("crash")
  /\ batch[p].pc # "idle"
  /\ batch' = [batch EXCEPT ![p] = NoBatch]
  /\ UNCHANGED <<tableVars, adminVars, accepted>>

DispatchStep(p) ==
  \/ ClaimDue(p)
  \/ \E d \in DOMAIN batch[p].claim : Lookup(p, d)
  \/ Send(p) \/ MarkResult(p)

DispatchFault(p) ==
  \/ \E d \in DOMAIN batch[p].claim : LookupFails(p, d)
  \/ MarkFails(p) \/ Stop(p)

DispatchTypeOK ==
  /\ \A p \in Sender : BatchTypeOK(batch[p])
  /\ accepted \subseteq DOMAIN items
=============================================================================
