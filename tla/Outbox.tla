------------------------------- MODULE Outbox -------------------------------
(***************************************************************************)
(* The tables behind the two consumers of the committed audit log: webhook *)
(* deliveries (webhook, webhook_delivery) and policy executions (policy,   *)
(* policy_execution).  Both have subscribers with a filter, and one row of *)
(* work per matching event, created by a relay (module Relay) and worked   *)
(* off by a dispatcher (module Dispatcher).  Each operation here is one    *)
(* SQL statement, or one batch in an implicit transaction.                 *)
(***************************************************************************)
EXTENDS Naturals, Sequences, FiniteSets

CONSTANTS
  None,          \* no such row
  Subscriber,    \* webhook or policy ids
  Chain,         \* audit chains, one per Configuration Object
  Event,         \* what filters can tell apart in an event
  Subscription,  \* the contents a webhook or policy row may have
  Matches(_, _, _),  \* Matches(h, x, e): h selects event e of chain x
  FaultKinds,    \* what may fail
  MaxFaults      \* bound: failed calls and crashes

ASSUME NoneIsNoSubscription == None \notin Subscription
ASSUME SubscriptionsAreRecords ==
  \A h \in Subscription : h.enabled \in BOOLEAN /\ h.maxRetries \in Nat \ {0}

ASSUME FaultsAreKinds ==
  /\ FaultKinds \subseteq {"call", "crash", "lookup", "mark"}
  /\ MaxFaults \in Nat

VARIABLES
  log,    \* audit_event: the committed events of each chain
  subs,   \* webhook or policy rows
  items,  \* webhook_delivery or policy_execution rows
  faults  \* the failures so far, by kind

tableVars == <<log, subs, items>>

\* A row as ListEnabled selects it.
Enabled(w) == subs[w] # None /\ subs[w].enabled

Status == {"pending", "failed", "delivered", "dead_letter", "deleted"}

InFlight == {"pending", "failed"}
Terminal == {"delivered", "dead_letter"}

\* due abstracts next_attempt_at <= now.  A deleted row keeps its place, as
\* "deleted", so that a property can still speak of it.
Item == [status: Status, retry: Nat, due: BOOLEAN]

\* A row's id is random in the code (newDeliveryID).  Here it is what the row is
\* for and the number of the copy, so that two rows never share an id.
ItemId == Subscriber \X Chain \X (Nat \ {0}) \X (Nat \ {0})

Copies(t) ==
  {d \in DOMAIN items : d[1] = t[1] /\ d[2] = t[2] /\ d[3] = t[3]}

\* Mutant: the first copy is number 0.
FreshIdFromZero(t) == <<t[1], t[2], t[3], Cardinality(Copies(t))>>

FreshId(t) == <<t[1], t[2], t[3], Cardinality(Copies(t)) + 1>>

Fresh == [status |-> "pending", retry |-> 0, due |-> TRUE]


\* Enqueue: the batch T of <<subscriber, chain, seq>> becomes pending rows.
Enqueued(T) ==
  LET new == {FreshId(t) : t \in T}
  IN [d \in DOMAIN items \cup new |-> IF d \in new THEN Fresh ELSE items[d]]

\* The ids ClaimDue may return.  It is a plain SELECT: it locks and marks nothing.
Due == {d \in DOMAIN items : items[d].status \in InFlight /\ items[d].due}

\* MarkResult updates the row by id alone, whatever its state is now; a deleted
\* row stays deleted.  Only a failed attempt moves next_attempt_at.
Marked(d, status, retry) ==
  IF items[d].status = "deleted" THEN items
  ELSE [items EXCEPT ![d] =
          [status |-> status, retry |-> retry,
           due |-> IF status = "failed" THEN FALSE ELSE @.due]]

\* Requeue and RequeueDeadLetters.
Requeued(S) == [d \in DOMAIN items |-> IF d \in S THEN Fresh ELSE items[d]]

\* DeleteOlderThan
Pruned(S) ==
  [d \in DOMAIN items |->
     IF d \in S THEN [items[d] EXCEPT !.status = "deleted"] ELSE items[d]]

-----------------------------------------------------------------------------
\* A call fails, or a process stops.
Fault(kind) ==
  /\ kind \in FaultKinds
  /\ Len(faults) < MaxFaults
  /\ faults' = Append(faults, kind)

Happened(kinds) == \E n \in DOMAIN faults : faults[n] \in kinds

\* A governed operation commits (module Ledger).
Record(x, e) ==
  /\ log' = [log EXCEPT ![x] = Append(@, e)]
  /\ UNCHANGED <<subs, items, faults>>

\* next_attempt_at of a failed row passes.
BackoffElapses(d) ==
  /\ items[d].status \in InFlight /\ ~items[d].due
  /\ items' = [items EXCEPT ![d].due = TRUE]
  /\ UNCHANGED <<log, subs, faults>>

OutboxTypeOK ==
  /\ log \in [Chain -> Seq(Event)]
  /\ subs \in [Subscriber -> Subscription \cup {None}]
  /\ DOMAIN items \subseteq ItemId
  /\ \A d \in DOMAIN items : items[d] \in Item
  /\ faults \in Seq(FaultKinds) /\ Len(faults) <= MaxFaults
=============================================================================
