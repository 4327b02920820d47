--------------------------- MODULE EventPipeline ---------------------------
(***************************************************************************)
(* From a committed audit event to a settled delivery: relays, dispatchers *)
(* and replay workers of every replica, administrators and retention, over *)
(* the same tables.  The policy subsystem is the instance without replay,  *)
(* requeueing and retention.                                               *)
(***************************************************************************)
EXTENDS Relay, Dispatcher, Replay, Functions

CONSTANTS
  Stable,      \* subscribers nobody edits
  InitialLog,  \* events per chain, already relayed, at the start
  MaxLog,      \* bound: events in all chains
  MaxRequeues, \* bound: retries an administrator asks for
  Retention    \* BOOLEAN: ONEOPS_WEBHOOK_RETENTION_HOURS > 0

ASSUME StableAreSubscribers == Stable \subseteq Subscriber

VARIABLE requeues  \* retries asked for so far

vars == <<tableVars, faults, adminVars, relayVars, dispatchVars, replayVars,
          requeues>>

-----------------------------------------------------------------------------
\* retryDelivery and retryDeadLetters
Requeue(S) ==
  /\ requeues < MaxRequeues
  /\ S # {}
  /\ items' = Requeued(S)
  /\ requeues' = requeues + 1
  /\ UNCHANGED <<log, subs>>

RetryDelivery ==
  \E d \in DOMAIN items : items[d].status # "deleted" /\ Requeue({d})

\* All webhooks, or one.
RetryDeadLetters ==
  \E W \in {Subscriber} \cup {{w} : w \in Subscriber} :
    Requeue({d \in DOMAIN items :
               items[d].status = "dead_letter" /\ d[1] \in W})

\* RetentionWorker.RunOnce: terminal rows older than the cutoff.
Prune ==
  /\ Retention
  /\ \E S \in SUBSET {d \in DOMAIN items : items[d].status \in Terminal} :
       S # {} /\ items' = Pruned(S)
  /\ UNCHANGED <<log, subs, requeues>>

-----------------------------------------------------------------------------
\* The relays have caught up with InitialLog events of every chain.
Init ==
  /\ log \in [Chain -> [1..InitialLog -> Event]]
  /\ subs \in [Subscriber -> Subscription \cup {None}]
  /\ \A w \in Stable : Enabled(w)
  /\ items = [d \in {q \in Subscriber \X Chain \X (1..InitialLog) \X {1} :
                      /\ Enabled(q[1])
                      /\ Matches(subs[q[1]], q[2], log[q[2]][q[3]])} |-> Fresh]
  /\ faults = <<>>
  /\ AdminInit
  /\ cursor = [x \in Chain |-> InitialLog]
  /\ pass = [r \in Worker |-> IdlePass]
  /\ batch = [p \in Sender |-> NoBatch] /\ accepted = {}
  /\ jobs = [j \in Job |-> None] /\ run = [w \in Replayer |-> Resting]
  /\ requeues = 0

Commits ==
  /\ SumFunction([x \in Chain |-> Len(log[x])]) < MaxLog
  /\ \E x \in Chain, e \in Event : Record(x, e)
  /\ UNCHANGED <<adminVars, relayVars, dispatchVars, replayVars, requeues>>

Administers ==
  /\ AdminNext(Subscriber \ Stable)
  /\ UNCHANGED <<relayVars, dispatchVars, replayVars, requeues>>

Retries ==
  /\ RetryDelivery \/ RetryDeadLetters
  /\ UNCHANGED <<faults, adminVars, relayVars, dispatchVars, replayVars>>

Cleans ==
  /\ Prune
  /\ UNCHANGED <<faults, adminVars, relayVars, dispatchVars, replayVars>>

Elapses ==
  /\ \E d \in DOMAIN items : BackoffElapses(d)
  /\ UNCHANGED <<adminVars, relayVars, dispatchVars, replayVars, requeues>>

Asks ==
  /\ \E j \in Job, o \in Orders : CreateJob(j, o)
  /\ UNCHANGED <<relayVars, dispatchVars, requeues>>

Relays(r) == RelayStep(r) /\ UNCHANGED <<dispatchVars, replayVars, requeues>>

Dispatches(p) ==
  /\ DispatchStep(p)
  /\ UNCHANGED <<relayVars, replayVars, requeues>>

Replays(w) ==
  /\ ReplayStep(w)
  /\ UNCHANGED <<relayVars, dispatchVars, requeues>>

Fails ==
  \/ /\ \E r \in Worker : RelayFault(r)
     /\ UNCHANGED <<dispatchVars, replayVars, requeues>>
  \/ /\ \E p \in Sender : DispatchFault(p)
     /\ UNCHANGED <<relayVars, replayVars, requeues>>
  \/ /\ \E w \in Replayer : ReplayFault(w)
     /\ UNCHANGED <<relayVars, dispatchVars, requeues>>

Next ==
  \/ Commits \/ Administers \/ Retries \/ Cleans \/ Elapses \/ Asks \/ Fails
  \/ \E r \in Worker : Relays(r)
  \/ \E p \in Sender : Dispatches(p)
  \/ \E w \in Replayer : Replays(w)

Spec == Init /\ [][Next]_vars

\* Tickers start pass after pass while the process runs, and time passes.
FairSpec ==
  /\ Spec
  /\ \A r \in Worker : WF_vars(Relays(r))
  /\ \A p \in Sender : WF_vars(Dispatches(p))
  /\ \A w \in Replayer : WF_vars(Replays(w))
  /\ WF_vars(Elapses)

-----------------------------------------------------------------------------
TypeOK ==
  /\ OutboxTypeOK /\ AdminTypeOK /\ RelayTypeOK /\ DispatchTypeOK
  /\ ReplayTypeOK
  /\ requeues \in Nat

Queued(w, x, i) ==
  \E d \in DOMAIN items : d[1] = w /\ d[2] = x /\ d[3] = i

\* "A chain's cursor only advances past events whose deliveries were durably
\* enqueued" (RunOnce): for a subscriber nobody edits, every matching event up
\* to the cursor has its row, whatever relays run, crash or move the cursor
\* back, and the cursor never passes the end of the chain.
NoGapBelowCursor ==
  \A x \in Chain :
    /\ cursor[x] <= Len(log[x])
    /\ \A w \in Stable : \A i \in 1..cursor[x] :
         Matches(subs[w], x, log[x][i]) => Queued(w, x, i)


\* The same promise to a subscriber somebody has edited, from the moment of its
\* last edit on: an event committed while it was enabled is not passed over
\* ("Delivery is at-least-once", docs/runbooks/event-delivery.md:33).
EnabledMissesNothing ==
  \A w \in Subscriber, x \in Chain :
    Enabled(w) => \A i \in (since[w][x] + 1)..cursor[x] :
                    Matches(subs[w], x, log[x][i]) => Queued(w, x, i)

\* Every committed event is queued for a matching subscriber nobody edits, for
\* all that relays fail, overlap and set one another's cursors back.
EveryEventQueued ==
  \A w \in Stable, x \in Chain, i \in 1..MaxLog :
    i <= Len(log[x]) /\ Matches(subs[w], x, log[x][i]) ~> Queued(w, x, i)

-----------------------------------------------------------------------------
\* A row says "delivered" ("succeeded") only if the endpoint took the event (the
\* action took effect): attempt marks it after the answer, and no overlap of
\* replicas, retry or stale result says so for a row that was never taken.
DeliveredWasAccepted ==
  \A d \in DOMAIN items : items[d].status = "delivered" => d \in accepted

\* A dead letter has no subscriber, or used up its budget ("The subscriber is
\* gone; the delivery can never succeed", events/dispatcher.go:120): retries,
\* stale results and lost ones never end a delivery early.  The exception is a
\* webhooks.Get that failed, which attempt takes for a subscriber that is gone.
DeadLetterIsExhausted ==
  \A d \in DOMAIN items :
    items[d].status = "dead_letter" /\ d[1] \in Stable =>
      items[d].retry >= subs[d[1]].maxRetries \/ Happened({"lookup"})

\* Every row settles for good: it is delivered, dead-lettered or pruned in the
\* end, although the slower of two replicas may set a terminal row back to
\* "failed", or its retry count to an older one.
EveryDeliverySettles ==
  \A w \in Subscriber, x \in Chain, i \in 1..MaxLog, n \in 1..2 :
    LET d == <<w, x, i, n>>
    IN d \in DOMAIN items ~>
         [](d \in DOMAIN items /\ items[d].status \notin InFlight)

\* From the commit to the end: every committed event a subscriber nobody edits
\* matches is taken by it or ends among its dead letters.
EveryEventSettles ==
  \A w \in Stable, x \in Chain, i \in 1..MaxLog :
    i <= Len(log[x]) /\ Matches(subs[w], x, log[x][i]) ~>
      \E d \in DOMAIN items :
        /\ d[1] = w /\ d[2] = x /\ d[3] = i
        /\ d \in accepted \/ items[d].status = "dead_letter"

-----------------------------------------------------------------------------

Ended == {"completed", "failed"}

\* Every job ends for good ("a replay job (executed asynchronously by the replay
\* worker)", httpapi/handlers_webhooks_consume.go:72), although the slower of
\* two workers sets an ended job back to "running", unless a worker dies in it
\* or an UpdateJob fails: nothing claims a job that was left "running".
EveryJobEnds ==
  \A j \in Job :
    jobs[j] # None ~> \/ [](jobs[j] # None /\ jobs[j].status \in Ended)
                      \/ Happened({"crash", "mark"})
=============================================================================
