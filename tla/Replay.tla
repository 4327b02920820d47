------------------------------- MODULE Replay -------------------------------
(***************************************************************************)
(* Replay jobs (events.ReplayWorker): re-send named deliveries, or enqueue *)
(* anew every committed event of a time window that a webhook matches.     *)
(* One worker runs in every replica; ClaimPendingJobs is a plain SELECT.   *)
(***************************************************************************)
EXTENDS Subscriptions

CONSTANTS
  Replayer,     \* one replay worker per replica
  Job,          \* replay job ids
  ReplayLimit,  \* ReplayConfig.BatchLimit
  Orders        \* what POST .../replay asks for: [webhook, from, to, ids]

ASSUME ReplayLimitIsPositive == ReplayLimit \in Nat \ {0}

VARIABLES
  jobs,   \* webhook_replay_job: job -> row, or None
  run     \* what each worker is doing

replayVars == <<jobs, run>>

JobStatus == {"pending", "running", "completed", "failed"}

\* todo: jobs claimed; hook: the webhook as read; chains: still to visit;
\* at, seq, got: the chain, the local cursor and the batch read after it.
Resting == [pc |-> "idle", todo |-> {}, job |-> None, hook |-> None,
            chains |-> {}, at |-> None, seq |-> 0, got |-> 0, total |-> 0]

\* inWindow; a zero bound is open.
InWindow(e, o) ==
  /\ o.from = 0 \/ e.at >= o.from
  /\ o.to = 0 \/ e.at <= o.to

\* The deliveries a batch of replayWindow makes.
Replayed(b, o) ==
  {t \in {o.webhook} \X {b.at} \X ((b.seq + 1)..(b.seq + b.got)) :
     LET e == log[b.at][t[3]]
     IN InWindow(e, o) /\ Matches(b.hook, b.at, e)}

Order(w) == jobs[run[w].job].order

-----------------------------------------------------------------------------
\* replayWebhook: the webhook must exist when the request arrives.
CreateJob(j, o) ==
  /\ jobs[j] = None
  /\ subs[o.webhook] # None
  /\ jobs' = [jobs EXCEPT ![j] =
                [order |-> o, status |-> "pending", replayed |-> 0,
                 asOf |-> [x \in Chain |-> Len(log[x])]]]
  /\ UNCHANGED <<tableVars, faults, adminVars, run>>

ClaimPendingJobs(w) ==
  /\ run[w].pc = "idle"
  /\ \E j \in Job : jobs[j] # None /\ jobs[j].status = "pending"
  /\ run' = [run EXCEPT ![w] = [Resting EXCEPT !.pc = "next",
       !.todo = {j \in Job : jobs[j] # None /\ jobs[j].status = "pending"}]]
  /\ UNCHANGED <<tableVars, faults, adminVars, jobs>>

\* execute: UpdateJob writes the claimed row as "running", whatever it is now.
MarkRunning(w, j) ==
  /\ run[w].pc = "next"
  /\ j \in run[w].todo
  /\ jobs' = [jobs EXCEPT ![j].status = "running", ![j].replayed = 0]
  /\ run' = [run EXCEPT ![w].pc = "start", ![w].job = j]
  /\ UNCHANGED <<tableVars, faults, adminVars>>

\* run: Requeue by id, in one statement; deleted rows are not affected.
ReplayByIds(w) ==
  LET live == {d \in Order(w).ids \cap DOMAIN items :
                 items[d].status # "deleted"}
  IN /\ run[w].pc = "start"
     /\ Order(w).ids # {}
     /\ items' = Requeued(live)
     /\ run' = [run EXCEPT ![w].pc = "end", ![w].total = Cardinality(live)]
     /\ UNCHANGED <<log, subs, faults, adminVars, jobs>>

\* replayWindow: webhooks.Get; the job fails if the webhook is gone.
GetWebhook(w) ==
  /\ run[w].pc = "start"
  /\ Order(w).ids = {}
  /\ run' = [run EXCEPT ![w].pc =
               IF subs[Order(w).webhook] = None THEN "fail" ELSE "list",
             ![w].hook = subs[Order(w).webhook]]
  /\ UNCHANGED <<tableVars, faults, adminVars, jobs>>

\* replayWindow: ListChainIDs
ListReplayChains(w) ==
  /\ run[w].pc = "list"
  /\ run' = [run EXCEPT ![w].pc = "chain",
                        ![w].chains = {x \in Chain : log[x] # <<>>}]
  /\ UNCHANGED <<tableVars, faults, adminVars, jobs>>

\* replayWindow: the next chain from its start, or the end.
StartChain(w) ==
  /\ run[w].pc = "chain"
  /\ \/ /\ run[w].chains = {}
        /\ run' = [run EXCEPT ![w].pc = "end"]
     \/ \E x \in run[w].chains :
          run' = [run EXCEPT ![w].pc = "read", ![w].at = x, ![w].seq = 0,
                             ![w].chains = @ \ {x}]
  /\ UNCHANGED <<tableVars, faults, adminVars, jobs>>

\* replayWindow: ListEvents after the local cursor.
ReadBatch(w) ==
  LET left == Len(log[run[w].at]) - run[w].seq
      n == IF left < ReplayLimit THEN left ELSE ReplayLimit
  IN /\ run[w].pc = "read"
     /\ run' = [run EXCEPT ![w].pc = IF n = 0 THEN "chain" ELSE "put",
                           ![w].got = n]
     /\ UNCHANGED <<tableVars, faults, adminVars, jobs>>


\* replayWindow: Enqueue what matches; a short batch was the chain's last.
PutBatch(w) ==
  LET T == Replayed(run[w], Order(w))
  IN /\ run[w].pc = "put"
     /\ items' = Enqueued(T)
     /\ run' = [run EXCEPT
          ![w].pc = IF run[w].got < ReplayLimit THEN "chain" ELSE "read",
          ![w].seq = @ + run[w].got,
          ![w].total = @ + Cardinality(T)]
     /\ UNCHANGED <<log, subs, faults, adminVars, jobs>>

\* The next job of the claim, or the next pass.
NextJob(w, j) ==
  IF run[w].todo = {j} THEN Resting
  ELSE [Resting EXCEPT !.pc = "next", !.todo = run[w].todo \ {j}]

\* Mutant: only success is written down.
FinishSuccess(w) ==
  /\ run[w].pc \in {"end", "fail"}
  /\ jobs' = IF run[w].pc = "end"
               THEN [jobs EXCEPT ![run[w].job].status = "completed"] ELSE jobs
  /\ run' = [run EXCEPT ![w] = NextJob(w, run[w].job)]
  /\ UNCHANGED <<tableVars, faults, adminVars>>

\* execute: UpdateJob with the outcome.
FinishJob(w) ==
  /\ run[w].pc \in {"end", "fail"}
  /\ jobs' = [jobs EXCEPT
       ![run[w].job].status =
         IF run[w].pc = "end" THEN "completed" ELSE "failed",
       ![run[w].job].replayed = run[w].total]
  /\ run' = [run EXCEPT ![w] = NextJob(w, run[w].job)]
  /\ UNCHANGED <<tableVars, faults, adminVars>>

\* execute: an UpdateJob that fails leaves the row as it is.
UpdateJobFails(w) ==
  /\ Fault("mark")
  /\ \/ /\ run[w].pc = "next"
        /\ \E j \in run[w].todo : run' = [run EXCEPT ![w] = NextJob(w, j)]
     \/ /\ run[w].pc \in {"end", "fail"}
        /\ run' = [run EXCEPT ![w] = NextJob(w, run[w].job)]
  /\ UNCHANGED <<tableVars, adminVars, jobs>>

\* A call of run fails: the job is failed with what was replayed so far.
ReplayCallFails(w) ==
  /\ Fault("call")
  /\ run[w].pc \in {"start", "list", "read", "put"}
  /\ run' = [run EXCEPT ![w].pc = "fail"]
  /\ UNCHANGED <<tableVars, adminVars, jobs>>

ReplayerStops(w) ==
  /\ Fault("crash")
  /\ run[w].pc # "idle"
  /\ run' = [run EXCEPT ![w] = Resting]
  /\ UNCHANGED <<tableVars, adminVars, jobs>>

ReplayStep(w) ==
  \/ ClaimPendingJobs(w)
  \/ \E j \in Job : MarkRunning(w, j)
  \/ ReplayByIds(w) \/ GetWebhook(w) \/ ListReplayChains(w) \/ StartChain(w)
  \/ ReadBatch(w) \/ PutBatch(w) \/ FinishJob(w)

ReplayFault(w) == UpdateJobFails(w) \/ ReplayCallFails(w) \/ ReplayerStops(w)

ReplayTypeOK ==
  /\ \A j \in Job :
       jobs[j] = None \/ /\ jobs[j].order \in Orders
                         /\ jobs[j].status \in JobStatus
                         /\ jobs[j].replayed \in Nat
  /\ \A w \in Replayer :
       /\ run[w].todo \subseteq Job /\ run[w].job \in Job \cup {None}
       /\ run[w].hook \in Subscription \cup {None}
       /\ run[w].chains \subseteq Chain /\ run[w].at \in Chain \cup {None}
       /\ run[w].seq \in Nat /\ run[w].got \in Nat /\ run[w].total \in Nat
=============================================================================
