----------------------------- MODULE Governance -----------------------------
(***************************************************************************)
(* Governed operations from the client to the commit: the SDK's retry loop *)
(* (sdk/client.go), the HTTP handler execGovernance, Engine.Execute and    *)
(* its PostgreSQL store and audit appender.                                *)
(*                                                                         *)
(* Every statement that can wait for another transaction is a step of its  *)
(* own: GetForUpdate, RecordEdge (whose foreign keys lock the successor),  *)
(* and the commit.  What a transaction has written stays in its own        *)
(* variables (seen, ev) until Commit makes it visible; an abort forgets    *)
(* it.                                                                     *)
(***************************************************************************)
EXTENDS Ledger

CONSTANT MaxRetries  \* ClientConfig.MaxRetries

ASSUME MaxRetriesIsNat == MaxRetries \in Nat

VARIABLES
  \* row locks
  rowLock,   \* FOR UPDATE holder of each row
  keyShare,  \* FOR KEY SHARE holders, taken by foreign-key checks
  \* one request per client
  pc, cmd,
  seen,      \* the row GetForUpdate returned, while the transaction lasts
  ev,        \* the event AppendTx has staged, while the transaction lasts
  outcome,   \* the last answer the client has
  attempt    \* the SDK's attempt number

lockVars == <<rowLock, keyShare>>
reqVars == <<pc, cmd, seen, ev, outcome, attempt>>
vars == <<obj, edges, chain, rowLock, keyShare,
          pc, cmd, seen, ev, outcome, attempt>>

PC == {"idle", "begun", "locked", "mutated", "linked", "audited", "replied"}

\* pc values between the first lock and the end of the transaction.
InTx == {"locked", "mutated", "linked", "audited"}

\* "error" is a 500 or a failed connection; "lost" is a response to a committed
\* operation that never reached the client.
Outcome == {"none", "ok", "bad_request", "not_found", "mismatch",
            "transition", "unsupported", "invalid", "dependents",
            "conflict", "error", "lost"}

\* do() retries a keyed request on a transport error, 429 or 5xx.
Retryable == {"error", "lost"}

-----------------------------------------------------------------------------
\* The end of c's transaction: its locks go, and so does what it kept.
Release(c) ==
  /\ rowLock' = [x \in Cfg |-> IF rowLock[x] = c THEN None ELSE rowLock[x]]
  /\ keyShare' = [x \in Cfg |-> keyShare[x] \ {c}]
  /\ seen' = [seen EXCEPT ![c] = None]
  /\ ev' = [ev EXCEPT ![c] = None]

Reply(c, code) ==
  /\ pc' = [pc EXCEPT ![c] = "replied"]
  /\ outcome' = [outcome EXCEPT ![c] = code]

\* Execute returns an error; the deferred Rollback forgets what was staged.
Fail(c, code) ==
  /\ Reply(c, code)
  /\ Release(c)
  /\ UNCHANGED <<dbVars, cmd, attempt>>

Advance(c, label) == pc' = [pc EXCEPT ![c] = label]

-----------------------------------------------------------------------------
\* execGovernance's own 400s, before the engine is called.
BadRequest(r) ==
  \/ r.op = "archiving" /\ r.target = ""
  \/ r.op = "extension" /\ r.successor = None

Issue(c, r) ==
  /\ pc[c] \in {"idle", "replied"}
  /\ cmd' = [cmd EXCEPT ![c] = r]
  /\ attempt' = [attempt EXCEPT ![c] = 1]
  /\ IF BadRequest(r)
       THEN Reply(c, "bad_request")
       ELSE Advance(c, "begun") /\ outcome' = [outcome EXCEPT ![c] = "none"]
  /\ UNCHANGED <<dbVars, lockVars, seen, ev>>

\* The SDK's do() loop sends the same request, with the same key, again.
Retry(c) ==
  /\ pc[c] = "replied"
  /\ outcome[c] \in Retryable
  /\ attempt[c] <= MaxRetries
  /\ attempt' = [attempt EXCEPT ![c] = @ + 1]
  /\ Advance(c, "begun")
  /\ UNCHANGED <<dbVars, lockVars, cmd, seen, ev, outcome>>

\* Mutant: a plain SELECT instead of FOR UPDATE.
RowNeverWaits(x) == TRUE

\* FOR UPDATE conflicts with every other lock on the row.
RowFree(x) == rowLock[x] = None /\ keyShare[x] = {}

\* GetForUpdate, the If-Match check and planTransition.
GetForUpdate(c) ==
  LET r == cmd[c] IN
  /\ pc[c] = "begun"
  /\ RowFree(r.cfg)
  /\ IF ~Exists(r.cfg)
       THEN Fail(c, "not_found")
     ELSE IF r.expected # 0 /\ obj[r.cfg].rv # r.expected
       THEN Fail(c, "mismatch")
     ELSE IF r.op \in Unsupported
       THEN Fail(c, "unsupported")
     ELSE IF ~Permitted(r, obj[r.cfg].dims)
       THEN Fail(c, "transition")
     ELSE /\ rowLock' = [rowLock EXCEPT ![r.cfg] = c]
          /\ seen' = [seen EXCEPT ![c] = obj[r.cfg]]
          /\ Advance(c, "locked")
          /\ UNCHANGED <<dbVars, keyShare, cmd, ev, outcome, attempt>>

\* Mutant: dependents are not counted.
MutateUncounted(c) ==
  /\ pc[c] = "locked"
  /\ Advance(c, "mutated")
  /\ UNCHANGED <<dbVars, lockVars, cmd, seen, ev, outcome, attempt>>

\* CountDependents and RemoveObject, or Validate and ApplyDimensions.
Mutate(c) ==
  LET r == cmd[c] IN
  /\ pc[c] = "locked"
  /\ IF r.op = "deletion" /\ Dependents(r.cfg) # {}
       THEN Fail(c, "dependents")
     ELSE IF r.op # "deletion" /\ ~Validate(Planned(r, seen[c].dims))
       THEN Fail(c, "invalid")
     ELSE /\ Advance(c, "mutated")
          /\ UNCHANGED <<dbVars, lockVars, cmd, seen, ev, outcome, attempt>>

\* The insert into dependency_edge; its foreign keys need a FOR KEY SHARE lock
\* on the successor, which waits for a transaction that holds it FOR UPDATE.
RecordEdge(c) ==
  LET r == cmd[c] IN
  /\ pc[c] = "mutated"
  /\ r.op = "extension"
  /\ rowLock[r.successor] \in {None, c}
  /\ IF <<r.successor, r.cfg>> \in edges
       THEN Fail(c, "conflict")
     ELSE IF ~Exists(r.successor)
       THEN Fail(c, "not_found")
     ELSE /\ keyShare' = [keyShare EXCEPT ![r.successor] = @ \cup {c}]
          /\ Advance(c, "linked")
          /\ UNCHANGED <<dbVars, rowLock, cmd, seen, ev, outcome, attempt>>

\* audit.Resolve and AppendTx.  The chain's head row is only locked by the
\* holder of the object's row, so its statements are one step here; module
\* AuditChain takes them apart.
AppendTx(c) ==
  LET r == cmd[c] IN
  /\ \/ pc[c] = "linked"
     \/ pc[c] = "mutated" /\ r.op # "extension"
  /\ IF r.id \in EventIds(r.cfg)
       THEN Fail(c, "conflict")
       ELSE /\ ev' = [ev EXCEPT ![c] =
                         ResultOf(c, r, seen[c], Len(chain[r.cfg]) + 1)]
            /\ Advance(c, "audited")
            /\ UNCHANGED <<dbVars, lockVars, cmd, seen, outcome, attempt>>

\* The client may never learn that the commit went through.
Commit(c) ==
  /\ pc[c] = "audited"
  /\ Apply(cmd[c], ev[c])
  /\ Release(c)
  /\ \E code \in {"ok", "lost"} : Reply(c, code)
  /\ UNCHANGED <<cmd, attempt>>

\* A lost connection, a cancelled context, a failed statement or a crash of the
\* control plane: PostgreSQL rolls back.
Abort(c) ==
  /\ pc[c] \in InTx \cup {"begun"}
  /\ Fail(c, "error")

WaitsFor(c, d) ==
  /\ c # d
  /\ pc[c] = "mutated" /\ cmd[c].op = "extension"
  /\ rowLock[cmd[c].successor] = d

\* Mutant: nothing breaks a cycle of waits.
NoVictim(c) == FALSE

\* PostgreSQL's deadlock detector ends one transaction of a cycle of waits.
DeadlockVictim(c) ==
  /\ \E S \in SUBSET Client :
       /\ c \in S
       /\ \A x \in S : /\ \E y \in S : WaitsFor(x, y)
                       /\ \E y \in S : WaitsFor(y, x)
  /\ Fail(c, "error")

-----------------------------------------------------------------------------
Init ==
  /\ LedgerInit
  /\ rowLock = [x \in Cfg |-> None]
  /\ keyShare = [x \in Cfg |-> {}]
  /\ pc = [c \in Client |-> "idle"]
  /\ cmd = [c \in Client |-> None]
  /\ seen = [c \in Client |-> None]
  /\ ev = [c \in Client |-> None]
  /\ outcome = [c \in Client |-> "none"]
  /\ attempt = [c \in Client |-> 0]

\* The engine's own progress: what runs without the caller.
Step(c) ==
  GetForUpdate(c) \/ Mutate(c) \/ RecordEdge(c) \/ AppendTx(c) \/ Commit(c)

Next ==
  \E c \in Client :
    \/ \E r \in Requests : Issue(c, r)
    \/ Retry(c)
    \/ Step(c)
    \/ DeadlockVictim(c)
    \/ Abort(c)

Spec == Init /\ [][Next]_vars

(***************************************************************************)
(* Fairness.  A handler goroutine keeps running its statements, and a      *)
(* waiting statement is granted its lock in turn (PostgreSQL queues lock   *)
(* requests), hence strong fairness of a client's own steps; the deadlock  *)
(* detector fires after deadlock_timeout.  Nothing makes a caller send,    *)
(* retry or fail.                                                          *)
(***************************************************************************)
Fairness ==
  \A c \in Client : SF_vars(Step(c)) /\ WF_vars(DeadlockVictim(c))

FairSpec == Spec /\ Fairness

-----------------------------------------------------------------------------
\* Type invariant: the committed state, locks and requests in flight.
TypeOK ==
  /\ LedgerTypeOK
  /\ rowLock \in [Cfg -> Client \cup {None}]
  /\ keyShare \in [Cfg -> SUBSET Client]
  /\ pc \in [Client -> PC]
  /\ cmd \in [Client -> Requests \cup {None}]
  /\ seen \in [Client -> Row \cup {None}]
  /\ ev \in [Client -> Event \cup {None}]
  /\ outcome \in [Client -> Outcome]
  /\ attempt \in [Client -> Nat]

\* What a transaction read and checked is still so when it commits, whatever the
\* others commit meanwhile: the row is the one it saw, its If-Match, transition,
\* dependents, successor and key checks would come out the same.
DecisionHolds(c) ==
  LET r == cmd[c]
      x == cmd[c].cfg
  IN /\ rowLock[x] = c
     /\ Exists(x) /\ seen[c] = obj[x]
     /\ r.expected \in {0, obj[x].rv}
     /\ Permitted(r, obj[x].dims)
     /\ pc[c] # "locked" =>
          IF r.op = "deletion" THEN Dependents(x) = {}
                               ELSE Validate(Planned(r, obj[x].dims))
     /\ pc[c] \in {"linked", "audited"} /\ r.op = "extension" =>
          /\ c \in keyShare[r.successor]
          /\ Exists(r.successor)
          /\ <<r.successor, x>> \notin edges
     /\ pc[c] = "audited" =>
          /\ r.id \notin EventIds(x)
          /\ ev[c] = ResultOf(c, r, obj[x], Len(chain[x]) + 1)

\* The row locks keep every open transaction's decision valid (GetForUpdate's
\* FOR UPDATE and the foreign keys' FOR KEY SHARE taken together).
DecisionStillHolds == \A c \in Client : pc[c] \in InTx => DecisionHolds(c)

\* A 200 means what it says: the caller's own operation is in the chain, under
\* its key, and an If-Match request was applied to exactly the version it
\* named, whatever ran between its read and its commit.
OkMeansRecorded ==
  \A c \in Client : outcome[c] = "ok" =>
    \E i \in DOMAIN chain[cmd[c].cfg] : LET e == chain[cmd[c].cfg][i] IN
      /\ e.id = cmd[c].id /\ e.op = cmd[c].op /\ e.actor = c
      /\ cmd[c].expected # 0 => e.removed \/ e.rv = cmd[c].expected + 1

\* Every request that reaches the engine is answered: lock waits, also the
\* crossed waits of two Extensions, always end (Execute's single transaction).
EveryRequestAnswered ==
  \A c \in Client : pc[c] = "begun" ~> pc[c] = "replied"
=============================================================================
