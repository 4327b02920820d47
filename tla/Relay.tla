------------------------------- MODULE Relay -------------------------------
(***************************************************************************)
(* The workers that tail the committed audit log: events.Relay and         *)
(* policy.Consumer, whose RunOnce and tailChain are the same program over  *)
(* two sets of tables.  One runs in every replica of the control plane     *)
(* (the Helm chart deploys two), over shared cursors that nothing locks.   *)
(*                                                                         *)
(* Every database call is a step.  A pass keeps, from its first reads, the *)
(* chains still to visit and the subscriptions it saw.                     *)
(***************************************************************************)
EXTENDS Subscriptions

CONSTANTS
  Worker,      \* one relay per replica
  BatchLimit   \* RelayConfig.BatchLimit, ConsumerConfig.BatchLimit

ASSUME BatchLimitIsPositive == BatchLimit \in Nat \ {0}
ASSUME NoneIsNoChain == None \notin Chain

VARIABLES
  cursor,  \* webhook_cursor or policy_cursor: last_seq by chain
  pass     \* each relay's pass

relayVars == <<cursor, pass>>

Unsubscribed == [w \in Subscriber |-> None]

Pass ==
  [pc: {"idle", "chains", "tail", "read", "enqueue", "advance"},
   todo: SUBSET Chain,                                  \* chains not yet done
   snap: [Subscriber -> Subscription \cup {None}],      \* ListEnabled, as read
   at: Chain \cup {None},                               \* the chain being tailed
   from: Nat,                                           \* GetCursor, as read
   upto: Nat]                                           \* maxSeq of the batch

IdlePass == [pc |-> "idle", todo |-> {}, snap |-> Unsubscribed, at |-> None,
             from |-> 0, upto |-> 0]

\* The deliveries a pass makes of the events it read.
Selected(p) ==
  {t \in Subscriber \X {p.at} \X ((p.from + 1)..p.upto) :
     p.snap[t[1]] # None /\ Matches(p.snap[t[1]], t[2], log[t[2]][t[3]])}

-----------------------------------------------------------------------------
\* RunOnce: ListChainIDs.  A chain has a head row once it has an event.
ListChains(r) ==
  /\ pass[r].pc = "idle"
  /\ pass' = [pass EXCEPT ![r].pc = "chains",
                          ![r].todo = {x \in Chain : log[x] # <<>>}]
  /\ UNCHANGED <<tableVars, adminVars, cursor, faults>>

\* RunOnce: ListEnabled.  With nobody subscribed, cursors stay where they are.
ListEnabled(r) ==
  /\ pass[r].pc = "chains"
  /\ pass' = [pass EXCEPT ![r] =
       IF pass[r].todo # {} /\ \E w \in Subscriber : Enabled(w)
         THEN [pass[r] EXCEPT !.pc = "tail",
                 !.snap = [w \in Subscriber |->
                             IF Enabled(w) THEN subs[w] ELSE None]]
         ELSE IdlePass]
  /\ UNCHANGED <<tableVars, adminVars, cursor, faults>>

\* tailChain: GetCursor
GetCursor(r, x) ==
  /\ pass[r].pc = "tail"
  /\ x \in pass[r].todo
  /\ pass' = [pass EXCEPT ![r].pc = "read", ![r].at = x, ![r].from = cursor[x]]
  /\ UNCHANGED <<tableVars, adminVars, cursor, faults>>

\* Mutant: the pass ends with its first chain.
LastChain(r) == pass' = [pass EXCEPT ![r] = IdlePass]

\* The chain is finished, with or without success; the next one, or the next
\* pass, follows.
NextChain(r) ==
  pass' = [pass EXCEPT ![r] =
    IF pass[r].todo = {pass[r].at}
      THEN IdlePass
      ELSE [pass[r] EXCEPT !.pc = "tail", !.todo = @ \ {pass[r].at},
                           !.at = None, !.from = 0, !.upto = 0]]

\* tailChain: ListEvents reads at most BatchLimit events after the cursor.
ListEvents(r) ==
  LET n == Len(log[pass[r].at])
      m == pass[r].from + BatchLimit
  IN /\ pass[r].pc = "read"
     /\ IF n <= pass[r].from
          THEN NextChain(r)
          ELSE pass' = [pass EXCEPT ![r].pc = "enqueue",
                                    ![r].upto = IF n < m THEN n ELSE m]
     /\ UNCHANGED <<tableVars, adminVars, cursor, faults>>

\* tailChain: Enqueue; no statement is sent when nobody wants the events.
Enqueue(r) ==
  /\ pass[r].pc = "enqueue"
  /\ items' = Enqueued(Selected(pass[r]))
  /\ pass' = [pass EXCEPT ![r].pc = "advance"]
  /\ UNCHANGED <<log, subs, adminVars, cursor, faults>>

\* Mutant: the cursor goes to the head of the chain, not to the last event read.
SetCursorToHead(r) ==
  /\ pass[r].pc = "advance"
  /\ cursor' = [cursor EXCEPT ![pass[r].at] = Len(log[pass[r].at])]
  /\ NextChain(r)
  /\ UNCHANGED <<tableVars, adminVars, faults>>

\* tailChain: SetCursor, an upsert that overwrites whatever is there.
SetCursor(r) ==
  /\ pass[r].pc = "advance"
  /\ cursor' = [cursor EXCEPT ![pass[r].at] = pass[r].upto]
  /\ NextChain(r)
  /\ UNCHANGED <<tableVars, adminVars, faults>>

\* A failed call on one chain is logged and the pass goes on.
SkipChain(r) ==
  /\ Fault("call")
  /\ pass[r].pc \in {"read", "enqueue", "advance"}
  /\ NextChain(r)
  /\ UNCHANGED <<tableVars, adminVars, cursor>>

\* A failed list, a cancelled context or a crash ends the pass.
EndPass(r) ==
  /\ Fault("crash")
  /\ pass[r].pc # "idle"
  /\ pass' = [pass EXCEPT ![r] = IdlePass]
  /\ UNCHANGED <<tableVars, adminVars, cursor>>

-----------------------------------------------------------------------------
RelayStep(r) ==
  \/ ListChains(r) \/ ListEnabled(r)
  \/ \E x \in Chain : GetCursor(r, x)
  \/ ListEvents(r) \/ Enqueue(r) \/ SetCursor(r)

RelayFault(r) == SkipChain(r) \/ EndPass(r)

RelayTypeOK ==
  /\ cursor \in [Chain -> Nat]
  /\ pass \in [Worker -> Pass]
=============================================================================
