----------------------------- MODULE AuditChain -----------------------------
(***************************************************************************)
(* The audit appender: what Governance does in one step, AppendTx, as the  *)
(* statements it is made of, over the head row and the event rows of each  *)
(* chain.  A hash is the tuple it is computed from, so SHA-256 is taken to *)
(* have no collisions.                                                     *)
(***************************************************************************)
EXTENDS Integers, FiniteSets

CONSTANTS
  Appender,   \* transactions that append
  Chain,      \* chain ids
  Inputs,     \* audit.AppendInput values
  Micro,      \* nanoseconds in a microsecond
  None

\* A time is microseconds and the nanoseconds on top of them.
Time == [us : Nat, ns : 0 .. Micro - 1]

ASSUME AuditAssumption ==
  /\ Micro \in Nat \ {0}
  /\ None \notin Appender
  /\ \A i \in Inputs : i.chain \in Chain /\ i.at \in Time

VARIABLES
  head,    \* committed audit_chain_head row of each chain
  events,  \* committed audit_event rows of each chain
  written, \* every row ever committed, as it was
  lock,    \* the open transaction that locked or inserted the head row
  pc,      \* position of a transaction in AppendTx
  in,      \* its input
  tip      \* the head it read

chainVars == <<head, events, written, lock, pc, in, tip>>

HeadRow(n, h) == [seq |-> n, hash |-> h]
GenesisPrevHash == <<>>

\* Mutant: numbers start at 0.
GenesisBeforeZero == HeadRow(-1, GenesisPrevHash)

\* Stands for no row: none is committed before its first event is.
GenesisHead == HeadRow(0, GenesisPrevHash)

\* What is hashed: every column but operation_id and the derived payload.
ChainHash(c, n, e, at, prev) == <<prev, c, n, e.id, e.op, at>>

\* time.Truncate(time.Microsecond), and the rounding of timestamptz.
Truncate(t) == [us |-> t.us, ns |-> 0]
Timestamptz(t) ==
  [us |-> IF 2 * t.ns >= Micro THEN t.us + 1 ELSE t.us, ns |-> 0]

\* Mutant: hashes the time before it is truncated.
NewEventHashedFirst(i, h) ==
  LET n == h.seq + 1
  IN [seq |-> n, id |-> i.id, op |-> i.op, at |-> Timestamptz(i.at),
      prev |-> h.hash, this |-> ChainHash(i.chain, n, i, i.at, h.hash)]

\* The row an append on head h inserts, as the database stores it.
NewEvent(i, h) ==
  LET at == Truncate(i.at)
      n == h.seq + 1
  IN [seq |-> n, id |-> i.id, op |-> i.op, at |-> Timestamptz(at),
      prev |-> h.hash, this |-> ChainHash(i.chain, n, i, at, h.hash)]

\* pk_audit_event, uq_audit_event_id and uq_audit_this_hash.
Conflicts(r, q) == r.seq = q.seq \/ r.id = q.id \/ r.this = q.this

ChainInit ==
  /\ head = [c \in Chain |-> GenesisHead]
  /\ events = [c \in Chain |-> {}]
  /\ written = [c \in Chain |-> {}]
  /\ lock = [c \in Chain |-> None]
  /\ pc = [t \in Appender |-> "idle"]
  /\ in = [t \in Appender |-> None]
  /\ tip = [t \in Appender |-> None]

\* Mutant: an insert that does not wait for an uncommitted one.
EnsureNoWait(t, i) ==
  /\ pc[t] = "idle"
  /\ lock' = [lock EXCEPT ![i.chain] =
                IF head[i.chain] = GenesisHead /\ @ = None THEN t ELSE @]
  /\ pc' = [pc EXCEPT ![t] = "ensured"]
  /\ in' = [in EXCEPT ![t] = i]
  /\ UNCHANGED <<head, events, written, tip>>

\* INSERT ... ON CONFLICT DO NOTHING waits for an uncommitted insert of the
\* same row, and inserts the row unless it is there.
EnsureChainHead(t, i) ==
  /\ pc[t] = "idle"
  /\ head[i.chain] = GenesisHead => lock[i.chain] = None
  /\ lock' = [lock EXCEPT ![i.chain] = IF head[i.chain] = GenesisHead THEN t ELSE @]
  /\ pc' = [pc EXCEPT ![t] = "ensured"]
  /\ in' = [in EXCEPT ![t] = i]
  /\ UNCHANGED <<head, events, written, tip>>

\* Mutant: ReadChainHead with forUpdate = false.
ReadUnlocked(t) ==
  /\ pc[t] = "ensured"
  /\ tip' = [tip EXCEPT ![t] = head[in[t].chain]]
  /\ pc' = [pc EXCEPT ![t] = "locked"]
  /\ UNCHANGED <<head, events, written, lock, in>>

\* SELECT ... FOR UPDATE waits for the lock, then reads the latest row.
ReadChainHead(t) ==
  LET c == in[t].chain
  IN /\ pc[t] = "ensured"
     /\ lock[c] \in {None, t}
     /\ lock' = [lock EXCEPT ![c] = t]
     /\ tip' = [tip EXCEPT ![t] = head[c]]
     /\ pc' = [pc EXCEPT ![t] = "locked"]
     /\ UNCHANGED <<head, events, written, in>>

\* Commit and rollback end the transaction and its lock.
End(t) ==
  /\ lock' = [c \in Chain |-> IF lock[c] = t THEN None ELSE lock[c]]
  /\ pc' = [pc EXCEPT ![t] = "idle"]
  /\ in' = [in EXCEPT ![t] = None]
  /\ tip' = [tip EXCEPT ![t] = None]

\* The event and the advanced head, which no one sees before the commit.
AppendAuditEvent(t) ==
  /\ pc[t] = "locked"
  /\ \A q \in events[in[t].chain] : ~Conflicts(NewEvent(in[t], tip[t]), q)
  /\ pc' = [pc EXCEPT ![t] = "appended"]
  /\ UNCHANGED <<head, events, written, lock, in, tip>>

Commit(t) ==
  LET c == in[t].chain
      e == NewEvent(in[t], tip[t])
  IN /\ pc[t] = "appended"
     /\ events' = [events EXCEPT ![c] = @ \cup {e}]
     /\ written' = [written EXCEPT ![c] = @ \cup {e}]
     /\ head' = [head EXCEPT ![c] = HeadRow(e.seq, e.this)]
     /\ End(t)

\* A conflict, a failed statement, a cancelled request or a crash.
Rollback(t) ==
  /\ pc[t] # "idle"
  /\ End(t)
  /\ UNCHANGED <<head, events, written>>

AppendStep(t) ==
  \/ \E i \in Inputs : EnsureChainHead(t, i)
  \/ ReadChainHead(t)
  \/ AppendAuditEvent(t)
  \/ Commit(t)
  \/ Rollback(t)

\* Not a step of the program, which has no UPDATE or DELETE of an event and
\* triggers against both: storage loses a row, or changes a column of it.
Damage(c, e) ==
  /\ \/ events' = [events EXCEPT ![c] = @ \ {e}]
     \/ \E d \in {[e EXCEPT !.op = "damaged"], [e EXCEPT !.at.us = @ + 1],
                  [e EXCEPT !.prev = <<"damaged">>],
                  [e EXCEPT !.this = <<"damaged">>]} :
          events' = [events EXCEPT ![c] = (@ \ {e}) \cup {d}]
  /\ UNCHANGED <<head, written, lock, pc, in, tip>>

AppendNext ==
  \/ \E t \in Appender : AppendStep(t)
  \/ \E c \in Chain : \E e \in events[c] : Damage(c, e)

AppendSpec == ChainInit /\ [][AppendNext]_chainVars
-----------------------------------------------------------------------------
\* A transaction that inserted or locked the head row keeps every other from
\* it until it ends, so the head it read is still the head when it appends
\* (EnsureChainHead, then ReadChainHead FOR UPDATE).
HoldsHead ==
  \A t \in Appender :
    /\ pc[t] # "idle" /\ head[in[t].chain] = GenesisHead =>
         lock[in[t].chain] = t
    /\ pc[t] \in {"locked", "appended"} =>
         lock[in[t].chain] = t /\ tip[t] = head[in[t].chain]

\* The rows are the chain that ends in head h: numbered from 1 without
\* a gap or a fork, each hashed over its own columns and its predecessor.
Linked(c, rows, h) ==
  /\ {r.seq : r \in rows} = 1 .. h.seq
  /\ \A q, r \in rows : q.seq = r.seq => q = r
  /\ \A r \in rows :
       /\ r.this = ChainHash(c, r.seq, r, r.at, r.prev)
       /\ r.seq = 1 => r.prev = GenesisPrevHash
       /\ r.seq = h.seq => r.this = h.hash
  /\ \A q, r \in rows : r.seq = q.seq + 1 => r.prev = q.this

\* However appends interleave and fail, and whatever happens to the rows
\* later, what was written is one chain up to the head row (AppendTx: ensure,
\* lock, hash, insert and advance in one transaction).
ChainsAreLinked == \A c \in Chain : Linked(c, written[c], head[c])
=============================================================================
