----------------------------- MODULE AuditProofs -----------------------------
(* Proofs about AuditChain, for any chains, transactions and inputs. *)
EXTENDS AuditChain, TLAPS

ChainTypes ==
  /\ head = [c \in Chain |-> head[c]]
  /\ \A c \in Chain :
       head[c].seq \in Nat /\ (head[c].seq = 0 => head[c].hash = GenesisPrevHash)
  /\ written = [c \in Chain |-> written[c]]
  /\ lock \in [Chain -> Appender \cup {None}]
  /\ pc = [t \in Appender |-> pc[t]]
  /\ in = [t \in Appender |-> in[t]]
  /\ tip = [t \in Appender |-> tip[t]]
  /\ \A t \in Appender : pc[t] # "idle" => in[t] \in Inputs

\* ChainsAreLinked alone is not inductive: a commit keeps a chain linked only
\* if the head its transaction read is still the head.
ChainInv == ChainTypes /\ HoldsHead /\ ChainsAreLinked

\* What is hashed is what is stored: a truncated time is not rounded again
\* (AppendTx normalises occurred_at before ChainHash).
LEMMA TruncatedIsStored ==
  ASSUME NEW i \in Inputs
  PROVE  Timestamptz(Truncate(i.at)) = Truncate(i.at)
  BY AuditAssumption DEF Timestamptz, Truncate, Time

\* The columns of an appended row, and that its hash is over its own columns.
LEMMA NewEventIsHashed ==
  ASSUME NEW i \in Inputs, NEW h
  PROVE  LET e == NewEvent(i, h)
         IN /\ e.seq = h.seq + 1
            /\ e.prev = h.hash
            /\ e.this = ChainHash(i.chain, e.seq, e, e.at, e.prev)
  BY TruncatedIsStored DEF NewEvent, ChainHash

\* Appending on the head of a linked chain leaves a linked chain.
LEMMA AppendKeepsLinked ==
  ASSUME NEW i \in Inputs, NEW rows, NEW h, h.seq \in Nat,
         h.seq = 0 => h.hash = GenesisPrevHash,
         Linked(i.chain, rows, h)
  PROVE  LET e == NewEvent(i, h)
         IN Linked(i.chain, rows \cup {e}, HeadRow(e.seq, e.this))
<1> DEFINE e == NewEvent(i, h)
           g == HeadRow(e.seq, e.this)
           c == i.chain
<1>1. /\ e.seq = h.seq + 1
      /\ e.prev = h.hash
      /\ e.this = ChainHash(c, e.seq, e, e.at, e.prev)
      /\ g.seq = h.seq + 1
      /\ g.hash = e.this
  BY NewEventIsHashed DEF HeadRow
<1>2. /\ {r.seq : r \in rows} = 1 .. h.seq
      /\ \A q, r \in rows : q.seq = r.seq => q = r
      /\ \A r \in rows :
           /\ r.this = ChainHash(c, r.seq, r, r.at, r.prev)
           /\ r.seq = 1 => r.prev = GenesisPrevHash
           /\ r.seq = h.seq => r.this = h.hash
      /\ \A q, r \in rows : r.seq = q.seq + 1 => r.prev = q.this
  BY DEF Linked
<1> HIDE DEF e, g, c
<1>3. \A r \in rows : r.seq \in 1 .. h.seq
  BY <1>2
<1>4. {r.seq : r \in rows \cup {e}} = 1 .. g.seq
  <2>1. {r.seq : r \in rows \cup {e}} = {r.seq : r \in rows} \cup {e.seq}
    OBVIOUS
  <2> QED BY <2>1, <1>1, <1>2
<1>5. \A q, r \in rows \cup {e} : q.seq = r.seq => q = r
  BY <1>1, <1>2, <1>3
<1>6. \A r \in rows \cup {e} :
        /\ r.this = ChainHash(c, r.seq, r, r.at, r.prev)
        /\ r.seq = 1 => r.prev = GenesisPrevHash
        /\ r.seq = g.seq => r.this = g.hash
  BY <1>1, <1>2, <1>3
<1>7. \A q, r \in rows \cup {e} : r.seq = q.seq + 1 => r.prev = q.this
  BY <1>1, <1>2, <1>3
<1> QED BY <1>4, <1>5, <1>6, <1>7 DEF Linked, e, g, c
-----------------------------------------------------------------------------
LEMMA InitInv == ChainInit => ChainInv
<1> SUFFICES ASSUME ChainInit PROVE ChainInv
  OBVIOUS
<1>1. ChainTypes /\ HoldsHead
  BY DEF ChainInit, ChainTypes, HoldsHead, GenesisHead, HeadRow
<1>2. ChainsAreLinked
  BY DEF ChainInit, ChainsAreLinked, Linked, GenesisHead, HeadRow
<1> QED BY <1>1, <1>2 DEF ChainInv

\* A step that commits nothing leaves the linked chains alone.
LEMMA SameChains ==
  ASSUME ChainsAreLinked, UNCHANGED <<head, written>>
  PROVE  ChainsAreLinked'
  BY DEF ChainsAreLinked, Linked, ChainHash

\* End(t) releases the locks of t and no other.
LEMMA EndReleases ==
  ASSUME NEW t \in Appender, ChainTypes, End(t)
  PROVE  /\ lock' \in [Chain -> Appender \cup {None}]
         /\ \A c \in Chain : lock[c] # t => lock'[c] = lock[c]
         /\ pc'[t] = "idle"
         /\ pc' = [u \in Appender |-> pc'[u]]
         /\ in' = [u \in Appender |-> in'[u]]
         /\ tip' = [u \in Appender |-> tip'[u]]
         /\ \A u \in Appender \ {t} :
              pc'[u] = pc[u] /\ in'[u] = in[u] /\ tip'[u] = tip[u]
  BY DEF End, ChainTypes

LEMMA CommitKeepsInv ==
  ASSUME NEW t \in Appender, ChainInv, Commit(t)
  PROVE  ChainInv'
<1> DEFINE c == in[t].chain
           e == NewEvent(in[t], tip[t])
<1>1. /\ in[t] \in Inputs
      /\ c \in Chain
      /\ lock[c] = t
      /\ tip[t] = head[c]
      /\ head[c].seq \in Nat
      /\ head[c].seq = 0 => head[c].hash = GenesisPrevHash
      /\ Linked(c, written[c], head[c])
  BY AuditAssumption
  DEF Commit, ChainInv, ChainTypes, HoldsHead, ChainsAreLinked
<1>2. e.seq = head[c].seq + 1
  BY <1>1, NewEventIsHashed
<1>3. /\ head' = [head EXCEPT ![c] = HeadRow(e.seq, e.this)]
      /\ written' = [written EXCEPT ![c] = @ \cup {e}]
      /\ End(t)
  BY DEF Commit
<1>4. Linked(c, written[c] \cup {e}, HeadRow(e.seq, e.this))
  BY <1>1, AppendKeepsLinked
<1> HIDE DEF c, e
<1>5. /\ head' = [d \in Chain |-> head'[d]]
      /\ written' = [d \in Chain |-> written'[d]]
      /\ head'[c] = HeadRow(e.seq, e.this)
      /\ written'[c] = written[c] \cup {e}
      /\ \A d \in Chain \ {c} : head'[d] = head[d] /\ written'[d] = written[d]
  BY <1>1, <1>3 DEF ChainInv, ChainTypes
<1>6. head'[c].seq \in Nat \ {0}
  BY <1>1, <1>2, <1>5 DEF HeadRow
<1>7. ChainTypes'
  BY <1>3, <1>5, <1>6, EndReleases DEF ChainInv, ChainTypes
<1>8. HoldsHead'
  <2> SUFFICES ASSUME NEW u \in Appender, pc'[u] # "idle"
               PROVE  /\ head'[in'[u].chain] = GenesisHead => lock'[in'[u].chain] = u
                      /\ pc'[u] \in {"locked", "appended"} =>
                           lock'[in'[u].chain] = u /\ tip'[u] = head'[in'[u].chain]
    BY DEF HoldsHead
  <2>1. u # t /\ pc'[u] = pc[u] /\ in'[u] = in[u] /\ tip'[u] = tip[u]
    BY <1>3, EndReleases DEF ChainInv
  <2>2. in[u].chain \in Chain
    BY <2>1, AuditAssumption DEF ChainInv, ChainTypes
  <2>3. CASE in[u].chain = c
    <3>1. pc[u] \notin {"locked", "appended"}
      BY <1>1, <2>1, <2>3 DEF ChainInv, HoldsHead
    <3>2. head'[c] # GenesisHead
      BY <1>6 DEF GenesisHead, HeadRow
    <3> QED BY <2>1, <2>3, <3>1, <3>2
  <2>4. CASE in[u].chain # c
    <3>1. head'[in[u].chain] = head[in[u].chain]
      BY <1>5, <2>2, <2>4
    <3>2. lock[in[u].chain] = u => lock'[in[u].chain] = u
      BY <1>3, <2>1, <2>2, EndReleases DEF ChainInv
    <3> QED BY <2>1, <3>1, <3>2 DEF ChainInv, HoldsHead
  <2> QED BY <2>3, <2>4
<1>9. ChainsAreLinked'
  BY <1>4, <1>5 DEF ChainInv, ChainsAreLinked, Linked, ChainHash
<1> QED BY <1>7, <1>8, <1>9 DEF ChainInv

LEMMA StepKeepsInv == ChainInv /\ [AppendNext]_chainVars => ChainInv'
<1> SUFFICES ASSUME ChainInv, [AppendNext]_chainVars PROVE ChainInv'
  OBVIOUS
<1> USE DEF ChainInv
<1>1. ASSUME NEW t \in Appender, NEW i \in Inputs, EnsureChainHead(t, i)
      PROVE  ChainInv'
  <2>1. i.chain \in Chain
    BY AuditAssumption
  <2>2. ChainTypes'
    BY <1>1, <2>1 DEF EnsureChainHead, ChainTypes
  <2>3. HoldsHead'
    <3> SUFFICES ASSUME NEW u \in Appender, pc'[u] # "idle"
                 PROVE  /\ head[in'[u].chain] = GenesisHead => lock'[in'[u].chain] = u
                        /\ pc'[u] \in {"locked", "appended"} =>
                             lock'[in'[u].chain] = u /\ tip[u] = head[in'[u].chain]
      BY <1>1 DEF EnsureChainHead, HoldsHead
    <3>1. CASE u = t
      BY <1>1, <2>1, <3>1 DEF EnsureChainHead, ChainTypes
    <3>2. CASE u # t
      <4>1. pc'[u] = pc[u] /\ in'[u] = in[u] /\ in[u].chain \in Chain
        BY <1>1, <3>2, AuditAssumption DEF EnsureChainHead, ChainTypes
      <4>2. lock[in[u].chain] = u => lock'[in[u].chain] = u
        BY <1>1, <2>1, <4>1, AuditAssumption DEF EnsureChainHead, ChainTypes
      <4> QED BY <4>1, <4>2 DEF HoldsHead
    <3> QED BY <3>1, <3>2
  <2>4. ChainsAreLinked'
    BY <1>1, SameChains DEF EnsureChainHead
  <2> QED BY <2>2, <2>3, <2>4
<1>2. ASSUME NEW t \in Appender, ReadChainHead(t)
      PROVE  ChainInv'
  <2>1. in[t] \in Inputs /\ in[t].chain \in Chain
    BY <1>2, AuditAssumption DEF ReadChainHead, ChainTypes
  <2>2. ChainTypes'
    BY <1>2, <2>1 DEF ReadChainHead, ChainTypes
  <2>3. HoldsHead'
    <3> SUFFICES ASSUME NEW u \in Appender, pc'[u] # "idle"
                 PROVE  /\ head[in[u].chain] = GenesisHead => lock'[in[u].chain] = u
                        /\ pc'[u] \in {"locked", "appended"} =>
                             lock'[in[u].chain] = u /\ tip'[u] = head[in[u].chain]
      BY <1>2 DEF ReadChainHead, HoldsHead
    <3>1. CASE u = t
      BY <1>2, <2>1, <3>1 DEF ReadChainHead, ChainTypes
    <3>2. CASE u # t
      <4>1. pc'[u] = pc[u] /\ tip'[u] = tip[u] /\ in[u].chain \in Chain
        BY <1>2, <3>2, AuditAssumption DEF ReadChainHead, ChainTypes
      <4>2. lock[in[u].chain] = u => lock'[in[u].chain] = u
        BY <1>2, <2>1, <3>2, <4>1, AuditAssumption DEF ReadChainHead, ChainTypes
      <4> QED BY <4>1, <4>2 DEF HoldsHead
    <3> QED BY <3>1, <3>2
  <2>4. ChainsAreLinked'
    BY <1>2, SameChains DEF ReadChainHead
  <2> QED BY <2>2, <2>3, <2>4
<1>3. ASSUME NEW t \in Appender, AppendAuditEvent(t)
      PROVE  ChainInv'
  <2>1. ChainTypes' /\ HoldsHead'
    BY <1>3 DEF AppendAuditEvent, ChainTypes, HoldsHead
  <2>2. ChainsAreLinked'
    BY <1>3, SameChains DEF AppendAuditEvent
  <2> QED BY <2>1, <2>2
<1>4. ASSUME NEW t \in Appender, Rollback(t)
      PROVE  ChainInv'
  <2>1. End(t) /\ UNCHANGED <<head, written>>
    BY <1>4 DEF Rollback
  <2>2. ChainTypes'
    BY <2>1, EndReleases DEF ChainTypes
  <2>3. HoldsHead'
    BY <2>1, EndReleases, AuditAssumption DEF ChainTypes, HoldsHead
  <2>4. ChainsAreLinked'
    BY <2>1, SameChains
  <2> QED BY <2>2, <2>3, <2>4
<1>5. ASSUME NEW c \in Chain, NEW e \in events[c], Damage(c, e)
      PROVE  ChainInv'
  <2>1. UNCHANGED <<head, written, lock, pc, in, tip>>
    BY <1>5 DEF Damage
  <2> QED BY <2>1, SameChains DEF ChainTypes, HoldsHead
<1>6. CASE UNCHANGED chainVars
  BY <1>6, SameChains DEF chainVars, ChainTypes, HoldsHead
<1> QED BY <1>1, <1>2, <1>3, <1>4, <1>5, <1>6, CommitKeepsInv
        DEF AppendNext, AppendStep

\* For any number of chains, transactions and inputs, and whatever storage
\* does to the event rows, appends never fork a chain or leave a gap in it,
\* and the head row is its last event (AppendTx).
THEOREM AuditChainsAreLinked == AppendSpec => []ChainsAreLinked
<1>1. ChainInv => ChainsAreLinked
  BY DEF ChainInv
<1> QED BY <1>1, InitInv, StepKeepsInv, PTL DEF AppendSpec

\* The head a transaction read under its lock is the head it advances.
THEOREM AppenderHoldsHead == AppendSpec => []HoldsHead
<1>1. ChainInv => HoldsHead
  BY DEF ChainInv
<1> QED BY <1>1, InitInv, StepKeepsInv, PTL DEF AppendSpec
=============================================================================
