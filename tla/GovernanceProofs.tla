-------------------------- MODULE GovernanceProofs --------------------------
(***************************************************************************)
(* Governance implements the atomic ledger, for every set of objects,      *)
(* callers, keys and requests and any number of transactions in flight,    *)
(* and so keeps the ledger's invariants.  The argument is the one the code *)
(* relies on: a transaction decides on rows it has locked, and the locks   *)
(* keep its decision valid until it commits.                               *)
(***************************************************************************)
EXTENDS Governance, LedgerProofs

\* A key-share lock never coexists with another transaction's FOR UPDATE.
LocksCompatible ==
  \A x \in Cfg : \A c \in keyShare[x] : rowLock[x] \in {None, c}

HasCommand == \A c \in Client : pc[c] # "idle" => cmd[c] \in Requests

\* The inductive invariant.
Inv == TypeOK /\ HasCommand /\ LocksCompatible /\ DecisionStillHolds

-----------------------------------------------------------------------------
\* A step of another transaction that commits nothing leaves a decision alone.
LEMMA DecisionFrame ==
  ASSUME Inv, NEW d \in Client, pc[d] \in InTx, UNCHANGED dbVars,
         pc'[d] = pc[d], cmd'[d] = cmd[d], seen'[d] = seen[d], ev'[d] = ev[d],
         \A x \in Cfg : rowLock[x] = d => rowLock'[x] = d,
         \A x \in Cfg : d \in keyShare[x] => d \in keyShare'[x]
  PROVE  DecisionHolds(d)'
<1>1. DecisionHolds(d) /\ cmd[d] \in Requests
  BY DEF Inv, DecisionStillHolds, HasCommand, InTx
<1>2. cmd[d].cfg \in Cfg /\ cmd[d].successor \in Cfg \cup {None}
  BY <1>1, RequestsAreCommands DEF Command
<1>3. rowLock'[cmd[d].cfg] = d
  BY <1>1, <1>2 DEF DecisionHolds
<1>4. cmd[d].op = "extension" => cmd[d].successor \in Cfg
  BY <1>1, <1>2 DEF DecisionHolds, Permitted
<1>5. UNCHANGED <<obj, edges, chain>>
  BY DEF dbVars
<1>6. pc[d] \in {"linked", "audited"} /\ cmd[d].op = "extension" =>
        d \in keyShare'[cmd[d].successor]
  BY <1>1, <1>4 DEF DecisionHolds
<1>7. /\ obj'[cmd[d].cfg] # None /\ seen'[d] = obj'[cmd[d].cfg]
      /\ cmd[d].expected \in {0, obj'[cmd[d].cfg].rv}
      /\ Permitted(cmd[d], obj'[cmd[d].cfg].dims)
  BY <1>1, <1>5 DEF DecisionHolds, Exists
<1>8. pc[d] # "locked" =>
        IF cmd[d].op = "deletion" THEN {e \in edges' : e[2] = cmd[d].cfg} = {}
        ELSE Validate(Planned(cmd[d], obj'[cmd[d].cfg].dims))
  BY <1>1, <1>5 DEF DecisionHolds, Dependents
<1>9. pc[d] \in {"linked", "audited"} /\ cmd[d].op = "extension" =>
        /\ obj'[cmd[d].successor] # None
        /\ <<cmd[d].successor, cmd[d].cfg>> \notin edges'
  BY <1>1, <1>5 DEF DecisionHolds, Exists
<1>10. pc[d] = "audited" =>
        /\ cmd[d].id \notin {chain'[cmd[d].cfg][i].id :
                               i \in DOMAIN chain'[cmd[d].cfg]}
        /\ ev'[d] = ResultOf(d, cmd[d], obj'[cmd[d].cfg],
                             Len(chain'[cmd[d].cfg]) + 1)
  BY <1>1, <1>5 DEF DecisionHolds, EventIds
<1>11. QED
  BY <1>3, <1>6, <1>7, <1>8, <1>9, <1>10
     DEF DecisionHolds, Exists, Dependents, EventIds

\* A step that fails a request keeps the invariant.
LEMMA FailKeepsInv ==
  ASSUME Inv, NEW c \in Client, NEW code \in Outcome, Fail(c, code),
         pc[c] # "idle"
  PROVE  Inv'
<1>1. TypeOK'
  BY DEF Inv, TypeOK, LedgerTypeOK, Fail, Reply, Release, dbVars, PC
<1>2. HasCommand'
  BY DEF Inv, HasCommand, TypeOK, Fail, Reply
<1>3. LocksCompatible'
  BY DEF Inv, LocksCompatible, TypeOK, Fail, Release
<1>4. ASSUME NEW d \in Client, pc'[d] \in InTx
      PROVE  DecisionHolds(d)'
  <2>1. d # c /\ pc'[d] = pc[d]
    BY <1>4 DEF Inv, TypeOK, Fail, Reply, InTx
  <2>2. /\ cmd'[d] = cmd[d] /\ UNCHANGED dbVars
        /\ seen'[d] = seen[d] /\ ev'[d] = ev[d]
        /\ \A x \in Cfg : rowLock[x] = d => rowLock'[x] = d
        /\ \A x \in Cfg : d \in keyShare[x] => d \in keyShare'[x]
    BY <2>1, NoneIsFresh DEF Inv, TypeOK, Fail, Release
  <2>3. QED
    BY <1>4, <2>1, <2>2, DecisionFrame
<1>5. QED
  BY <1>1, <1>2, <1>3, <1>4 DEF Inv, DecisionStillHolds

-----------------------------------------------------------------------------
\* A new request opens no transaction (execGovernance).
LEMMA IssueKeepsInv ==
  ASSUME Inv, NEW c \in Client, NEW r \in Requests, Issue(c, r)
  PROVE  Inv'
<1>1. TypeOK'
  BY DEF Inv, TypeOK, LedgerTypeOK, Issue, Reply, Advance, dbVars, lockVars,
         PC, Outcome
<1>2. HasCommand'
  BY DEF Inv, HasCommand, TypeOK, Issue, Reply, Advance
<1>3. LocksCompatible'
  BY DEF Inv, LocksCompatible, Issue, lockVars
<1>4. ASSUME NEW d \in Client, pc'[d] \in InTx
      PROVE  DecisionHolds(d)'
  <2>1. d # c /\ pc'[d] = pc[d]
    BY <1>4 DEF Inv, TypeOK, Issue, Reply, Advance, InTx
  <2>2. QED
    BY <1>4, <2>1, DecisionFrame DEF Inv, TypeOK, Issue, lockVars
<1>5. QED
  BY <1>1, <1>2, <1>3, <1>4 DEF Inv, DecisionStillHolds

\* The SDK's retry opens no transaction.
LEMMA RetryKeepsInv ==
  ASSUME Inv, NEW c \in Client, Retry(c)
  PROVE  Inv'
<1>1. TypeOK'
  BY DEF Inv, TypeOK, LedgerTypeOK, Retry, Advance, dbVars, lockVars, PC
<1>2. HasCommand'
  BY DEF Inv, HasCommand, TypeOK, Retry, Advance
<1>3. LocksCompatible'
  BY DEF Inv, LocksCompatible, Retry, lockVars
<1>4. ASSUME NEW d \in Client, pc'[d] \in InTx
      PROVE  DecisionHolds(d)'
  <2>1. d # c /\ pc'[d] = pc[d]
    BY <1>4 DEF Inv, TypeOK, Retry, Advance, InTx
  <2>2. QED
    BY <1>4, <2>1, DecisionFrame DEF Retry, lockVars
<1>5. QED
  BY <1>1, <1>2, <1>3, <1>4 DEF Inv, DecisionStillHolds

\* Locking a free row starts a decision that holds, and disturbs no other.
LEMMA GetForUpdateKeepsInv ==
  ASSUME Inv, NEW c \in Client, GetForUpdate(c)
  PROVE  Inv'
<1> DEFINE r == cmd[c]
<1>1. /\ pc[c] = "begun" /\ r \in Requests /\ r.cfg \in Cfg
      /\ r.expected \in Nat /\ rowLock[r.cfg] = None /\ keyShare[r.cfg] = {}
  BY RequestsAreCommands DEF Inv, HasCommand, GetForUpdate, RowFree, Command
<1>2. CASE \E code \in Outcome : Fail(c, code)
  BY <1>1, <1>2, FailKeepsInv
<1>3. CASE ~\E code \in Outcome : Fail(c, code)
  <2>1. /\ Exists(r.cfg) /\ r.expected \in {0, obj[r.cfg].rv}
        /\ Permitted(r, obj[r.cfg].dims)
        /\ rowLock' = [rowLock EXCEPT ![r.cfg] = c]
        /\ seen' = [seen EXCEPT ![c] = obj[r.cfg]]
        /\ pc' = [pc EXCEPT ![c] = "locked"]
        /\ UNCHANGED <<dbVars, keyShare, cmd, ev, outcome, attempt>>
    BY <1>1, <1>3 DEF GetForUpdate, Advance, Outcome
  <2>2. TypeOK'
    BY <1>1, <2>1 DEF Inv, TypeOK, LedgerTypeOK, Exists, dbVars, PC
  <2>3. HasCommand'
    BY <1>1, <2>1 DEF Inv, HasCommand, TypeOK
  <2>4. LocksCompatible'
    BY <1>1, <2>1 DEF Inv, LocksCompatible, TypeOK
  <2>5. ASSUME NEW d \in Client, pc'[d] \in InTx
        PROVE  DecisionHolds(d)'
    <3>1. CASE d = c
      BY <1>1, <2>1, <3>1 DEF DecisionHolds, Inv, TypeOK, Exists, dbVars
    <3>2. CASE d # c
      BY <1>1, <2>1, <2>5, <3>2, DecisionFrame, NoneIsFresh DEF Inv, TypeOK
    <3>3. QED
      BY <3>1, <3>2
  <2>6. QED
    BY <2>2, <2>3, <2>4, <2>5 DEF Inv, DecisionStillHolds
<1>4. QED
  BY <1>2, <1>3

\* Counting dependents or validating adds what it checked to the decision.
LEMMA MutateKeepsInv ==
  ASSUME Inv, NEW c \in Client, Mutate(c)
  PROVE  Inv'
<1>1. pc[c] = "locked" /\ DecisionHolds(c)
  BY DEF Mutate, Inv, DecisionStillHolds, InTx
<1>2. CASE \E code \in Outcome : Fail(c, code)
  BY <1>1, <1>2, FailKeepsInv
<1>3. CASE ~\E code \in Outcome : Fail(c, code)
  <2>1. /\ IF cmd[c].op = "deletion"
              THEN Dependents(cmd[c].cfg) = {}
              ELSE Validate(Planned(cmd[c], seen[c].dims))
        /\ pc' = [pc EXCEPT ![c] = "mutated"]
        /\ UNCHANGED <<dbVars, lockVars, cmd, seen, ev, outcome, attempt>>
    BY <1>3 DEF Mutate, Advance, Outcome
  <2>2. TypeOK'
    BY <2>1 DEF Inv, TypeOK, LedgerTypeOK, dbVars, lockVars, PC
  <2>3. HasCommand' /\ LocksCompatible'
    BY <1>1, <2>1 DEF Inv, HasCommand, LocksCompatible, TypeOK, lockVars
  <2>4. ASSUME NEW d \in Client, pc'[d] \in InTx
        PROVE  DecisionHolds(d)'
    <3>1. CASE d = c
      <4>1. pc'[c] = "mutated"
        BY <2>1 DEF Inv, TypeOK
      <4>2. QED
        BY <1>1, <2>1, <3>1, <4>1
           DEF DecisionHolds, Exists, Dependents, dbVars, lockVars
    <3>2. CASE d # c
      BY <2>1, <2>4, <3>2, DecisionFrame DEF Inv, TypeOK, lockVars
    <3>3. QED
      BY <3>1, <3>2
  <2>5. QED
    BY <2>2, <2>3, <2>4 DEF Inv, DecisionStillHolds
<1>4. QED
  BY <1>2, <1>3

\* The key-share lock adds the successor's existence to the decision.
LEMMA RecordEdgeKeepsInv ==
  ASSUME Inv, NEW c \in Client, RecordEdge(c)
  PROVE  Inv'
<1> DEFINE s == cmd[c].successor
           x == cmd[c].cfg
<1>1. /\ pc[c] = "mutated" /\ DecisionHolds(c) /\ cmd[c].op = "extension"
      /\ rowLock[s] \in {None, c}
  BY DEF RecordEdge, Inv, DecisionStillHolds, InTx
<1>2. cmd[c] \in Command /\ s \in Cfg
  BY <1>1, RequestsAreCommands
     DEF Inv, HasCommand, Command, DecisionHolds, Permitted
<1>3. CASE \E code \in Outcome : Fail(c, code)
  BY <1>1, <1>3, FailKeepsInv
<1>4. CASE ~\E code \in Outcome : Fail(c, code)
  <2>1. /\ <<s, x>> \notin edges /\ Exists(s)
        /\ keyShare' = [keyShare EXCEPT ![s] = @ \cup {c}]
        /\ pc' = [pc EXCEPT ![c] = "linked"]
        /\ UNCHANGED <<dbVars, rowLock, cmd, seen, ev, outcome, attempt>>
    BY <1>4 DEF RecordEdge, Advance, Outcome
  <2>2. TypeOK'
    BY <1>2, <2>1 DEF Inv, TypeOK, LedgerTypeOK, dbVars, PC
  <2>3. HasCommand'
    BY <1>1, <2>1 DEF Inv, HasCommand, TypeOK
  <2>4. LocksCompatible'
    BY <1>1, <1>2, <2>1 DEF Inv, LocksCompatible, TypeOK
  <2>5. ASSUME NEW d \in Client, pc'[d] \in InTx
        PROVE  DecisionHolds(d)'
    <3>1. CASE d = c
      <4>1. pc'[c] = "linked" /\ c \in keyShare'[s]
        BY <1>2, <2>1 DEF Inv, TypeOK
      <4>2. QED
        BY <1>1, <2>1, <3>1, <4>1 DEF DecisionHolds, Exists, Dependents, dbVars
    <3>2. CASE d # c
      BY <1>2, <2>1, <2>5, <3>2, DecisionFrame DEF Inv, TypeOK
    <3>3. QED
      BY <3>1, <3>2
  <2>6. QED
    BY <2>2, <2>3, <2>4, <2>5 DEF Inv, DecisionStillHolds
<1>5. QED
  BY <1>3, <1>4

\* Staging the audit event adds it, and its fresh key, to the decision.
LEMMA AppendTxKeepsInv ==
  ASSUME Inv, NEW c \in Client, AppendTx(c)
  PROVE  Inv'
<1> DEFINE r == cmd[c]
           e == ResultOf(c, r, seen[c], Len(chain[r.cfg]) + 1)
<1>1. /\ pc[c] \in {"mutated", "linked"} /\ DecisionHolds(c)
      /\ r.op = "extension" => pc[c] = "linked"
  BY DEF AppendTx, Inv, DecisionStillHolds, InTx
<1>2. r \in Requests /\ r \in Command
  BY <1>1, RequestsAreCommands DEF Inv, HasCommand
<1>3. CASE \E code \in Outcome : Fail(c, code)
  BY <1>1, <1>3, FailKeepsInv
<1>4. CASE ~\E code \in Outcome : Fail(c, code)
  <2>1. /\ r.id \notin EventIds(r.cfg)
        /\ ev' = [ev EXCEPT ![c] = e]
        /\ pc' = [pc EXCEPT ![c] = "audited"]
        /\ UNCHANGED <<dbVars, lockVars, cmd, seen, outcome, attempt>>
    BY <1>4 DEF AppendTx, Advance, Outcome
  <2>2. e \in Event
    <3>1. seen[c] \in Row /\ Permitted(r, seen[c].dims)
      BY <1>1, <1>2 DEF DecisionHolds, Exists, Inv, TypeOK, LedgerTypeOK, Command
    <3>2. Len(chain[r.cfg]) + 1 \in Nat
      <4>1. chain[r.cfg] \in Seq(Event)
        BY <1>2 DEF Inv, TypeOK, LedgerTypeOK, Command
      <4>2. QED
        BY <4>1
    <3>3. QED
      BY <1>2, <3>1, <3>2, ResultType
  <2>3. TypeOK'
    BY <2>1, <2>2 DEF Inv, TypeOK, LedgerTypeOK, dbVars, lockVars, PC
  <2>4. HasCommand' /\ LocksCompatible'
    BY <1>2, <2>1 DEF Inv, HasCommand, LocksCompatible, TypeOK, lockVars
  <2>5. ASSUME NEW d \in Client, pc'[d] \in InTx
        PROVE  DecisionHolds(d)'
    <3>1. CASE d = c
      <4>1. pc'[c] = "audited" /\ ev'[c] = e
        BY <2>1 DEF Inv, TypeOK
      <4>2. QED
        BY <1>1, <2>1, <3>1, <4>1
           DEF DecisionHolds, Exists, Dependents, EventIds, dbVars, lockVars
    <3>2. CASE d # c
      BY <2>1, <2>5, <3>2, DecisionFrame DEF Inv, TypeOK, lockVars
    <3>3. QED
      BY <3>1, <3>2
  <2>6. QED
    BY <2>3, <2>4, <2>5 DEF Inv, DecisionStillHolds
<1>5. QED
  BY <1>3, <1>4

-----------------------------------------------------------------------------
\* The heart of the refinement: what Commit writes, Execute would write now.
LEMMA CommitIsExecute ==
  ASSUME Inv, NEW c \in Client, Commit(c)
  PROVE  /\ cmd[c] \in Requests
         /\ Execute(c, cmd[c])
         /\ ev[c] = Recorded(c, cmd[c])
<1>1. pc[c] = "audited" /\ DecisionHolds(c) /\ cmd[c] \in Requests
  BY DEF Commit, Inv, DecisionStillHolds, HasCommand, InTx
<1>2. Apply(cmd[c], ev[c])
  BY DEF Commit
<1>3. QED
  BY <1>1, <1>2 DEF DecisionHolds, Execute, Recorded

\* A commit changes only what the committer had locked, so that every other
\* open transaction's decision still holds.
LEMMA CommitKeepsInv ==
  ASSUME Inv, NEW c \in Client, Commit(c)
  PROVE  Inv'
<1> DEFINE x == cmd[c].cfg
           e == Recorded(c, cmd[c])
<1>1. /\ cmd[c] \in Requests /\ Execute(c, cmd[c]) /\ rowLock[x] = c
      /\ LedgerTypeOK /\ x \in Cfg
  <2>1. cmd[c] \in Requests /\ Execute(c, cmd[c])
    BY CommitIsExecute
  <2>2. pc[c] = "audited"
    BY DEF Commit
  <2>3. DecisionHolds(c)
    BY <2>2 DEF Inv, DecisionStillHolds, InTx
  <2>4. QED
    BY <2>1, <2>3, RequestsAreCommands DEF Inv, TypeOK, DecisionHolds, Command
<1>2. \A y \in Cfg \ {x} : obj'[y] = obj[y] /\ chain'[y] = chain[y]
  <2> HIDE DEF x
  <2>1. \A r \in Requests : Execute(c, r) =>
          \A y \in Cfg \ {r.cfg} : obj'[y] = obj[y] /\ chain'[y] = chain[y]
    BY <1>1, ExecuteEffect
  <2>2. QED
    BY <1>1, <2>1 DEF x
<1>3. /\ rowLock' = [y \in Cfg |-> IF rowLock[y] = c THEN None ELSE rowLock[y]]
      /\ keyShare' = [y \in Cfg |-> keyShare[y] \ {c}]
      /\ seen' = [seen EXCEPT ![c] = None]
      /\ ev' = [ev EXCEPT ![c] = None]
      /\ pc' = [pc EXCEPT ![c] = "replied"]
      /\ \E code \in {"ok", "lost"} : outcome' = [outcome EXCEPT ![c] = code]
      /\ cmd' = cmd /\ attempt' = attempt
  BY DEF Commit, Release, Reply
<1>4. TypeOK'
  <2>1. LedgerTypeOK'
    BY <1>1, ExecuteKeepsType
  <2>2. QED
    BY <1>3, <2>1 DEF Inv, TypeOK, PC, Outcome
<1>5. HasCommand'
  BY <1>1, <1>3 DEF Inv, HasCommand, TypeOK
<1>6. LocksCompatible'
  BY <1>3 DEF Inv, LocksCompatible, TypeOK
<1>7. ASSUME NEW d \in Client, pc'[d] \in InTx
      PROVE  DecisionHolds(d)'
  <2> DEFINE r == cmd[d]
             y == cmd[d].cfg
             s == cmd[d].successor
  <2>1. /\ d # c /\ pc'[d] = pc[d] /\ seen'[d] = seen[d] /\ ev'[d] = ev[d]
        /\ DecisionHolds(d) /\ r \in Command
    BY <1>3, <1>7, RequestsAreCommands
       DEF Inv, TypeOK, InTx, DecisionStillHolds, HasCommand
  <2>2. y \in Cfg /\ rowLock[y] = d /\ rowLock'[y] = d
    BY <1>3, <2>1 DEF DecisionHolds, Command
  <2>3. y # x
    BY <1>1, <2>1, <2>2
  <2>4. obj'[y] = obj[y] /\ chain'[y] = chain[y]
    BY <1>2, <2>2, <2>3
  <2>5. \A z : <<z, y>> \in edges' => <<z, y>> \in edges
    <3>1. edges' =
            CASE e.removed -> {z \in edges : z[1] # x /\ z[2] # x}
              [] e.op = "extension" -> edges \cup {<<e.successor, x>>}
              [] OTHER -> edges
      BY <1>1 DEF Execute, Apply, Recorded
    <3>2. \/ edges' \subseteq edges
          \/ edges' = edges \cup {<<e.successor, x>>}
      <4> HIDE DEF e, x
      <4>1. e.removed => e.op # "extension"
        BY DEF e, Recorded, ResultOf
      <4>2. QED
        BY <3>1, <4>1
    <3>3. QED
      BY <2>3, <3>2
  <2>6. {p \in edges' : p[2] = y} \subseteq Dependents(y)
    <3>1. edges' \subseteq Cfg \X Cfg
      BY <1>4 DEF TypeOK, LedgerTypeOK
    <3>2. \A p \in Cfg \X Cfg : p = <<p[1], p[2]>>
      OBVIOUS
    <3>3. ASSUME NEW p \in edges', p[2] = y
          PROVE  p \in edges
      <4>1. p = <<p[1], y>>
        BY <3>1, <3>2, <3>3
      <4>2. QED
        BY <2>5, <3>3, <4>1
    <3>4. QED
      BY <3>3 DEF Dependents
  <2>7. ASSUME r.op = "extension", pc[d] \in {"linked", "audited"}
        PROVE  d \in keyShare'[s] /\ obj'[s] # None /\ <<s, y>> \notin edges'
    <3>1. s \in Cfg
      BY <2>1, <2>7 DEF DecisionHolds, Permitted, Command
    <3>2. d \in keyShare[s] /\ obj[s] # None /\ <<s, y>> \notin edges
      BY <2>1, <2>7 DEF DecisionHolds, Exists
    <3>3. s # x
      BY <1>1, <2>1, <3>1, <3>2, NoneIsFresh DEF Inv, LocksCompatible
    <3>4. obj'[s] = obj[s]
      BY <1>2, <3>1, <3>3
    <3>5. QED
      BY <1>3, <2>1, <2>5, <3>1, <3>2, <3>4
  <2>8. /\ obj'[y] # None /\ seen'[d] = obj'[y]
        /\ r.expected \in {0, obj'[y].rv} /\ Permitted(r, obj'[y].dims)
    BY <2>1, <2>4 DEF DecisionHolds, Exists
  <2>9. pc'[d] # "locked" =>
          IF r.op = "deletion" THEN {p \in edges' : p[2] = y} = {}
                               ELSE Validate(Planned(r, obj'[y].dims))
    BY <2>1, <2>4, <2>6 DEF DecisionHolds
  <2>10. pc'[d] = "audited" =>
           /\ r.id \notin {chain'[y][i].id : i \in DOMAIN chain'[y]}
           /\ ev'[d] = ResultOf(d, r, obj'[y], Len(chain'[y]) + 1)
    BY <2>1, <2>4 DEF DecisionHolds, EventIds
  <2>11. /\ cmd'[d] = r
         /\ pc'[d] \in {"linked", "audited"} /\ r.op = "extension" =>
              d \in keyShare'[s] /\ obj'[s] # None /\ <<s, y>> \notin edges'
    BY <1>3, <2>1, <2>7
  <2>12. QED
    BY <2>2, <2>8, <2>9, <2>10, <2>11
       DEF DecisionHolds, Exists, Dependents, EventIds
<1>8. QED
  BY <1>4, <1>5, <1>6, <1>7 DEF Inv, DecisionStillHolds

-----------------------------------------------------------------------------
\* No transaction is open at the start.
LEMMA InitInv == Init => Inv
<1> SUFFICES ASSUME Init PROVE Inv
  OBVIOUS
<1>1. LedgerTypeOK
  BY LedgerInitType DEF Init
<1>2. TypeOK
  BY <1>1 DEF Init, TypeOK, PC, Outcome
<1>3. QED
  BY <1>2 DEF Init, Inv, HasCommand, LocksCompatible, DecisionStillHolds, InTx

\* Every step keeps the invariant.
LEMMA NextKeepsInv == Inv /\ [Next]_vars => Inv'
<1> SUFFICES ASSUME Inv, [Next]_vars PROVE Inv'
  OBVIOUS
<1>1. CASE UNCHANGED vars
  <2>1. TypeOK' /\ HasCommand' /\ LocksCompatible'
    BY <1>1 DEF vars, Inv, TypeOK, LedgerTypeOK, HasCommand, LocksCompatible
  <2>2. DecisionStillHolds'
    BY <1>1, DecisionFrame DEF vars, dbVars, DecisionStillHolds
  <2>3. QED
    BY <2>1, <2>2 DEF Inv
<1>2. ASSUME NEW c \in Client, NEW r \in Requests, Issue(c, r)
      PROVE  Inv'
  BY <1>2, IssueKeepsInv
<1>3. ASSUME NEW c \in Client, Retry(c)
      PROVE  Inv'
  BY <1>3, RetryKeepsInv
<1>4. ASSUME NEW c \in Client, Step(c)
      PROVE  Inv'
  BY <1>4, GetForUpdateKeepsInv, MutateKeepsInv, RecordEdgeKeepsInv,
     AppendTxKeepsInv, CommitKeepsInv DEF Step
<1>5. ASSUME NEW c \in Client, Abort(c) \/ DeadlockVictim(c)
      PROVE  Inv'
  <2>1. pc[c] # "idle" /\ Fail(c, "error") /\ "error" \in Outcome
    BY <1>5 DEF Abort, DeadlockVictim, WaitsFor, InTx, Outcome
  <2>2. QED
    BY <2>1, FailKeepsInv
<1>6. QED
  BY <1>1, <1>2, <1>3, <1>4, <1>5 DEF Next

\* The inductive invariant: types, compatible locks and valid decisions.
THEOREM InvCorrect == Spec => []Inv
  BY InitInv, NextKeepsInv, PTL DEF Spec

\* State and locks are well-typed (TypeOK), for any number of callers.
THEOREM TypeCorrect == Spec => []TypeOK
<1>1. Inv => TypeOK
  BY DEF Inv
<1>2. QED
  BY <1>1, InvCorrect, PTL

\* The row locks keep every open transaction's checks valid until it ends
\* (DecisionStillHolds).
THEOREM LocksProtectDecisions == Spec => []DecisionStillHolds
<1>1. Inv => DecisionStillHolds
  BY DEF Inv
<1>2. QED
  BY <1>1, InvCorrect, PTL

\* Governed operations are linearizable: concurrent transactions, aborts, lost
\* answers and retries together behave as atomic operations (LedgerSpec), each
\* taking effect at its commit.
THEOREM Linearizable == Spec => LedgerSpec
<1>1. Init => LedgerInit
  BY DEF Init
<1>2. Inv /\ [Next]_vars => [LedgerNext]_dbVars
  <2> SUFFICES ASSUME Inv, [Next]_vars
               PROVE  LedgerNext \/ UNCHANGED dbVars
    OBVIOUS
  <2>1. CASE UNCHANGED vars
    BY <2>1 DEF vars, dbVars
  <2>2. ASSUME NEW c \in Client, Commit(c)
        PROVE  LedgerNext
    BY <2>2, CommitIsExecute DEF LedgerNext
  <2>3. ASSUME NEW c \in Client,
               \/ \E r \in Requests : Issue(c, r)
               \/ Retry(c) \/ GetForUpdate(c) \/ Mutate(c) \/ RecordEdge(c)
               \/ AppendTx(c) \/ DeadlockVictim(c) \/ Abort(c)
        PROVE  UNCHANGED dbVars
    BY <2>3 DEF Issue, Retry, GetForUpdate, Mutate, RecordEdge, AppendTx,
                DeadlockVictim, Abort, Fail
  <2>4. QED
    BY <2>1, <2>2, <2>3 DEF Next, Step
<1>3. QED
  BY <1>1, <1>2, InvCorrect, PTL DEF Spec, LedgerSpec

-----------------------------------------------------------------------------
\* The ledger's properties, carried over to the transactions.

\* Rows and chains agree after any interleaving (ChainExplainsObject).
THEOREM GovernedChainExplainsObject == Spec => []ChainExplainsObject
  BY Linearizable, LedgerChainExplainsObject, PTL

\* No edge without its event and no event whose edge is lost
\* (ExtensionsAreAudited).
THEOREM GovernedExtensionsAreAudited == Spec => []ExtensionsAreAudited
  BY Linearizable, LedgerExtensionsAreAudited, PTL

\* No retry or concurrent duplicate records a key twice (RecordedAtMostOnce).
THEOREM GovernedRecordedAtMostOnce == Spec => []RecordedAtMostOnce
  BY Linearizable, LedgerRecordedAtMostOnce, PTL

\* No interleaving orphans a dependent or rewrites a chain
\* (NoDependentIsOrphaned).
THEOREM GovernedNoDependentIsOrphaned == Spec => NoDependentIsOrphaned
  BY Linearizable, LedgerNoDependentIsOrphaned, PTL

-----------------------------------------------------------------------------
\* Who has an answer has sent a request.
AnswersHaveCommand == \A c \in Client : outcome[c] # "none" => pc[c] # "idle"

\* Only a caller that has sent a request has an answer.
LEMMA AnswersHaveCommandStep ==
  Inv /\ AnswersHaveCommand /\ [Next]_vars => AnswersHaveCommand'
<1> SUFFICES ASSUME Inv, AnswersHaveCommand, [Next]_vars,
                    NEW d \in Client, outcome'[d] # "none"
             PROVE  pc'[d] # "idle"
  BY DEF AnswersHaveCommand
<1>1. CASE UNCHANGED vars
  BY <1>1 DEF vars, AnswersHaveCommand
<1>2. ASSUME NEW c \in Client, NEW code, Fail(c, code)
      PROVE  pc'[d] # "idle"
  BY <1>2 DEF Fail, Reply, AnswersHaveCommand, Inv, TypeOK
<1>3. ASSUME NEW c \in Client, NEW r \in Requests, Issue(c, r)
      PROVE  pc'[d] # "idle"
  BY <1>3 DEF Issue, Reply, Advance, AnswersHaveCommand, Inv, TypeOK
<1>4. ASSUME NEW c \in Client, Retry(c) \/ Commit(c)
      PROVE  pc'[d] # "idle"
  BY <1>4 DEF Retry, Commit, Reply, Advance, AnswersHaveCommand, Inv, TypeOK
<1>5. ASSUME NEW c \in Client,
             GetForUpdate(c) \/ Mutate(c) \/ RecordEdge(c) \/ AppendTx(c)
      PROVE  pc'[d] # "idle"
  <2>1. CASE \E code : Fail(c, code)
    BY <1>2, <2>1
  <2>2. CASE ~\E code : Fail(c, code)
    BY <1>5, <2>2 DEF GetForUpdate, Mutate, RecordEdge, AppendTx, Advance,
                      AnswersHaveCommand, Inv, TypeOK
  <2>3. QED
    BY <2>1, <2>2
<1>6. ASSUME NEW c \in Client, DeadlockVictim(c) \/ Abort(c)
      PROVE  pc'[d] # "idle"
  BY <1>2, <1>6 DEF DeadlockVictim, Abort
<1>7. QED
  BY <1>1, <1>3, <1>4, <1>5, <1>6 DEF Next, Step

\* An answer of 200 is never wrong (OkMeansRecorded): the operation is in the
\* chain under the caller's key and was applied to the version If-Match named.
THEOREM AnswersAreTrue == Spec => []OkMeansRecorded
<1>1. Init => OkMeansRecorded /\ AnswersHaveCommand
  BY DEF Init, OkMeansRecorded, AnswersHaveCommand
<1>2. Inv /\ AnswersHaveCommand /\ OkMeansRecorded /\ [Next]_vars
        => OkMeansRecorded'
  <2> SUFFICES ASSUME Inv, AnswersHaveCommand, OkMeansRecorded, [Next]_vars
               PROVE  OkMeansRecorded'
    OBVIOUS
  <2> DEFINE Found(d, ch) ==
        \E i \in DOMAIN ch :
          /\ ch[i].id = cmd[d].id /\ ch[i].op = cmd[d].op /\ ch[i].actor = d
          /\ cmd[d].expected # 0 =>
               ch[i].removed \/ ch[i].rv = cmd[d].expected + 1
  <2>1. \A d \in Client : outcome[d] = "ok" =>
          cmd[d].cfg \in Cfg /\ Found(d, chain[cmd[d].cfg])
    BY RequestsAreCommands
       DEF OkMeansRecorded, AnswersHaveCommand, Inv, HasCommand, Command
  <2> HIDE DEF Found
  <2>2. ASSUME NEW d \in Client, outcome[d] = "ok", cmd'[d] = cmd[d],
               UNCHANGED chain
        PROVE  Found(d, chain'[cmd'[d].cfg])
    BY <2>1, <2>2
  <2>3. ASSUME NEW c \in Client, Commit(c), NEW d \in Client,
               outcome'[d] = "ok"
        PROVE  cmd'[d] = cmd[d] /\ Found(d, chain'[cmd[d].cfg])
    <3> DEFINE r == cmd[c]
               x == cmd[c].cfg
               n == Len(chain[x])
               e == Recorded(c, r)
    <3>1. r \in Requests /\ Execute(c, r) /\ LedgerTypeOK
      BY <2>3, CommitIsExecute DEF Inv, TypeOK
    <3>2. /\ n \in Nat /\ DOMAIN chain[x] = 1..n
          /\ DOMAIN chain'[x] = 1..(n + 1)
          /\ \A i \in 1..n : chain'[x][i] = chain[x][i]
          /\ chain'[x][n + 1] = e
          /\ \A y \in Cfg \ {x} : chain'[y] = chain[y]
      <4> HIDE DEF r
      <4>1. \A y \in Cfg \ {r.cfg} : obj'[y] = obj[y] /\ chain'[y] = chain[y]
        BY <3>1, ExecuteEffect
      <4>2. QED
        BY <3>1, <4>1, ExecuteEffect DEF r
    <3>3. cmd'[d] = cmd[d]
      BY <2>3 DEF Commit
    <3>4. CASE d = c
      <4>1. /\ e.id = r.id /\ e.op = r.op /\ e.actor = c
            /\ e.removed <=> r.op = "deletion"
            /\ r.op # "deletion" => e.rv = obj[x].rv + 1
        BY DEF Recorded, ResultOf
      <4>2. r.expected # 0 => r.expected = obj[x].rv
        BY <3>1 DEF Execute
      <4> HIDE DEF e, n
      <4>3. n + 1 \in DOMAIN chain'[x]
        <5>1. n \in Nat /\ DOMAIN chain'[x] = 1..(n + 1)
          BY <3>2
        <5> HIDE DEF x
        <5>2. QED
          BY <5>1
      <4>4. Found(c, chain'[x])
        BY <3>2, <4>1, <4>2, <4>3 DEF Found
      <4>5. QED
        BY <3>3, <3>4, <4>4
    <3>5. CASE d # c
      <4>1. outcome[d] = "ok"
        BY <2>3, <3>5 DEF Commit, Reply, Inv, TypeOK
      <4>2. cmd[d].cfg \in Cfg /\ Found(d, chain[cmd[d].cfg])
        BY <2>1, <4>1
      <4> HIDE DEF e, n
      <4>3. 1..n \subseteq 1..(n + 1)
        BY <3>2
      <4>4. CASE cmd[d].cfg = x
        <5>1. PICK i \in 1..n :
                /\ chain[x][i].id = cmd[d].id /\ chain[x][i].op = cmd[d].op
                /\ chain[x][i].actor = d
                /\ cmd[d].expected # 0 =>
                     chain[x][i].removed \/ chain[x][i].rv = cmd[d].expected + 1
          BY <3>2, <4>2, <4>4 DEF Found
        <5>2. i \in DOMAIN chain'[x] /\ chain'[x][i] = chain[x][i]
          BY <3>2, <4>3
        <5>3. QED
          BY <3>3, <4>4, <5>1, <5>2 DEF Found
      <4>5. CASE cmd[d].cfg # x
        BY <3>2, <3>3, <4>2, <4>5
      <4>6. QED
        BY <4>4, <4>5
    <3>6. QED
      BY <3>4, <3>5
  <2>4. ASSUME ~\E c \in Client : Commit(c)
        PROVE  /\ UNCHANGED chain
               /\ \A d \in Client : outcome'[d] = "ok" =>
                    outcome[d] = "ok" /\ cmd'[d] = cmd[d]
    <3>1. CASE UNCHANGED vars
      BY <3>1 DEF vars
    <3>2. ASSUME NEW c \in Client, NEW code \in Outcome \ {"ok"}, Fail(c, code)
          PROVE  /\ UNCHANGED chain
                 /\ \A d \in Client : outcome'[d] = "ok" =>
                      outcome[d] = "ok" /\ cmd'[d] = cmd[d]
      BY <3>2 DEF Fail, Reply, dbVars, Inv, TypeOK
    <3>3. ASSUME NEW c \in Client, NEW r \in Requests, Issue(c, r)
          PROVE  /\ UNCHANGED chain
                 /\ \A d \in Client : outcome'[d] = "ok" =>
                      outcome[d] = "ok" /\ cmd'[d] = cmd[d]
      BY <3>3 DEF Issue, Reply, dbVars, Inv, TypeOK
    <3>4. ASSUME NEW c \in Client,
                 \/ Retry(c) \/ GetForUpdate(c) \/ Mutate(c)
                 \/ RecordEdge(c) \/ AppendTx(c)
          PROVE  /\ UNCHANGED chain
                 /\ \A d \in Client : outcome'[d] = "ok" =>
                      outcome[d] = "ok" /\ cmd'[d] = cmd[d]
      <4>1. CASE \E code \in Outcome \ {"ok"} : Fail(c, code)
        BY <3>2, <4>1
      <4>2. CASE ~\E code \in Outcome \ {"ok"} : Fail(c, code)
        BY <3>4, <4>2 DEF Retry, GetForUpdate, Mutate, RecordEdge, AppendTx,
                          Outcome, dbVars
      <4>3. QED
        BY <4>1, <4>2
    <3>5. ASSUME NEW c \in Client, DeadlockVictim(c) \/ Abort(c)
          PROVE  /\ UNCHANGED chain
                 /\ \A d \in Client : outcome'[d] = "ok" =>
                      outcome[d] = "ok" /\ cmd'[d] = cmd[d]
      BY <3>2, <3>5 DEF DeadlockVictim, Abort, Outcome
    <3>6. QED
      BY <2>4, <3>1, <3>3, <3>4, <3>5 DEF Next, Step
  <2>5. ASSUME NEW d \in Client, outcome'[d] = "ok"
        PROVE  cmd'[d] = cmd[d] /\ Found(d, chain'[cmd[d].cfg])
    <3>1. CASE \E c \in Client : Commit(c)
      BY <2>3, <2>5, <3>1
    <3>2. CASE ~\E c \in Client : Commit(c)
      <4>1. UNCHANGED chain /\ outcome[d] = "ok" /\ cmd'[d] = cmd[d]
        BY <2>4, <2>5, <3>2
      <4>2. QED
        BY <2>2, <4>1
    <3>3. QED
      BY <3>1, <3>2
  <2>6. QED
    <3> SUFFICES ASSUME NEW d \in Client, outcome'[d] = "ok"
                 PROVE  \E i \in DOMAIN chain'[cmd'[d].cfg] :
                          LET e == chain'[cmd'[d].cfg][i] IN
                            /\ e.id = cmd'[d].id /\ e.op = cmd'[d].op
                            /\ e.actor = d
                            /\ cmd'[d].expected # 0 =>
                                 e.removed \/ e.rv = cmd'[d].expected + 1
      BY Zenon DEF OkMeansRecorded
    <3>1. cmd'[d] = cmd[d] /\ Found(d, chain'[cmd[d].cfg])
      BY <2>5
    <3>2. QED
      BY <3>1 DEF Found
<1>3. QED
  BY <1>1, <1>2, AnswersHaveCommandStep, InvCorrect, PTL DEF Spec
=============================================================================
