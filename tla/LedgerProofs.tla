---------------------------- MODULE LedgerProofs ----------------------------
(* Invariants of the atomic ledger, for every set of objects, callers, keys   *)
(* and requests.                                                              *)
EXTENDS Ledger, TLAPS

\* The event Execute(c, r) appends.
Recorded(c, r) == ResultOf(c, r, obj[r.cfg], Len(chain[r.cfg]) + 1)

\* planTransition maps dimensions to dimensions.
LEMMA PlannedType ==
  ASSUME NEW r \in Requests, NEW d \in Dimensions, Permitted(r, d)
  PROVE  Planned(r, d) \in Dimensions
<1>1. r \in Command
  BY RequestsAreCommands
<1>2. CASE r.op = "ratification"
  BY <1>2 DEF Planned, Dimensions, Lifecycle, RetentionClass, Authority
<1>3. CASE r.op = "approval"
  BY <1>3 DEF Planned, Dimensions, Lifecycle, RetentionClass, Authority
<1>4. CASE r.op = "suspension"
  BY <1>4 DEF Planned, Dimensions, Lifecycle, RetentionClass, Authority
<1>5. CASE r.op = "deprecation"
  BY <1>5 DEF Planned, Dimensions, Lifecycle, RetentionClass, Authority
<1>6. CASE r.op = "withdrawal"
  BY <1>6 DEF Planned, Withdrawn, Dimensions, Lifecycle, RetentionClass, Authority
<1>7. CASE r.op = "archiving"
  BY <1>7 DEF Planned, Permitted, Dimensions, ArchivalRetention, RetentionClass
<1>8. CASE r.op \notin {"ratification", "approval", "suspension",
                        "deprecation", "withdrawal", "archiving"}
  BY <1>8 DEF Planned
<1>9. QED
  BY <1>2, <1>3, <1>4, <1>5, <1>6, <1>7, <1>8

\* The event of an accepted request is well-formed.
LEMMA ResultType ==
  ASSUME NEW c \in Client, NEW r \in Requests, NEW row \in Row, NEW n \in Nat,
         Permitted(r, row.dims)
  PROVE  ResultOf(c, r, row, n) \in Event
<1>1. r \in Command
  BY RequestsAreCommands
<1>2. row.dims \in Dimensions /\ row.rv \in Nat
  BY DEF Row
<1>3. Planned(r, row.dims) \in Dimensions
  BY <1>2, PlannedType
<1>4. r.op \in ConfigurationOperation /\ r.id \in OpId
        /\ r.successor \in Cfg \cup {None}
  BY <1>1 DEF Command
<1>5. QED
  BY <1>2, <1>3, <1>4 DEF ResultOf, Event

\* Registered objects with empty chains are well-typed.
LEMMA LedgerInitType == LedgerInit => LedgerTypeOK
  BY InitialIsValid DEF LedgerInit, LedgerTypeOK, Row

\* A governed operation keeps the committed state well-typed.
LEMMA ExecuteKeepsType ==
  ASSUME LedgerTypeOK, NEW c \in Client, NEW r \in Requests, Execute(c, r)
  PROVE  LedgerTypeOK'
<1> DEFINE e == Recorded(c, r)
<1>1. r \in Command /\ r.cfg \in Cfg
  BY RequestsAreCommands DEF Command
<1>2. obj[r.cfg] \in Row
  BY <1>1 DEF Execute, Exists, LedgerTypeOK
<1>3. Len(chain[r.cfg]) + 1 \in Nat
  BY <1>1 DEF LedgerTypeOK
<1>4. e \in Event
  BY <1>2, <1>3, ResultType DEF Execute, Recorded
<1>5. Apply(r, e)
  BY DEF Execute, Recorded
<1> HIDE DEF e
<1>6. chain' \in [Cfg -> Seq(Event)]
  BY <1>1, <1>4, <1>5 DEF Apply, LedgerTypeOK
<1>7. e.removed \/ [dims |-> e.dims, rv |-> e.rv] \in Row
  <2>1. obj[r.cfg].dims \in Dimensions /\ obj[r.cfg].rv \in Nat
    BY <1>2 DEF Row
  <2>2. Planned(r, obj[r.cfg].dims) \in Dimensions
    BY <2>1, PlannedType DEF Execute
  <2>3. CASE r.op = "deletion"
    BY <2>3 DEF e, Recorded, ResultOf
  <2>4. CASE r.op # "deletion"
    <3>1. e.dims = Planned(r, obj[r.cfg].dims) /\ e.rv = obj[r.cfg].rv + 1
      BY <2>4 DEF e, Recorded, ResultOf
    <3>2. QED
      BY <2>1, <2>2, <3>1 DEF Row
  <2>5. QED
    BY <2>3, <2>4
<1>8. obj' \in [Cfg -> Row \cup {None}]
  BY <1>1, <1>5, <1>7 DEF Apply, LedgerTypeOK
<1>9. e.op = "extension" => e.successor \in Cfg
  BY <1>1 DEF e, Recorded, ResultOf, Execute, Permitted, Command
<1>10. edges' \subseteq Cfg \X Cfg
  BY <1>1, <1>5, <1>9 DEF Apply, LedgerTypeOK
<1>11. QED
  BY <1>6, <1>8, <1>10 DEF LedgerTypeOK

\* The committed state stays well-typed: LedgerTypeOK is inductive by itself.
THEOREM LedgerTypeCorrect == LedgerSpec => []LedgerTypeOK
<1>1. LedgerTypeOK /\ [LedgerNext]_dbVars => LedgerTypeOK'
  <2>1. LedgerTypeOK /\ LedgerNext => LedgerTypeOK'
    BY ExecuteKeepsType DEF LedgerNext
  <2>2. LedgerTypeOK /\ UNCHANGED dbVars => LedgerTypeOK'
    BY DEF dbVars, LedgerTypeOK
  <2>3. QED
    BY <2>1, <2>2
<1>2. QED
  BY <1>1, LedgerInitType, PTL DEF LedgerSpec

-----------------------------------------------------------------------------
\* What an accepted operation leaves behind, object by object: the facts the
\* invariance proofs below start from.
LEMMA ExecuteEffect ==
  ASSUME LedgerTypeOK, NEW c \in Client, NEW r \in Requests, Execute(c, r)
  PROVE  /\ r \in Command
         /\ r.cfg \in Cfg
         /\ obj[r.cfg] \in Row /\ obj[r.cfg] # None
         /\ Recorded(c, r) \in Event
         /\ \A y \in Cfg \ {r.cfg} : obj'[y] = obj[y] /\ chain'[y] = chain[y]
         /\ obj'[r.cfg] = IF Recorded(c, r).removed THEN None
                          ELSE [dims |-> Recorded(c, r).dims,
                                rv |-> Recorded(c, r).rv]
         /\ Len(chain[r.cfg]) \in Nat
         /\ DOMAIN chain[r.cfg] = 1..Len(chain[r.cfg])
         /\ chain'[r.cfg] \in Seq(Event)
         /\ Len(chain'[r.cfg]) = Len(chain[r.cfg]) + 1
         /\ DOMAIN chain'[r.cfg] = 1..(Len(chain[r.cfg]) + 1)
         /\ \A i \in 1..Len(chain[r.cfg]) : chain'[r.cfg][i] = chain[r.cfg][i]
         /\ chain'[r.cfg][Len(chain[r.cfg]) + 1] = Recorded(c, r)
<1> DEFINE x == r.cfg
           e == Recorded(c, r)
<1>1. r \in Command /\ x \in Cfg
  BY RequestsAreCommands DEF Command
<1>2. obj[x] \in Row /\ obj[x] # None
  BY <1>1 DEF Execute, Exists, LedgerTypeOK
<1>3. chain[x] \in Seq(Event)
  BY <1>1 DEF LedgerTypeOK
<1>4. Len(chain[x]) \in Nat /\ DOMAIN chain[x] = 1..Len(chain[x])
  BY <1>3
<1>5. e \in Event
  BY <1>2, <1>4, ResultType DEF Execute, Recorded
<1>6. Apply(r, e)
  BY DEF Execute, Recorded
<1> HIDE DEF e
<1>7. /\ chain'[x] = Append(chain[x], e)
      /\ obj'[x] = IF e.removed THEN None ELSE [dims |-> e.dims, rv |-> e.rv]
      /\ \A y \in Cfg \ {x} : obj'[y] = obj[y] /\ chain'[y] = chain[y]
  BY <1>1, <1>6 DEF Apply, LedgerTypeOK
<1>8. /\ chain'[x] \in Seq(Event)
      /\ Len(chain'[x]) = Len(chain[x]) + 1
      /\ DOMAIN chain'[x] = 1..(Len(chain[x]) + 1)
      /\ \A i \in 1..Len(chain[x]) : chain'[x][i] = chain[x][i]
      /\ chain'[x][Len(chain[x]) + 1] = e
  BY <1>3, <1>4, <1>5, <1>7
<1>9. QED
  BY <1>1, <1>2, <1>4, <1>5, <1>7, <1>8 DEF e

\* An accepted operation leaves every other object's row and chain alone.
LEMMA OthersStay ==
  ASSUME LedgerTypeOK, NEW c \in Client, NEW r \in Requests, Execute(c, r),
         NEW y \in Cfg, y # r.cfg
  PROVE  obj'[y] = obj[y] /\ chain'[y] = chain[y]
<1>1. \A z \in Cfg \ {r.cfg} : obj'[z] = obj[z] /\ chain'[z] = chain[z]
  BY ExecuteEffect
<1>2. QED
  BY <1>1

\* Only a Deletion takes the row away.
LEMMA RowStays ==
  ASSUME LedgerTypeOK, NEW c \in Client, NEW r \in Requests, Execute(c, r)
  PROVE  /\ Recorded(c, r).removed <=> r.op = "deletion"
         /\ obj'[r.cfg] = None <=> r.op = "deletion"
<1>1. obj[r.cfg] \in Row /\ r \in Command
  BY ExecuteEffect
<1>2. Planned(r, obj[r.cfg].dims) \in Dimensions
  BY <1>1, PlannedType DEF Execute, Row
<1>3. /\ Recorded(c, r).removed <=> r.op = "deletion"
      /\ r.op # "deletion" =>
           /\ Recorded(c, r).dims = Planned(r, obj[r.cfg].dims)
           /\ Recorded(c, r).rv = obj[r.cfg].rv + 1
  BY DEF Recorded, ResultOf
<1>4. obj[r.cfg].rv + 1 \in Nat
  BY <1>1 DEF Row
<1>5. ~Recorded(c, r).removed =>
        [dims |-> Recorded(c, r).dims, rv |-> Recorded(c, r).rv] \in Row
  BY <1>2, <1>3, <1>4 DEF Row
<1>6. obj'[r.cfg] = IF Recorded(c, r).removed THEN None
                    ELSE [dims |-> Recorded(c, r).dims,
                          rv |-> Recorded(c, r).rv]
  BY ExecuteEffect
<1>7. QED
  BY <1>3, <1>5, <1>6, NoneIsFresh

\* Every row is what its audit chain says (ChainExplainsObject), after any
\* sequence of governed operations.  The invariant is inductive with the types:
\* a chain that ends in a removal belongs to a missing row, so it never grows.
THEOREM LedgerChainExplainsObject == LedgerSpec => []ChainExplainsObject
<1>1. LedgerInit => ChainExplainsObject
  BY InitialIsValid DEF LedgerInit, ChainExplainsObject, Exists
<1>2. LedgerTypeOK /\ ChainExplainsObject /\ [LedgerNext]_dbVars
        => ChainExplainsObject'
  <2> SUFFICES ASSUME LedgerTypeOK, ChainExplainsObject, [LedgerNext]_dbVars
               PROVE  ChainExplainsObject'
    OBVIOUS
  <2>1. CASE UNCHANGED dbVars
    BY <2>1 DEF dbVars, ChainExplainsObject, Exists
  <2>2. ASSUME NEW c \in Client, NEW r \in Requests, Execute(c, r),
               NEW y \in Cfg
        PROVE  /\ \A i \in 1..Len(chain'[y]) : chain'[y][i].seq = i
               /\ \A i \in 1..Len(chain'[y]) :
                    chain'[y][i].removed => i = Len(chain'[y])
               /\ Len(chain'[y]) > 0 =>
                    obj'[y] = IF chain'[y][Len(chain'[y])].removed THEN None
                              ELSE [dims |-> chain'[y][Len(chain'[y])].dims,
                                    rv |-> Len(chain'[y]) + 1]
               /\ obj'[y] # None => obj'[y].rv = Len(chain'[y]) + 1
    <3> DEFINE x == r.cfg
               n == Len(chain[x])
               e == Recorded(c, r)
    <3>1. CASE y # x
      <4>1. obj'[y] = obj[y] /\ chain'[y] = chain[y]
        BY <2>2, <3>1, OthersStay
      <4>2. QED
        BY <4>1 DEF ChainExplainsObject, Exists
    <3>2. CASE y = x
      <4>1. n \in Nat /\ x \in Cfg /\ obj[x] \in Row /\ obj[x] # None
        BY <2>2, ExecuteEffect
      <4>2. obj[x].rv = n + 1 /\ \A i \in 1..n : ~chain[x][i].removed
        <5>1. obj[x].rv = n + 1
          BY <4>1 DEF ChainExplainsObject, Exists
        <5>2. \A i \in 1..n : chain[x][i].removed => i = n
          BY <4>1 DEF ChainExplainsObject
        <5>3. n > 0 /\ chain[x][n].removed => obj[x] = None
          BY <4>1 DEF ChainExplainsObject
        <5> HIDE DEF n, x
        <5>4. QED
          BY <4>1, <5>1, <5>2, <5>3
      <4>3. e.seq = n + 1 /\ (~e.removed => e.rv = n + 2)
        <5>1. /\ e.seq = n + 1
              /\ (e.removed <=> r.op = "deletion")
              /\ e.rv = IF r.op = "deletion" THEN 0 ELSE obj[x].rv + 1
          BY DEF Recorded, ResultOf
        <5> HIDE DEF e, n, x
        <5>2. QED
          BY <4>1, <4>2, <5>1
      <4>4. /\ Len(chain'[x]) = n + 1
            /\ \A i \in 1..n : chain'[x][i] = chain[x][i]
            /\ chain'[x][n + 1] = e
            /\ obj'[x] = IF e.removed THEN None
                         ELSE [dims |-> e.dims, rv |-> e.rv]
        BY <2>2, ExecuteEffect
      <4>5. \A i \in 1..n : chain[x][i].seq = i
        BY <4>1 DEF ChainExplainsObject
      <4> HIDE DEF e, n, x
      <4>6. \A i \in 1..(n + 1) : i \in 1..n \/ i = n + 1
        BY <4>1
      <4>7. QED
        BY <3>2, <4>1, <4>2, <4>3, <4>4, <4>5, <4>6
    <3>3. QED
      BY <3>1, <3>2
  <2>3. QED
    BY <2>1, <2>2 DEF LedgerNext, ChainExplainsObject, Exists
<1>3. QED
  BY <1>1, <1>2, LedgerTypeCorrect, PTL DEF LedgerSpec

-----------------------------------------------------------------------------
\* A key is recorded at most once per chain (RecordedAtMostOnce).
THEOREM LedgerRecordedAtMostOnce == LedgerSpec => []RecordedAtMostOnce
<1>1. LedgerInit => RecordedAtMostOnce
  BY DEF LedgerInit, RecordedAtMostOnce
<1>2. LedgerTypeOK /\ RecordedAtMostOnce /\ [LedgerNext]_dbVars
        => RecordedAtMostOnce'
  <2> SUFFICES ASSUME LedgerTypeOK, RecordedAtMostOnce, [LedgerNext]_dbVars
               PROVE  RecordedAtMostOnce'
    OBVIOUS
  <2>1. CASE UNCHANGED dbVars
    BY <2>1 DEF dbVars, RecordedAtMostOnce
  <2>2. ASSUME NEW c \in Client, NEW r \in Requests, Execute(c, r),
               NEW y \in Cfg,
               NEW i \in DOMAIN chain'[y], NEW j \in DOMAIN chain'[y],
               chain'[y][i].id = chain'[y][j].id
        PROVE  i = j
    <3> DEFINE x == r.cfg
               n == Len(chain[x])
    <3>1. CASE y # x
      <4>1. chain'[y] = chain[y]
        BY <2>2, <3>1, ExecuteEffect
      <4>2. QED
        BY <2>2, <4>1 DEF RecordedAtMostOnce
    <3>2. CASE y = x
      <4>1. /\ n \in Nat /\ x \in Cfg /\ DOMAIN chain[x] = 1..n
            /\ DOMAIN chain'[x] = 1..(n + 1)
            /\ \A k \in 1..n : chain'[x][k] = chain[x][k]
            /\ chain'[x][n + 1] = Recorded(c, r)
        BY <2>2, ExecuteEffect
      <4>2. Recorded(c, r).id = r.id
        BY DEF Recorded, ResultOf
      <4>3. \A k \in 1..n : chain[x][k].id # r.id
        BY <2>2, <4>1 DEF Execute, EventIds
      <4>4. \A k, l \in 1..n : chain[x][k].id = chain[x][l].id => k = l
        BY <4>1 DEF RecordedAtMostOnce
      <4> HIDE DEF n, x
      <4>5. \A k \in 1..(n + 1) : k \in 1..n \/ k = n + 1
        BY <4>1
      <4>6. QED
        BY <2>2, <3>2, <4>1, <4>2, <4>3, <4>4, <4>5
    <3>3. QED
      BY <3>1, <3>2
  <2>3. QED
    BY <2>1, <2>2 DEF LedgerNext, RecordedAtMostOnce
<1>3. QED
  BY <1>1, <1>2, LedgerTypeCorrect, PTL DEF LedgerSpec

\* Every row satisfies the cross-dimension rule (BaselineNeverHistorical):
\* objects are registered valid, and Execute writes only what Validate accepts.
THEOREM LedgerBaselineNeverHistorical == LedgerSpec => []BaselineNeverHistorical
<1>1. LedgerInit => BaselineNeverHistorical
  BY InitialIsValid DEF LedgerInit, BaselineNeverHistorical, Exists
<1>2. LedgerTypeOK /\ BaselineNeverHistorical /\ [LedgerNext]_dbVars
        => BaselineNeverHistorical'
  <2> SUFFICES ASSUME LedgerTypeOK, BaselineNeverHistorical,
                      [LedgerNext]_dbVars
               PROVE  BaselineNeverHistorical'
    OBVIOUS
  <2>1. CASE UNCHANGED dbVars
    BY <2>1 DEF dbVars, BaselineNeverHistorical, Exists
  <2>2. ASSUME NEW c \in Client, NEW r \in Requests, Execute(c, r),
               NEW y \in Cfg, obj'[y] # None
        PROVE  Validate(obj'[y].dims)
    <3>1. CASE y # r.cfg
      <4>1. obj'[y] = obj[y]
        BY <2>2, <3>1, ExecuteEffect
      <4>2. QED
        BY <2>2, <4>1 DEF BaselineNeverHistorical, Exists
    <3>2. CASE y = r.cfg
      <4>1. obj'[y] = IF Recorded(c, r).removed THEN None
                      ELSE [dims |-> Recorded(c, r).dims,
                            rv |-> Recorded(c, r).rv]
        BY <2>2, <3>2, ExecuteEffect
      <4>2. /\ Recorded(c, r).removed <=> r.op = "deletion"
            /\ Recorded(c, r).dims = IF r.op = "deletion" THEN None
                                     ELSE Planned(r, obj[r.cfg].dims)
        BY DEF Recorded, ResultOf
      <4>3. r.op # "deletion" => Validate(Planned(r, obj[r.cfg].dims))
        BY <2>2 DEF Execute
      <4>4. QED
        BY <2>2, <4>1, <4>2, <4>3
    <3>3. QED
      BY <3>1, <3>2
  <2>3. QED
    BY <2>1, <2>2 DEF LedgerNext, BaselineNeverHistorical, Exists
<1>3. QED
  BY <1>1, <1>2, LedgerTypeCorrect, PTL DEF LedgerSpec

\* A governed operation never orphans a dependent and only appends to chains
\* (NoDependentIsOrphaned): CountDependents and AppendTx of every step.
THEOREM LedgerNoDependentIsOrphaned == LedgerSpec => NoDependentIsOrphaned
<1> DEFINE Kept == \A x \in Cfg : Exists(x) /\ ~Exists(x)' => Dependents(x) = {}
           Grows == \A x \in Cfg : SubSeq(chain'[x], 1, Len(chain[x])) = chain[x]
<1>1. LedgerTypeOK /\ [LedgerNext]_dbVars => [Kept /\ Grows]_dbVars
  <2> SUFFICES ASSUME LedgerTypeOK,
                      NEW c \in Client, NEW r \in Requests, Execute(c, r)
               PROVE  Kept /\ Grows
    BY DEF LedgerNext
  <2>1. Kept
    <3> SUFFICES ASSUME NEW x \in Cfg, obj[x] # None, obj'[x] = None
                 PROVE  Dependents(x) = {}
      BY DEF Exists
    <3>1. x = r.cfg
      BY ExecuteEffect
    <3>2. Recorded(c, r).removed
      BY <3>1, RowStays
    <3>3. r.op = "deletion"
      BY <3>2 DEF Recorded, ResultOf
    <3>4. QED
      BY <3>1, <3>3 DEF Execute
  <2>2. Grows
    <3> SUFFICES ASSUME NEW x \in Cfg
                 PROVE  SubSeq(chain'[x], 1, Len(chain[x])) = chain[x]
      OBVIOUS
    <3>1. chain[x] \in Seq(Event)
      BY DEF LedgerTypeOK
    <3>2. CASE x # r.cfg
      <4>1. chain'[x] = chain[x]
        BY <3>2, OthersStay
      <4>2. QED
        BY <3>1, <4>1
    <3>3. CASE x = r.cfg
      <4>1. Apply(r, Recorded(c, r)) /\ Recorded(c, r) \in Event
        BY ExecuteEffect DEF Execute, Recorded
      <4>2. chain'[x] = Append(chain[x], Recorded(c, r))
        BY <3>3, <4>1 DEF Apply, LedgerTypeOK
      <4>3. QED
        BY <3>1, <4>1, <4>2
    <3>4. QED
      BY <3>2, <3>3
  <2>3. QED
    BY <2>1, <2>2
<1>2. QED
  BY <1>1, LedgerTypeCorrect, PTL DEF LedgerSpec, NoDependentIsOrphaned

-----------------------------------------------------------------------------
\* planTransition has no way out of "withdrawn": every operation it permits on a
\* withdrawn object that is not active leaves it so, and withdrawal leads there.
LEMMA WithdrawnIsAbsorbing ==
  ASSUME NEW r \in Requests, NEW d \in Dimensions, Permitted(r, d),
         r.op # "deletion",
         \/ r.op = "withdrawal"
         \/ d.lifecycle = "withdrawn" /\ d.authority # "active"
  PROVE  /\ Planned(r, d).lifecycle = "withdrawn"
         /\ Planned(r, d).authority # "active"
<1>1. CASE r.op = "withdrawal"
  BY <1>1 DEF Planned, Withdrawn, Dimensions
<1>2. CASE d.lifecycle = "withdrawn" /\ d.authority # "active"
  <2>1. r.op \in {"extension", "archiving"} \/ r.op = "withdrawal"
    BY <1>2 DEF Permitted
  <2>2. CASE r.op = "extension"
    BY <1>2, <2>2 DEF Planned
  <2>3. CASE r.op = "archiving"
    BY <1>2, <2>3 DEF Planned, Dimensions
  <2>4. QED
    BY <1>1, <2>1, <2>2, <2>3
<1>3. QED
  BY <1>1, <1>2

\* A withdrawn object never returns to force (WithdrawalIsFinal).  The row in the
\* database, not the chain, is what Execute reads: ChainExplainsObject ties the
\* last event to it.
THEOREM LedgerWithdrawalIsFinal == LedgerSpec => []WithdrawalIsFinal
<1>1. LedgerInit => WithdrawalIsFinal
  BY DEF LedgerInit, WithdrawalIsFinal
<1>2. LedgerTypeOK /\ ChainExplainsObject /\ WithdrawalIsFinal
        /\ [LedgerNext]_dbVars => WithdrawalIsFinal'
  <2> SUFFICES ASSUME LedgerTypeOK, ChainExplainsObject, WithdrawalIsFinal,
                      [LedgerNext]_dbVars
               PROVE  WithdrawalIsFinal'
    OBVIOUS
  <2>1. CASE UNCHANGED dbVars
    BY <2>1 DEF dbVars, WithdrawalIsFinal
  <2>2. ASSUME NEW c \in Client, NEW r \in Requests, Execute(c, r),
               NEW y \in Cfg,
               NEW i \in DOMAIN chain'[y], NEW j \in DOMAIN chain'[y],
               chain'[y][i].op = "withdrawal", i <= j, ~chain'[y][j].removed
        PROVE  /\ chain'[y][j].dims.lifecycle = "withdrawn"
               /\ chain'[y][j].dims.authority # "active"
    <3> DEFINE x == r.cfg
               n == Len(chain[x])
               e == Recorded(c, r)
    <3>1. CASE y # x
      <4>1. chain'[y] = chain[y]
        BY <2>2, <3>1, ExecuteEffect
      <4>2. QED
        BY <2>2, <4>1 DEF WithdrawalIsFinal
    <3>2. CASE y = x
      <4>1. /\ n \in Nat /\ x \in Cfg /\ DOMAIN chain[x] = 1..n
            /\ obj[x] \in Row /\ obj[x] # None
            /\ DOMAIN chain'[x] = 1..(n + 1)
            /\ \A k \in 1..n : chain'[x][k] = chain[x][k]
            /\ chain'[x][n + 1] = e
        BY <2>2, ExecuteEffect
      <4>2. /\ e.op = r.op
            /\ e.removed <=> r.op = "deletion"
            /\ r.op # "deletion" => e.dims = Planned(r, obj[x].dims)
        BY DEF Recorded, ResultOf
      <4>3. Permitted(r, obj[x].dims) /\ obj[x].dims \in Dimensions
        BY <2>2, <4>1 DEF Execute, Row
      <4>4. \A k, l \in 1..n :
              chain[x][k].op = "withdrawal" /\ k <= l /\ ~chain[x][l].removed =>
                /\ chain[x][l].dims.lifecycle = "withdrawn"
                /\ chain[x][l].dims.authority # "active"
        BY <4>1 DEF WithdrawalIsFinal
      <4>5. n > 0 => ~chain[x][n].removed /\ obj[x].dims = chain[x][n].dims
        <5>1. n > 0 => obj[x] = IF chain[x][n].removed THEN None
                                ELSE [dims |-> chain[x][n].dims, rv |-> n + 1]
          BY <4>1 DEF ChainExplainsObject
        <5> HIDE DEF n, x
        <5>2. QED
          BY <4>1, <5>1
      <4>6. CASE j \in 1..n
        <5>1. i \in 1..n
          BY <2>2, <3>2, <4>1, <4>6
        <5> HIDE DEF e, n, x
        <5>2. QED
          BY <2>2, <3>2, <4>1, <4>4, <4>6, <5>1
      <4>7. CASE j = n + 1
        <5>1. r.op # "deletion"
          BY <2>2, <3>2, <4>1, <4>2, <4>7
        <5>2. r.op = "withdrawal" \/ (i \in 1..n /\ chain[x][i].op = "withdrawal")
          <6>1. i \in 1..(n + 1) /\ chain'[x][i].op = "withdrawal"
            BY <2>2, <3>2, <4>1
          <6> HIDE DEF e, n, x
          <6>2. QED
            BY <4>1, <4>2, <6>1
        <5>3. i \in 1..n /\ chain[x][i].op = "withdrawal" =>
                obj[x].dims.lifecycle = "withdrawn" /\ obj[x].dims.authority # "active"
          <6> HIDE DEF e, n, x
          <6>1. QED
            BY <4>1, <4>4, <4>5
        <5>4. /\ Planned(r, obj[x].dims).lifecycle = "withdrawn"
              /\ Planned(r, obj[x].dims).authority # "active"
          BY <4>3, <5>1, <5>2, <5>3, WithdrawnIsAbsorbing
        <5>5. QED
          BY <3>2, <4>1, <4>2, <4>7, <5>1, <5>4
      <4>8. QED
        BY <2>2, <3>2, <4>1, <4>6, <4>7
    <3>3. QED
      BY <3>1, <3>2
  <2>3. QED
    BY <2>1, <2>2 DEF LedgerNext, WithdrawalIsFinal
<1>3. QED
  BY <1>1, <1>2, LedgerTypeCorrect, LedgerChainExplainsObject, PTL
     DEF LedgerSpec

-----------------------------------------------------------------------------
\* Extends edges and extension events match (ExtensionsAreAudited): the edge, its
\* event and the removal that cascades over it all belong to one transaction.
THEOREM LedgerExtensionsAreAudited == LedgerSpec => []ExtensionsAreAudited
<1>1. LedgerInit => ExtensionsAreAudited
  BY DEF LedgerInit, ExtensionsAreAudited
<1>2. LedgerTypeOK /\ ExtensionsAreAudited /\ [LedgerNext]_dbVars
        => ExtensionsAreAudited'
  <2> SUFFICES ASSUME LedgerTypeOK, ExtensionsAreAudited, [LedgerNext]_dbVars
               PROVE  ExtensionsAreAudited'
    OBVIOUS
  <2>1. CASE UNCHANGED dbVars
    BY <2>1 DEF dbVars, ExtensionsAreAudited, Exists
  <2>2. ASSUME NEW c \in Client, NEW r \in Requests, Execute(c, r),
               NEW s \in Cfg, NEW y \in Cfg
        PROVE  <<s, y>> \in edges' <=>
                 /\ obj'[s] # None /\ obj'[y] # None
                 /\ \E i \in DOMAIN chain'[y] :
                      /\ chain'[y][i].op = "extension"
                      /\ chain'[y][i].successor = s
    <3> DEFINE x == r.cfg
               n == Len(chain[x])
               e == Recorded(c, r)
               Audited == \E i \in DOMAIN chain[y] :
                            /\ chain[y][i].op = "extension"
                            /\ chain[y][i].successor = s
    <3>1. /\ n \in Nat /\ x \in Cfg /\ DOMAIN chain[x] = 1..n
          /\ obj[x] # None
          /\ \A z \in Cfg \ {x} : obj'[z] = obj[z] /\ chain'[z] = chain[z]
          /\ DOMAIN chain'[x] = 1..(n + 1)
          /\ \A k \in 1..n : chain'[x][k] = chain[x][k]
          /\ chain'[x][n + 1] = e
      BY <2>2, ExecuteEffect
    <3>2. /\ e.op = r.op
          /\ e.successor = IF r.op = "extension" THEN r.successor ELSE None
      BY DEF Recorded, ResultOf
    <3>3. /\ e.removed <=> r.op = "deletion"
          /\ obj'[x] = None <=> r.op = "deletion"
      BY <2>2, RowStays
    <3>4. edges' =
            CASE e.removed -> {z \in edges : z[1] # x /\ z[2] # x}
              [] e.op = "extension" -> edges \cup {<<e.successor, x>>}
              [] OTHER -> edges
      BY <2>2 DEF Execute, Recorded, Apply
    <3>5. <<s, y>> \in edges <=> obj[s] # None /\ obj[y] # None /\ Audited
      BY DEF ExtensionsAreAudited, Exists
    <3>6. r.op = "extension" => r.successor \in Cfg \ {x} /\ obj[r.successor] # None
      <4>1. r \in Command
        BY <2>2, ExecuteEffect
      <4>2. r.op = "extension" => r.successor \notin {None, x}
        BY <2>2 DEF Execute, Permitted
      <4>3. r.op = "extension" => obj[r.successor] # None
        BY <2>2 DEF Execute, Exists
      <4>4. QED
        BY <4>1, <4>2, <4>3 DEF Command
    <3>7. (\E i \in DOMAIN chain'[y] : /\ chain'[y][i].op = "extension"
                                       /\ chain'[y][i].successor = s)
            <=> (Audited \/ (y = x /\ e.op = "extension" /\ e.successor = s))
      <4>1. CASE y # x
        BY <3>1, <4>1
      <4>2. CASE y = x
        <5> HIDE DEF e, n, x
        <5>1. \A k \in 1..(n + 1) : k \in 1..n \/ k = n + 1
          BY <3>1
        <5>2. 1..n \subseteq 1..(n + 1) /\ n + 1 \in 1..(n + 1)
          BY <3>1
        <5>3. QED
          BY <3>1, <4>2, <5>1, <5>2
      <4>3. QED
        BY <4>1, <4>2
    <3> HIDE DEF e, n, x, Audited
    <3>8. CASE r.op = "deletion"
      <4>1. edges' = {z \in edges : z[1] # x /\ z[2] # x} /\ obj'[x] = None
        <5>1. e.removed /\ e.op # "extension"
          BY <3>2, <3>3, <3>8
        <5>2. QED
          BY <3>3, <3>4, <3>8, <5>1
      <4>2. CASE s = x \/ y = x
        BY <4>1, <4>2
      <4>3. CASE s # x /\ y # x
        <5>1. <<s, y>> \in edges' <=> <<s, y>> \in edges
          BY <4>1, <4>3
        <5>2. obj'[s] = obj[s] /\ obj'[y] = obj[y]
          BY <3>1, <4>3
        <5>3. QED
          BY <3>5, <3>7, <4>3, <5>1, <5>2
      <4>4. QED
        BY <4>2, <4>3
    <3>9. CASE r.op # "deletion"
      <4>1. \A z \in Cfg : obj'[z] # None <=> obj[z] # None
        BY <3>1, <3>3, <3>9
      <4>2. CASE r.op = "extension"
        <5>1. edges' = edges \cup {<<r.successor, x>>}
          BY <3>2, <3>3, <3>4, <4>2
        <5>2. QED
          BY <3>1, <3>2, <3>5, <3>6, <3>7, <4>1, <4>2, <5>1
      <4>3. CASE r.op # "extension"
        <5>1. edges' = edges
          BY <3>2, <3>3, <3>4, <3>9, <4>3
        <5>2. QED
          BY <3>2, <3>5, <3>7, <4>1, <4>3, <5>1
      <4>4. QED
        BY <4>2, <4>3
    <3>10. QED
      BY <3>8, <3>9
  <2>3. QED
    BY <2>1, <2>2 DEF LedgerNext, ExtensionsAreAudited, Exists
<1>3. QED
  BY <1>1, <1>2, LedgerTypeCorrect, PTL DEF LedgerSpec
=============================================================================
