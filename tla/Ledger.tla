------------------------------- MODULE Ledger -------------------------------
(***************************************************************************)
(* What governance promises, without transactions: the committed objects,  *)
(* extends edges and audit chains, and one atomic step per governed        *)
(* operation, decided on the committed state it changes.  Module           *)
(* Governance, where an operation is decided long before it commits and    *)
(* others run meanwhile, is shown to implement LedgerSpec.                 *)
(***************************************************************************)
EXTENDS ConfigObject, Naturals, Sequences

CONSTANTS
  Cfg,       \* ids of Configuration Objects
  Client,    \* callers
  OpId,      \* Idempotency-Key values
  Initial,   \* dimensions objects are registered with
  Requests   \* the commands callers may send

Command ==
  [op: ConfigurationOperation, cfg: Cfg, id: OpId, expected: Nat,
   target: RetentionClass \cup {""}, successor: Cfg \cup {None}]

\* A row of configuration_object: its dimensions and row_version.
Row == [dims: Dimensions, rv: Nat]

\* A row of audit_event: what Result.auditPayload records, with the sequence
\* number and the event id that audit.Resolve derives from the OperationID.
Event ==
  [seq: Nat, id: OpId, op: ConfigurationOperation, actor: Client,
   removed: BOOLEAN, dims: Dimensions \cup {None}, rv: Nat,
   successor: Cfg \cup {None}]

ASSUME NoneIsFresh == None \notin Cfg /\ None \notin Client /\ None \notin Row
ASSUME RequestsAreCommands == Requests \subseteq Command
ASSUME InitialIsValid == Initial \subseteq {d \in Dimensions : Validate(d)}

VARIABLES
  obj,    \* configuration_object: a Row, or None where there is none
  edges,  \* dependency_edge: <<from, to>>, kind extends
  chain   \* audit_event by chain id (AuditChainID is the object id)

dbVars == <<obj, edges, chain>>

Exists(x) == obj[x] # None

\* CountDependents: the edges into x.
Dependents(x) == {e \in edges : e[2] = x}

\* Mutant: no unique index on the event id.
NoEventIds(x) == {}

EventIds(x) == {chain[x][i].id : i \in DOMAIN chain[x]}

\* Mutant: the row version is not incremented.
ResultSameVersion(c, r, row, n) ==
  [seq |-> n, id |-> r.id, op |-> r.op, actor |-> c,
   removed |-> r.op = "deletion",
   dims |-> IF r.op = "deletion" THEN None ELSE Planned(r, row.dims),
   rv |-> IF r.op = "deletion" THEN 0 ELSE row.rv,
   successor |-> IF r.op = "extension" THEN r.successor ELSE None]

\* The Result of Execute on a row, as the n-th event of its chain: a removal
\* reports no dimensions and row_version 0.
ResultOf(c, r, row, n) ==
  [seq |-> n, id |-> r.id, op |-> r.op, actor |-> c,
   removed |-> r.op = "deletion",
   dims |-> IF r.op = "deletion" THEN None ELSE Planned(r, row.dims),
   rv |-> IF r.op = "deletion" THEN 0 ELSE row.rv + 1,
   successor |-> IF r.op = "extension" THEN r.successor ELSE None]

\* Mutant: a removal leaves the edges behind.
ApplyNoCascade(r, e) ==
  /\ chain' = [chain EXCEPT ![r.cfg] = Append(@, e)]
  /\ obj' = [obj EXCEPT ![r.cfg] =
               IF e.removed THEN None ELSE [dims |-> e.dims, rv |-> e.rv]]
  /\ edges' = IF e.op = "extension" THEN edges \cup {<<e.successor, r.cfg>>}
                                     ELSE edges

\* Mutant: a removal updates the row instead of deleting it.
ApplyNoRemoval(r, e) ==
  /\ chain' = [chain EXCEPT ![r.cfg] = Append(@, e)]
  /\ obj' = [obj EXCEPT ![r.cfg] = [dims |-> e.dims, rv |-> e.rv]]
  /\ UNCHANGED edges

\* tx.Commit: the mutation, the edge and the audit event appear together.  A
\* removed row takes its edges along (ON DELETE CASCADE).
Apply(r, e) ==
  /\ chain' = [chain EXCEPT ![r.cfg] = Append(@, e)]
  /\ obj' = [obj EXCEPT ![r.cfg] =
               IF e.removed THEN None ELSE [dims |-> e.dims, rv |-> e.rv]]
  /\ edges' =
       CASE e.removed -> {x \in edges : x[1] # r.cfg /\ x[2] # r.cfg}
         [] e.op = "extension" -> edges \cup {<<e.successor, r.cfg>>}
         [] OTHER -> edges

-----------------------------------------------------------------------------
\* Mutant: the planned dimensions are not validated.
ExecuteUnvalidated(c, r) ==
  /\ Exists(r.cfg)
  /\ Permitted(r, obj[r.cfg].dims)
  /\ r.op = "deletion" => Dependents(r.cfg) = {}
  /\ r.op = "extension" => Exists(r.successor)
  /\ r.id \notin EventIds(r.cfg)
  /\ Apply(r, ResultOf(c, r, obj[r.cfg], Len(chain[r.cfg]) + 1))

\* Engine.Execute as one indivisible step.
Execute(c, r) ==
  /\ Exists(r.cfg)
  /\ r.expected \in {0, obj[r.cfg].rv}
  /\ Permitted(r, obj[r.cfg].dims)
  /\ IF r.op = "deletion"
       THEN Dependents(r.cfg) = {}
       ELSE Validate(Planned(r, obj[r.cfg].dims))
  /\ r.op = "extension" =>
       /\ Exists(r.successor)
       /\ <<r.successor, r.cfg>> \notin edges
  /\ r.id \notin EventIds(r.cfg)
  /\ Apply(r, ResultOf(c, r, obj[r.cfg], Len(chain[r.cfg]) + 1))

LedgerInit ==
  /\ obj \in [Cfg -> {[dims |-> d, rv |-> 1] : d \in Initial} \cup {None}]
  /\ edges = {}
  /\ chain = [x \in Cfg |-> <<>>]

LedgerNext == \E c \in Client, r \in Requests : Execute(c, r)

LedgerSpec == LedgerInit /\ [][LedgerNext]_dbVars

-----------------------------------------------------------------------------
\* Type invariant of the committed state.
LedgerTypeOK ==
  /\ obj \in [Cfg -> Row \cup {None}]
  /\ edges \subseteq Cfg \X Cfg
  /\ chain \in [Cfg -> Seq(Event)]

\* The audit chain of an object explains its row: events are numbered without
\* a gap, an object whose chain ends in a removal has no row, and otherwise
\* the row holds exactly the dimensions and the version of the last event, one
\* version per event (the "can never exist without its audit event" claim of
\* Engine.Execute).
ChainExplainsObject ==
  \A x \in Cfg : LET n == Len(chain[x]) IN
    /\ \A i \in 1..n : chain[x][i].seq = i
    /\ \A i \in 1..n : chain[x][i].removed => i = n
    /\ n > 0 => obj[x] = IF chain[x][n].removed THEN None
                         ELSE [dims |-> chain[x][n].dims, rv |-> n + 1]
    /\ Exists(x) => obj[x].rv = n + 1

\* An extends edge exists exactly while both objects do and an extension event
\* of the base names the successor: no edge without its event, no event whose
\* edge was lost, no edge left behind by a removal (RecordEdge, RemoveObject).
ExtensionsAreAudited ==
  \A s, x \in Cfg :
    <<s, x>> \in edges <=>
      /\ Exists(s) /\ Exists(x)
      /\ \E i \in DOMAIN chain[x] :
           chain[x][i].op = "extension" /\ chain[x][i].successor = s

\* A key is used at most once per chain, whatever the retries (ECR-05).
RecordedAtMostOnce ==
  \A x \in Cfg : \A i, j \in DOMAIN chain[x] :
    chain[x][i].id = chain[x][j].id => i = j

\* Nothing brings a withdrawn object back into force: once a chain holds a
\* withdrawal, later events keep the object withdrawn and never active, up to
\* its removal (planTransition's preconditions taken together).
WithdrawalIsFinal ==
  \A x \in Cfg : \A i, j \in DOMAIN chain[x] :
    chain[x][i].op = "withdrawal" /\ i <= j /\ ~chain[x][j].removed =>
      /\ chain[x][j].dims.lifecycle = "withdrawn"
      /\ chain[x][j].dims.authority # "active"

\* State Model 9.3 as Validate enforces it: an object in the current baseline is
\* never historical, along any sequence of operations.
BaselineNeverHistorical == \A x \in Cfg : Exists(x) => Validate(obj[x].dims)

\* A governed Deletion never takes an object that another one still extends,
\* and audit chains only grow (append-only audit_event).
NoDependentIsOrphaned ==
  [][/\ \A x \in Cfg : Exists(x) /\ ~Exists(x)' => Dependents(x) = {}
     /\ \A x \in Cfg : SubSeq(chain'[x], 1, Len(chain[x])) = chain[x]]_dbVars
=============================================================================
