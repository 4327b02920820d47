------------------------------ MODULE Integrity ------------------------------
(***************************************************************************)
(* Reading the audit chains while they grow: the verifier, the integrity   *)
(* scheduler with its periodic and manual sweeps, and the audit reads of   *)
(* the API.  Rows may be damaged in storage, which the append-only         *)
(* triggers keep the program itself from doing.                            *)
(***************************************************************************)
EXTENDS AuditChain, Sequences, SequencesExt

CONSTANTS
  Sweep,          \* goroutines in RunOnce
  Manual,         \* those started by POST /v1/admin/integrity/run
  RetryAttempts,  \* retries of a chain's verification
  Viewed,         \* chains that clients read
  Limits,         \* page sizes
  Operations,     \* values of the operation filter, "" for none
  MaxEvents,      \* bound on the events of a chain
  MaxManual,      \* bound on manual sweeps
  MaxFaults,      \* bound on failed queries
  MaxDamage       \* bound on damaged rows

ASSUME IntegrityAssumption ==
  /\ Manual \subseteq Sweep /\ Viewed \subseteq Chain
  /\ {RetryAttempts, MaxEvents, MaxManual, MaxFaults, MaxDamage} \subseteq Nat
  /\ Limits \subseteq Nat \ {0}

VARIABLES
  damage,   \* damaged rows so far
  sweep,    \* the report each RunOnce is making, or None
  last,     \* lastRep of the scheduler, or None before the first sweep
  manual,   \* manual sweeps so far
  faults,   \* failed queries so far
  reader    \* a client of the audit reads

sweepVars == <<sweep, last, manual>>
vars == <<chainVars, damage, sweepVars, faults, reader>>
-----------------------------------------------------------------------------
\* ORDER BY seq.
Ascending(rows) == SetToSortSeq(rows, LAMBDA q, r : q.seq < r.seq)
Descending(rows) == SetToSortSeq(rows, LAMBDA q, r : q.seq > r.seq)

\* One event of the stream, unless a break was found before it.
CheckEvent(c, res, e) ==
  LET broken(why) == [res EXCEPT !.break = e.seq, !.reason = why]
      expPrev == IF res.expPrev = None THEN e.prev ELSE res.expPrev
  IN CASE res.break # 0 -> res
       [] res.break = 0 /\ e.seq > res.expSeq -> broken("sequence_gap")
       [] res.break = 0 /\ e.seq < res.expSeq -> broken("sequence_duplicate")
       [] res.break = 0 /\ e.seq = res.expSeq /\ e.prev # expPrev ->
            broken("prev_hash_mismatch")
       [] res.break = 0 /\ e.seq = res.expSeq /\ e.prev = expPrev
          /\ e.this # ChainHash(c, e.seq, e, e.at, e.prev) ->
            broken("this_hash_mismatch")
       [] OTHER ->
            [res EXCEPT !.checked = @ + 1, !.headSeq = e.seq,
                        !.expPrev = e.this, !.expSeq = e.seq + 1]

\* VerifyRange with toSeq = MaxInt64: one SELECT, hence one snapshot.  Only a
\* range from 1 is held against the genesis hash.
VerifyFrom(c, from) ==
  FoldLeft(LAMBDA res, e : CheckEvent(c, res, e),
           [checked |-> 0, headSeq |-> 0, break |-> 0, reason |-> "",
            expSeq |-> from,
            expPrev |-> IF from = 1 THEN GenesisPrevHash ELSE None],
           Ascending({e \in events[c] : e.seq >= from}))

\* Mutant: starts at the second event.
VerifyFromSecond(c) == VerifyFrom(c, 2)

VerifyChain(c) == VerifyFrom(c, 1)
OK(res) == res.break = 0
-----------------------------------------------------------------------------
Idle == [at |-> "idle"]

Init ==
  /\ ChainInit
  /\ damage = 0
  /\ sweep = [s \in Sweep |-> None]
  /\ last = None
  /\ manual = 0
  /\ faults = 0
  /\ reader = Idle

AppendEvent(t) ==
  /\ AppendStep(t)
  /\ pc[t] = "idle" => Cardinality(written[in'[t].chain]) < MaxEvents
  /\ UNCHANGED <<damage, sweepVars, faults, reader>>

DamageEvent(c, e) ==
  /\ damage < MaxDamage
  /\ e \in written[c]
  /\ Damage(c, e)
  /\ damage' = damage + 1
  /\ UNCHANGED <<sweepVars, faults, reader>>

\* Damage a verifier can see: a row that is not as it was, or a row missing
\* below another.
Damaged(c) ==
  \/ ~(events[c] \subseteq written[c])
  \/ \E r \in events[c] : \E n \in 1 .. r.seq : \A q \in events[c] : q.seq # n
-----------------------------------------------------------------------------
Report(chains) ==
  [todo |-> chains, total |-> Cardinality(chains), ok |-> 0, failures |-> {},
   errors |-> {}, tries |-> 0, damagedAtStart |-> {c \in chains : Damaged(c)}]

Healthy(rep) == rep.failures = {} /\ rep.errors = {}

\* A failed query, or one cut off by RunTimeout.
Fault == faults < MaxFaults /\ faults' = faults + 1

\* ListChainIDs at the start of RunOnce, by the ticker or by an administrator.
ListChains(s) ==
  /\ sweep[s] = None
  /\ s \in Manual => manual < MaxManual
  /\ manual' = IF s \in Manual THEN manual + 1 ELSE manual
  /\ \/ /\ sweep' = [sweep EXCEPT ![s] = Report({c \in Chain : head[c] # GenesisHead})]
        /\ UNCHANGED <<last, faults>>
     \/ /\ Fault
        /\ last' = [Report({}) EXCEPT !.errors = {None}]
        /\ UNCHANGED sweep
  /\ UNCHANGED <<chainVars, damage, reader>>

\* What is found of chain c goes to the report; c is done.
Found(rep, c, res) ==
  IF OK(res)
    THEN [rep EXCEPT !.todo = @ \ {c}, !.tries = 0, !.ok = @ + 1]
    ELSE [rep EXCEPT !.todo = @ \ {c}, !.tries = 0, !.failures = @ \cup {c}]

\* Mutant: a chain that could not be read is passed over.
FailedSilently(rep, c) ==
  IF rep.tries < RetryAttempts
    THEN [rep EXCEPT !.tries = @ + 1]
    ELSE [rep EXCEPT !.todo = @ \ {c}, !.tries = 0]

Failed(rep, c) ==
  IF rep.tries < RetryAttempts
    THEN [rep EXCEPT !.tries = @ + 1]
    ELSE [rep EXCEPT !.todo = @ \ {c}, !.tries = 0, !.errors = @ \cup {c}]

\* verifyWithRetry: only errors are tried again.  The code takes the chains in
\* the order of their ids, on which nothing here depends.
VerifyNext(s) ==
  /\ sweep[s] # None
  /\ \E c \in sweep[s].todo :
       \/ /\ sweep' = [sweep EXCEPT ![s] = Found(@, c, VerifyChain(c))]
          /\ UNCHANGED faults
       \/ /\ sweep' = [sweep EXCEPT ![s] = Failed(@, c)]
          /\ Fault
  /\ UNCHANGED <<chainVars, damage, last, manual, reader>>

\* Mutant: keeps the first report.
StoreFirstReport(s) ==
  /\ sweep[s] # None
  /\ sweep[s].todo = {}
  /\ last' = IF last = None THEN sweep[s] ELSE last
  /\ sweep' = [sweep EXCEPT ![s] = None]
  /\ UNCHANGED <<chainVars, damage, manual, faults, reader>>

\* The end of RunOnce; the later to finish overwrites the earlier.
StoreReport(s) ==
  /\ sweep[s] # None
  /\ sweep[s].todo = {}
  /\ last' = sweep[s]
  /\ sweep' = [sweep EXCEPT ![s] = None]
  /\ UNCHANGED <<chainVars, damage, manual, faults, reader>>

\* The administrator goes away: the next chain is an error, the rest of the
\* chains are left out, and the report is stored all the same.
Cancelled(s) ==
  /\ s \in Manual
  /\ sweep[s] # None
  /\ \E c \in sweep[s].todo :
       last' = [sweep[s] EXCEPT !.errors = @ \cup {c}, !.todo = {}, !.tries = 0]
  /\ sweep' = [sweep EXCEPT ![s] = None]
  /\ UNCHANGED <<chainVars, damage, manual, faults, reader>>

SweepStep(s) ==
  \/ ListChains(s)
  \/ VerifyNext(s)
  \/ StoreReport(s)
  \/ Cancelled(s)
-----------------------------------------------------------------------------
Matching(c, op) == {e \in events[c] : op = "" \/ e.op = op}

\* getAuditChain reads the head (0 when there is none), then verifies.
ReadHead(c) ==
  /\ reader = Idle
  /\ reader' = [at |-> "head", chain |-> c,
                headSeq |-> head[c].seq]

AnswerChain ==
  /\ reader.at = "head"
  /\ LET res == VerifyChain(reader.chain)
     IN reader' = [at |-> "answer", headSeq |-> reader.headSeq,
                   verified |-> OK(res), checked |-> res.checked]

\* Mutant: the page starts at the cursor.
ListFromCursor(c, cursor, desc, limit, op) ==
  LET rows == IF desc
                THEN Descending({e \in Matching(c, op) : cursor = None \/ e.seq <= cursor})
                ELSE Ascending({e \in Matching(c, op) : cursor = None \/ e.seq >= cursor})
  IN SubSeq(rows, 1, IF Len(rows) < limit THEN Len(rows) ELSE limit)

\* The rows after cursor, at most limit of them; 0 and MaxInt64 start a list.
ListEvents(c, cursor, desc, limit, op) ==
  LET rows == IF desc
                THEN Descending({e \in Matching(c, op) : cursor = None \/ e.seq < cursor})
                ELSE Ascending({e \in Matching(c, op) : cursor = None \/ e.seq > cursor})
  IN SubSeq(rows, 1, IF Len(rows) < limit THEN Len(rows) ELSE limit)

\* getAuditEvents, and getGovernanceHistory with desc = FALSE: a full page
\* has a next_cursor, which the client follows.
FirstPage(c, desc, limit, op) ==
  LET page == ListEvents(c, None, desc, limit, op)
  IN /\ reader = Idle
     /\ reader' = [at |-> IF Len(page) = limit THEN "pages" ELSE "listed",
                   chain |-> c, desc |-> desc, limit |-> limit, op |-> op,
                   got |-> page, atStart |-> Matching(c, op)]

NextPage ==
  /\ reader.at = "pages"
  /\ LET page == ListEvents(reader.chain, reader.got[Len(reader.got)].seq,
                            reader.desc, reader.limit, reader.op)
     IN reader' = [reader EXCEPT
                     !.got = @ \o page,
                     !.at = IF Len(page) = reader.limit THEN "pages" ELSE "listed"]

\* The client is done, or a request failed or found the object gone.
Leave == reader # Idle /\ reader' = Idle

Read ==
  /\ \/ \E c \in Viewed :
          \/ ReadHead(c)
          \/ \E desc \in BOOLEAN, limit \in Limits, op \in Operations :
               FirstPage(c, desc, limit, op)
     \/ AnswerChain
     \/ NextPage
     \/ Leave
  /\ UNCHANGED <<chainVars, damage, sweepVars, faults>>
-----------------------------------------------------------------------------
Next ==
  \/ \E t \in Appender : AppendEvent(t)
  \/ \E c \in Chain : \E e \in events[c] : DamageEvent(c, e)
  \/ \E s \in Sweep : SweepStep(s)
  \/ Read

Spec == Init /\ [][Next]_vars

\* The ticker starts sweep after sweep, and a sweep runs on.
FairSpec == Spec /\ \A s \in Sweep \ Manual : WF_vars(SweepStep(s))
-----------------------------------------------------------------------------
Rows == UNION {events[c] \cup written[c] : c \in Chain}

TypeOK ==
  /\ \A c \in Chain : head[c].seq \in 0 .. MaxEvents + Cardinality(Appender)
  /\ lock \in [Chain -> Appender \cup {None}]
  /\ pc \in [Appender -> {"idle", "ensured", "locked", "appended"}]
  /\ in \in [Appender -> Inputs \cup {None}]
  /\ \A e \in Rows : e.seq \in Nat \ {0} /\ e.at \in Time
  /\ damage \in 0 .. MaxDamage /\ faults \in 0 .. MaxFaults /\ manual \in 0 .. MaxManual
  /\ \A s \in Sweep : sweep[s] # None => sweep[s].tries \in 0 .. RetryAttempts
  /\ reader.at \in {"idle", "head", "answer", "pages", "listed"}

\* The verifier accepts every undamaged chain up to its head, from any start,
\* and rejects every other but one that only lost its last rows; below the
\* break it names, no row was changed (VerifyRange, over what AppendTx wrote
\* and PostgreSQL rounded).
VerifyIsExact ==
  \A c \in Chain :
    LET res == VerifyChain(c)
    IN /\ OK(res) <=> ~Damaged(c)
       /\ events[c] = written[c] =>
            /\ res.headSeq = head[c].seq
            /\ \A e \in events[c] : OK(VerifyFrom(c, e.seq))
       /\ \A e \in events[c] : OK(res) \/ e.seq < res.break => e \in written[c]

\* A healthy report is about every chain, and none was damaged when its sweep
\* began: errors, retries and cancellation never hide one (RunOnce).
HealthyIsTrue ==
  last # None /\ Healthy(last) =>
    last.damagedAtStart = {} /\ last.ok = last.total

\* A verified answer of getAuditChain covers the head it shows, although the
\* head is read before the rows.
AnswerCoversHead ==
  reader.at = "answer" /\ damage = 0 =>
    reader.verified /\ reader.checked >= reader.headSeq

\* Following next_cursor to the end gives, in order and once each, all the
\* events there were at the start, and no hole among those that came later.
PagesAreExact ==
  reader.at = "listed" /\ damage = 0 =>
    LET got == reader.got
    IN /\ \A i \in 1 .. Len(got) - 1 :
            IF reader.desc THEN got[i].seq > got[i + 1].seq
                           ELSE got[i].seq < got[i + 1].seq
       /\ reader.atStart \subseteq ToSet(got)
       /\ \A e \in Matching(reader.chain, reader.op) :
            (\E g \in ToSet(got) : e.seq <= g.seq) => e \in ToSet(got)

\* Damage that stays is reported by the scheduler and stays reported, although
\* an older sweep may finish late and overwrite a newer report (storeReport).
DamageIsReported ==
  \A c \in Chain :
    <>[]Damaged(c) => <>[](last # None /\ ~Healthy(last))
=============================================================================
