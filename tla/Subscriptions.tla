--------------------------- MODULE Subscriptions ---------------------------
(***************************************************************************)
(* Administration of webhooks and policies (handlers_webhooks.go,          *)
(* handlers_policies.go): the same four handlers over two tables.  PATCH   *)
(* reads the row, merges the request in memory and writes the whole row    *)
(* back, in two statements and without a version check.                    *)
(***************************************************************************)
EXTENDS Outbox

CONSTANTS
  Admin,    \* administrators with a PATCH in flight
  Patches   \* PATCH bodies: records with some of a Subscription's fields

\* patchWebhook, patchPolicy: the request's fields over the row that was read.
Merge(h, p) == [f \in DOMAIN h |-> IF f \in DOMAIN p THEN p[f] ELSE h[f]]

ASSUME PatchesAreClosed ==
  \A h \in Subscription, p \in Patches : Merge(h, p) \in Subscription

VARIABLES
  patch,  \* what each administrator is about to write: [id, row], or None
  gone,   \* ids of deleted rows; ids are random and never used again
  since   \* history: how long each chain was when a row was last written

adminVars == <<patch, gone, since>>

Written(w) ==
  since' = [since EXCEPT ![w] = [x \in Chain |-> Len(log[x])]]

Create(w, h) ==
  /\ subs[w] = None /\ w \notin gone
  /\ subs' = [subs EXCEPT ![w] = h]
  /\ Written(w)
  /\ UNCHANGED <<log, items, faults, patch, gone>>

PatchGet(a, w, p) ==
  /\ patch[a] = None
  /\ subs[w] # None
  /\ patch' = [patch EXCEPT ![a] = [id |-> w, row |-> Merge(subs[w], p)]]
  /\ UNCHANGED <<tableVars, faults, gone, since>>

\* Mutant: an upsert.
PatchUpsert(a) ==
  /\ patch[a] # None
  /\ subs' = [subs EXCEPT ![patch[a].id] = patch[a].row]
  /\ patch' = [patch EXCEPT ![a] = None]
  /\ Written(patch[a].id)
  /\ UNCHANGED <<log, items, faults, gone>>

\* UPDATE ... WHERE id: no row is affected once it is gone (404).
PatchUpdate(a) ==
  /\ patch[a] # None
  /\ subs' = [w \in Subscriber |->
                IF w = patch[a].id /\ subs[w] # None
                  THEN patch[a].row ELSE subs[w]]
  /\ patch' = [patch EXCEPT ![a] = None]
  /\ Written(patch[a].id)
  /\ UNCHANGED <<log, items, faults, gone>>

\* The row goes; its deliveries or executions are kept.
Delete(w) ==
  /\ subs[w] # None
  /\ subs' = [subs EXCEPT ![w] = None]
  /\ gone' = gone \cup {w}
  /\ UNCHANGED <<log, items, faults, patch, since>>

-----------------------------------------------------------------------------
AdminInit ==
  /\ patch = [a \in Admin |-> None]
  /\ gone = {}
  /\ since = [w \in Subscriber |-> [x \in Chain |-> 0]]

AdminNext(edited) ==
  \/ \E w \in edited : \/ \E h \in Subscription : Create(w, h)
                       \/ \E a \in Admin, p \in Patches : PatchGet(a, w, p)
                       \/ Delete(w)
  \/ \E a \in Admin : PatchUpdate(a)

AdminTypeOK ==
  /\ patch \in [Admin -> [id: Subscriber, row: Subscription] \cup {None}]
  /\ gone \subseteq Subscriber
  /\ since \in [Subscriber -> [Chain -> Nat]]

\* A deleted webhook or policy stays deleted, also when a PATCH that read it
\* before writes it afterwards (UPDATE, never an upsert).
DeletedStaysDeleted == \A w \in gone : subs[w] = None
=============================================================================
