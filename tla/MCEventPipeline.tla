-------------------------- MODULE MCEventPipeline --------------------------
(* Small instances of EventPipeline, over webhooks and over policies. *)
EXTENDS EventPipeline, Filters, TLC

CONSTANTS r1, r2, s, v, x, y, a, j1, j2

Ev(op, who, t) == [operation |-> op, actor |-> who, at |-> t,
                   metadata |-> [target_authority |-> op]]

MCEvents == {Ev("extension", "ann", 1), Ev("deletion", "bob", 2)}
MCOneEvent == {Ev("extension", "ann", 1)}

Hook(on, R) == [enabled |-> on, operations |-> {"extension"},
                resources |-> R, maxRetries |-> 2]

\* On one object, or on all.
MCWebhooks == {Hook(on, {x}) : on \in BOOLEAN}
MCCatchAll == {Hook(on, {}) : on \in BOOLEAN}

\* One by actor, one by payload.
Policy(who, meta) ==
  [enabled |-> TRUE, operations |-> {}, resources |-> {}, actors |-> who,
   metadata |-> meta, maxRetries |-> 2]

MCPolicies == {Policy({}, [target_authority |-> "deletion"]),
               Policy({"ann"}, <<>>)}

MCSwitch == {[enabled |-> TRUE], [enabled |-> FALSE]}
MCDisable == {[enabled |-> FALSE]}
MCNone == {}

\* Windows with one open end, and a re-send by id.
MCOrders == {[webhook |-> s, from |-> 0, to |-> 1, ids |-> {}],
             [webhook |-> s, from |-> 0, to |-> 0, ids |-> {<<s, x, 1, 1>>}],
             [webhook |-> v, from |-> 1, to |-> 0, ids |-> {}]}

Replicas == Permutations(Worker) \cup Permutations(Sender)
=============================================================================
