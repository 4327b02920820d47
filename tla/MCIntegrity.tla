---------------------------- MODULE MCIntegrity ----------------------------
(* Small instances of Integrity. *)
EXTENDS Integrity, TLC

CONSTANTS t1, t2, x, y, periodic, admin

In(c, k, what, t) == [chain |-> c, id |-> k, op |-> what,
                      at |-> [us |-> t, ns |-> 1]]

\* Times that PostgreSQL would round up, and two operations; any transaction
\* may send any of them again.
MCInputs == {In(x, "k1", "extension", 1), In(x, "k2", "deletion", 2),
             In(x, "k3", "extension", 3)}

\* Two chains of one event each.
MCTwoChains == {In(x, "k1", "extension", 1), In(y, "k1", "extension", 1)}

Appenders == Permutations(Appender)
=============================================================================
