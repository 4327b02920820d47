------------------------------ MODULE MCLedger ------------------------------
(* Small instances of Ledger for TLC. *)
EXTENDS Ledger, TLC

CONSTANTS a, b, c1, k1, k2, k3, k4

\* Everything the registry accepts: POST /v1/artifacts takes any dimensions that
\* pass Validate.
MCInitial == {d \in Dimensions : Validate(d)}

Req(op, x, k, t, s) ==
  [op |-> op, cfg |-> x, id |-> k, expected |-> 0, target |-> t,
   successor |-> s]

Plain == {"ratification", "approval", "suspension", "deprecation",
          "withdrawal", "deletion", "amendment"}

\* Every operation, unconditional.
MCRequests ==
  {Req(op, x, k, "", None) : op \in Plain, x \in Cfg, k \in OpId}
    \cup {Req("archiving", x, k, t, None) : x \in Cfg, k \in OpId,
            t \in RetentionClass}
    \cup {Req("extension", x, k, "", s) : x \in Cfg, k \in OpId,
            s \in Cfg \cup {None}}

Symmetry == Permutations(OpId)
=============================================================================
