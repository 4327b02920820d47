----------------------------- MODULE MCRegistry -----------------------------
(* Small instances of Registry for TLC. *)
EXTENDS Registry

CONSTANTS a, b, c1, c2, k1, k2

\* What POST may store: fresh work and a ratified baseline.
MCInitial ==
  {[lifecycle |-> "draft", retention |-> "working_material",
    authority |-> "non_normative"],
   [lifecycle |-> "ratified", retention |-> "current_baseline",
    authority |-> "active"]}

\* Two PATCHes of valid fields; the second combination fails Validate.
MCPatches ==
  {[lifecycle |-> "draft", retention |-> "working_material",
    authority |-> "active"],
   [lifecycle |-> "ratified", retention |-> "current_baseline",
    authority |-> "historical"]}

Req(op, x, k, n, s) ==
  [op |-> op, cfg |-> x, id |-> k, expected |-> n, target |-> "",
   successor |-> s]

\* One extension and writers to both of its rows.
MCRequests ==
  {Req("extension", a, k1, 0, b), Req("suspension", a, k2, 1, None),
   Req("deletion", b, k1, 0, None)}
=============================================================================
