---------------------------- MODULE MCGovernance ----------------------------
(* Small instances of Governance for TLC. *)
EXTENDS Governance, TLC

CONSTANTS a, b, c1, c2, k1, k2

\* Fresh work: the only objects a Deletion accepts.
MCInitial ==
  {[lifecycle |-> "draft", retention |-> "working_material",
    authority |-> "non_normative"]}

Req(op, x, k, n, t, s) ==
  [op |-> op, cfg |-> x, id |-> k, expected |-> n, target |-> t,
   successor |-> s]

\* Operations that touch one another's rows, with and without If-Match.
RacingRequests ==
  {Req("deletion", a, k, 0, "", None) : k \in OpId}
    \cup {Req("suspension", a, k, 1, "", None) : k \in OpId}
    \cup {Req("extension", xs[1], k, 0, "", xs[2]) :
             xs \in {<<a, b>>, <<b, a>>}, k \in OpId}

\* Extensions that cross, and a writer to one of the rows.
CrossingRequests ==
  {Req("extension", a, k1, 0, "", b), Req("extension", b, k1, 0, "", a),
   Req("suspension", a, k2, 0, "", None)}

Symmetry == Permutations(Client) \cup Permutations(OpId)
=============================================================================
