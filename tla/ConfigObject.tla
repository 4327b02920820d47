---------------------------- MODULE ConfigObject ----------------------------
(***************************************************************************)
(* The dimensions of a Configuration Object (internal/domain) and the pure *)
(* transition rules of the governance engine (internal/governance).        *)
(*                                                                         *)
(* Artifact name, version, role, retention policy and metadata never       *)
(* change under a governed operation and are left out: of                  *)
(* ConfigObject.Validate only the cross-dimension rule can tell two        *)
(* results of an operation apart.                                          *)
(***************************************************************************)

CONSTANT None  \* no value: no row, no lock holder, an empty successor_id

Lifecycle == {"draft", "in_review", "ratified", "approved", "in_progress",
              "complete", "suspended", "deprecated", "withdrawn"}

RetentionClass == {"current_baseline", "current_planning",
                   "historical_record", "superseded_planning",
                   "historical_evidence", "audit_record", "working_material"}

Authority == {"active", "historical", "non_normative"}

Dimensions ==
  [lifecycle: Lifecycle, retention: RetentionClass, authority: Authority]

\* The cross-dimension rule of ConfigObject.Validate (State Model 9.3).
Validate(d) ==
  ~(d.retention = "current_baseline" /\ d.authority = "historical")

-----------------------------------------------------------------------------

ConfigurationOperation ==
  {"ratification", "approval", "extension", "replacement", "suspension",
   "deprecation", "withdrawal", "archiving", "historical_preservation",
   "deletion", "baseline_freeze", "amendment"}

\* The operations planTransition answers with ErrUnsupportedOperation.
Unsupported ==
  {"replacement", "historical_preservation", "baseline_freeze", "amendment"}

\* isArchivalRetention
ArchivalRetention ==
  {"historical_record", "historical_evidence", "audit_record",
   "superseded_planning"}

(***************************************************************************)
(* planTransition: Permitted is its precondition, case by case, and        *)
(* Planned the dimensions it computes.  Extension leaves all dimensions    *)
(* alone (its effect is an edge); Deletion removes the object instead.     *)
(***************************************************************************)
Permitted(cmd, d) ==
  \/ /\ cmd.op \in {"ratification", "approval"}
     /\ d.lifecycle \in {"draft", "in_review"}
  \/ /\ cmd.op = "extension"
     /\ cmd.successor \notin {None, cmd.cfg}
  \/ /\ cmd.op = "suspension"
     /\ d.lifecycle \notin {"withdrawn", "suspended"}
  \/ /\ cmd.op = "deprecation"
     /\ d.authority = "active"
  \/ /\ cmd.op = "withdrawal"
     /\ d.lifecycle # "withdrawn"
  \/ /\ cmd.op = "archiving"
     /\ cmd.target \in ArchivalRetention
  \/ /\ cmd.op = "deletion"
     /\ d.retention = "working_material"

\* Mutant: a withdrawal that leaves the authority alone.
WithdrawnInForce(d) == [d EXCEPT !.lifecycle = "withdrawn"]

Withdrawn(d) ==
  [d EXCEPT !.lifecycle = "withdrawn",
            !.authority = IF d.authority = "active"
                            THEN "historical" ELSE "non_normative"]

Planned(cmd, d) ==
  CASE cmd.op = "ratification" ->
         [lifecycle |-> "ratified", retention |-> "current_baseline",
          authority |-> "active"]
    [] cmd.op = "approval" ->
         [d EXCEPT !.lifecycle = "approved", !.authority = "active"]
    [] cmd.op = "suspension" ->
         [d EXCEPT !.lifecycle = "suspended"]
    [] cmd.op = "deprecation" ->
         [d EXCEPT !.lifecycle = "deprecated", !.authority = "active"]
    [] cmd.op = "withdrawal" -> Withdrawn(d)
    [] cmd.op = "archiving" ->
         [d EXCEPT !.retention = cmd.target]
    [] OTHER -> d
=============================================================================
