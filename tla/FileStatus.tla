----------------------------- MODULE FileStatus -----------------------------
(***************************************************************************)
(* The lifecycle of a telemetry file (pipelines/ingestion/state_machine.py) *)
(* and the groups of states the repositories read it through.  The table is *)
(* data: every action that moves a file asks CanTransition, as every        *)
(* _transition helper in the services asks assert_transition_allowed.       *)
(***************************************************************************)

States == {"DISCOVERED", "REGISTERED", "LANDING", "PROFILING",
           "SCHEMA_VALIDATION", "QUALITY_VALIDATION",
           "READY_FOR_NORMALIZATION", "FRAME_RECONSTRUCTION",
           "FRAMES_RECONSTRUCTED", "NORMALIZING", "NORMALIZED",
           "NORMALIZED_WITH_WARNINGS", "COMPLETED", "PARTIAL",
           "DUPLICATE", "QUARANTINED", "FAILED"}

FailureExits == {"FAILED", "QUARANTINED"}

(***************************************************************************)
(* ALLOWED_TRANSITIONS, row by row.                                         *)
(***************************************************************************)
NextStates(s) ==
  CASE s = "DISCOVERED" -> {"REGISTERED", "DUPLICATE"} \cup FailureExits
    [] s = "REGISTERED" -> {"LANDING", "DUPLICATE"} \cup FailureExits
    [] s = "LANDING" -> {"PROFILING"} \cup FailureExits
    [] s = "PROFILING" -> {"SCHEMA_VALIDATION"} \cup FailureExits
    [] s = "SCHEMA_VALIDATION" -> {"QUALITY_VALIDATION"} \cup FailureExits
    [] s = "QUALITY_VALIDATION" ->
         {"READY_FOR_NORMALIZATION", "PARTIAL"} \cup FailureExits
    [] s = "READY_FOR_NORMALIZATION" ->
         {"FRAME_RECONSTRUCTION", "COMPLETED", "FAILED"}
    [] s = "FRAME_RECONSTRUCTION" -> {"FRAMES_RECONSTRUCTED"} \cup FailureExits
    [] s = "FRAMES_RECONSTRUCTED" ->
         {"NORMALIZING", "NORMALIZED", "FRAME_RECONSTRUCTION", "COMPLETED",
          "FAILED"}
    [] s = "NORMALIZING" ->
         {"NORMALIZED", "NORMALIZED_WITH_WARNINGS", "COMPLETED"}
           \cup FailureExits
    [] s \in {"NORMALIZED", "NORMALIZED_WITH_WARNINGS"} ->
         {"NORMALIZING", "COMPLETED"}
    [] s = "PARTIAL" -> {"READY_FOR_NORMALIZATION"} \cup FailureExits
    [] s = "FAILED" -> {"REGISTERED"}
    [] OTHER -> {}

CanTransition(s, t) == t \in NextStates(s)

TerminalStates == {s \in States : NextStates(s) = {}}

(* Seeded error: the states a later phase added are forgotten.              *)
UsableBeforeFrames == {"READY_FOR_NORMALIZATION", "COMPLETED", "PARTIAL"}

(* Telemetry of a file in one of these states counts toward a charger-day.  *)
UsableFileStates ==
  {"READY_FOR_NORMALIZATION", "FRAME_RECONSTRUCTION", "FRAMES_RECONSTRUCTED",
   "NORMALIZING", "NORMALIZED", "NORMALIZED_WITH_WARNINGS", "COMPLETED",
   "PARTIAL"}

(* Seeded error: only the final state counts as ready.                      *)
ReadyOnlyCompleted == {"COMPLETED"}

(* An uploaded file in one of these states is reported as completed.        *)
ReadyStates == {"FRAMES_RECONSTRUCTED", "COMPLETED"}

=============================================================================
