------------------------------- MODULE Stages -------------------------------
(***************************************************************************)
(* The stage machine of the sales pipeline, app/engines/pipeline/stages.py,*)
(* and the submission statuses of app/models/pipeline.py.  Pure operators: *)
(* no variables, no database.                                              *)
(***************************************************************************)
EXTENDS Naturals, Sequences

\* The forward ladder; its order defines "forward".
STAGE_ORDER ==
  << "REQUIREMENT_IDENTIFIED", "MATCHED", "QUALIFIED", "CONTACTED",
     "CV_SUBMITTED", "INTERVIEW", "COMMERCIAL_NEGOTIATION", "SELECTED",
     "PO_CONTRACT", "DEPLOYED", "BILLING", "EXTENSION_REDEPLOYMENT" >>

TERMINAL_STAGES == { "LOST", "DROPPED" }

OpportunityStage ==
  { STAGE_ORDER[i] : i \in DOMAIN STAGE_ORDER } \cup TERMINAL_STAGES

OpportunityDecision == { "PURSUE", "HOLD", "DECLINE" }

STAGES_REQUIRING_SUBMISSION == { "CV_SUBMITTED", "INTERVIEW", "SELECTED" }

STAGES_REQUIRING_REASON == TERMINAL_STAGES

is_terminal(stage) == stage \in TERMINAL_STAGES

\* Position on the ladder, from 0; terminal stages sit past the end.
stage_index(stage) ==
  IF is_terminal(stage)
  THEN Len(STAGE_ORDER)
  ELSE (CHOOSE i \in DOMAIN STAGE_ORDER : STAGE_ORDER[i] = stage) - 1

is_forward(current, target) == stage_index(target) > stage_index(current)

\* Any move is legal except standing still and closing what is closed.
can_transition(current, target) ==
  /\ current # target
  /\ ~ (is_terminal(current) /\ is_terminal(target))

-----------------------------------------------------------------------------
SubmissionStatus ==
  { "DRAFT", "SUBMITTED", "SHORTLISTED", "INTERVIEW", "SELECTED",
    "REJECTED", "WITHDRAWN", "ON_HOLD" }

\* The statuses that occupy the seat of a (requirement, consultant) pair.
BLOCKING_SUBMISSION_STATUSES == SubmissionStatus \ { "REJECTED", "WITHDRAWN" }

\* The stage a submission outcome implies for its opportunity.
SUBMISSION_STAGE_HINTS ==
  [ status \in { "SUBMITTED", "SHORTLISTED", "INTERVIEW", "SELECTED" } |->
      CASE status = "INTERVIEW" -> "INTERVIEW"
        [] status = "SELECTED"  -> "SELECTED"
        [] OTHER                -> "CV_SUBMITTED" ]

InterviewOutcome ==
  { "SCHEDULED", "COMPLETED", "PASSED", "FAILED", "NO_SHOW", "RESCHEDULED",
    "CANCELLED" }
=============================================================================
