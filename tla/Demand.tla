------------------------------- MODULE Demand -------------------------------
(***************************************************************************)
(* Requirements and the pipeline that works on them.  The two services     *)
(* share the requirements table: the pipeline looks a requirement up by    *)
(* its id alone (services/pipeline.py, ensure and create).                 *)
(***************************************************************************)
EXTENDS Requirements

CONSTANTS
  Resources, SubmissionIds, MaxRounds,
  StageInputs, SubmissionInputs, OutcomeInputs, DecisionInputs

VARIABLES opportunities, submissions, interviews, awaiting_review

P == INSTANCE Pipeline WITH StatusInputs <- SubmissionInputs

pursuit == << opportunities, submissions, interviews, awaiting_review >>

vars == << demand, pursuit >>

Init == RequirementsInit /\ P!Init

\* A request of the pipeline, on requirements that exist, in whatever state of
\* review or of archival they are.
PipelineNext ==
  /\ P!Next
  /\ DOMAIN opportunities' \subseteq DOMAIN requirements
  /\ UNCHANGED demand

Next ==
  \/ RequirementsNext /\ UNCHANGED pursuit
  \/ PipelineNext

Spec == Init /\ [][Next]_vars

\* "A confident-looking but wrong extraction can never quietly drive a
\* submission": no submission is made on a requirement awaiting review.
DraftDrivesNoSubmission ==
  \A s \in DOMAIN submissions :
    ~ is_awaiting_review(requirements[submissions[s].requirement])
=============================================================================
