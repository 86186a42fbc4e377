SPECIFICATION Spec
CONSTANTS
  None = None
  Unusable = Unusable
  Requirements = {r1}
  Sessions = {x1}
  StatusInputs = {"QUALIFIED", "CLOSED_LOST"}
  RangeInputs <- Ranges
  Payloads <- Parsed
  Resources = {c1}
  SubmissionIds = {s1}
  MaxRounds = 1
  StageInputs = {"CV_SUBMITTED"}
  SubmissionInputs = {"SUBMITTED"}
  OutcomeInputs = {"PASSED"}
  DecisionInputs = {}
INVARIANTS
  DraftDrivesNoSubmission
