SPECIFICATION Spec
SYMMETRY Permuted
CONSTANTS
  Requirements = {r1}
  Resources = {c1, c2}
  SubmissionIds = {s1, s2}
  MaxRounds = 1
  StageInputs = {"MATCHED", "CV_SUBMITTED", "COMMERCIAL_NEGOTIATION", "SELECTED", "LOST"}
  StatusInputs = {"DRAFT", "SUBMITTED", "REJECTED", "ON_HOLD"}
  OutcomeInputs = {"PASSED", "FAILED"}
  DecisionInputs = {"DECLINE"}
INVARIANTS
  TypeOK
  OneLiveSubmission
  ColumnsAgree
PROPERTIES
  StageFollowsSubmissions
  StageBackedBySubmission
  SeatsAreExclusive
