SPECIFICATION Spec
SYMMETRY Permuted
CONSTANTS
  None = None
  Sessions = {x1}
  Requirements = {r1}
  Resources = {c1}
  SubmissionIds = {s1, s2}
  MaxRounds = 1
  StageInputs = {"MATCHED", "CV_SUBMITTED", "LOST"}
  StatusInputs = {"DRAFT", "SUBMITTED", "REJECTED", "ON_HOLD"}
  OutcomeInputs = {"PASSED", "FAILED"}
  DecisionInputs = {"PURSUE"}
PROPERTIES
  RequestsAreAtomic
