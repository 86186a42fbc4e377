SPECIFICATION Spec
SYMMETRY Permuted
CONSTANTS
  None = None
  Sessions = {x1, x2}
  Requirements = {r1}
  Resources = {c1}
  SubmissionIds = {s1, s2}
  MaxRounds = 0
  StageInputs = {"MATCHED", "LOST"}
  StatusInputs = {"DRAFT", "SUBMITTED", "REJECTED"}
  OutcomeInputs = {}
  DecisionInputs = {}
INVARIANTS
  OneLiveSubmission
