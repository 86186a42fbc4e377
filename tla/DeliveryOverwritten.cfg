SPECIFICATION Spec
SYMMETRY Permuted
CONSTANTS
  FirstYear = 2026
  FirstWeekday = 3
  Years = 2
  Sessions = {x1, x2}
  Resources = {c1}
  SubmissionIds = {s1}
  candidate <- SameCandidate
  DeploymentIds = {d1}
  NoSubmission = NoSubmission
  NoAmount = NoAmount
  Dates = {350, 351}
  StartInputs = {350}
  EndInputs = {0}
  Horizon = 40
  RateInputs = {2200}
  CostInputs = {1100}
  AmountInputs = {5}
  StatusInputs = {}
  BillingInputs = {"CONFIRMED"}
PROPERTIES
  GeneratorSparesRealised
