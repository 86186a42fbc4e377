SPECIFICATION SpecUndisturbed
SYMMETRY Permuted
CONSTANTS
  FirstYear = 2026
  FirstWeekday = 3
  Years = 2
  Sessions = {x1}
  Resources = {c1}
  SubmissionIds = {s1}
  candidate <- SameCandidate
  DeploymentIds = {d1, d2}
  NoSubmission = NoSubmission
  NoAmount = NoAmount
  Dates = {350}
  StartInputs = {350}
  EndInputs = {0}
  Horizon = 40
  RateInputs = {2200, NoAmount}
  CostInputs = {1100}
  AmountInputs = {5}
  StatusInputs = {"ON_HOLD"}
  BillingInputs = {"CONFIRMED"}
PROPERTIES
  RequestsAreAtomic
