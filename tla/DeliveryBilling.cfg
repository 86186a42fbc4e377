SPECIFICATION Spec
SYMMETRY Permuted
CONSTANTS
  FirstYear = 2026
  FirstWeekday = 3
  Years = 2
  Resources = {c1}
  SubmissionIds = {s1}
  candidate <- SameCandidate
  DeploymentIds = {d1, d2}
  NoSubmission = NoSubmission
  NoAmount = NoAmount
  Dates = {350, 366}
  StartInputs = {350, 366}
  EndInputs = {366}
  Horizon = 40
  RateInputs = {2200}
  CostInputs = {1100}
  AmountInputs = {NoAmount, 5}
  StatusInputs = {}
  BillingInputs = {"CONFIRMED"}
INVARIANTS
  TypeOK
  ProfitReconciles
  RealisedIsSigned
  NoProjectionAfterEnd
  GenerationIsIdempotent
