SPECIFICATION Spec
SYMMETRY Alike
CONSTRAINTS RoutesOrContacts OneEntity MatchesOrScores
CONSTANTS
  None = None
  Unusable = Unusable
  Requirements = {r1}
  Sessions = {x1, x2}
  StatusInputs = {"QUALIFIED", "CLOSED_LOST", "CLOSED_WON"}
  RangeInputs <- Ranges
  Payloads <- Parsed
  Kinds = {"MATCH_WEIGHTS", "OPPORTUNITY_WEIGHTS"}
  MaxVersion = 2
  MaxScores = 2
  Resources = {k1, k2}
  Requests = {x1, x2}
  Users = {u1, u2}
  Tokens = {k1, k2}
  Visits = {x1, x2}
  Consultants = {k1, k2}
  Documents = {d1}
  n1 = n1
  n2 = n2
  m1 = m1
  Blank = Blank
  Unreadable = Unreadable
  Names = {n1, n2}
  Marks = {m1}
  Files <- Workbooks
  Ids = {1, 2, 3}
  Batches = {k1, k2}
  Importers = {x1, x2}
  MaxChanges = 2
  NoDate = NoDate
  Expiries = {0, NoDate}
  VisaInputs = {"VALID"}
  MaxIds = 2
  LastDay = 1
  Recruiters = {x1, x2}
  a1 = a1
  a2 = a2
  Companies = {a1, a2}
  RouteKeys <- Routes
  People = {k1, k2}
  Notes = {n1}
  Staff = {u1}
  Clerks = {x1, x2}
INVARIANTS
  RecordsTypeOK
  NextCodeIsFree
PROPERTIES
  ReviewIsAGate
  OnlyOverlapsBreakRows
  RulesStayInOrder
  OnlyOverlapsEndOrder
  ImportsAreAccounted
  ReimportMakesNothing
  OnlyUndoneRequestsLoseFiles
  VisaFollowsDocuments
  OnlyOverlapsDoubleMarks
CHECK_DEADLOCK FALSE
