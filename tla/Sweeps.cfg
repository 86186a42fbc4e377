SPECIFICATION Spec
CONSTANTS
  doc = doc
  opp = opp
  seat = seat
  req = req
  Subjects = {doc, opp, seat, req}
  KindOf <- Watches
  DueInputs <- Dates
  Instants = {0, 48}
  Workers = {x1, x2}
  MaxMoves = 1
  MaxFailures = 1
INVARIANTS
  SweepsTypeOK
PROPERTIES
  ExpiredIsAnnounced
  SlippedIsAnnounced
  LastCallIsMade
CHECK_DEADLOCK FALSE
