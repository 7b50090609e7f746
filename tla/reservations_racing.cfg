SPECIFICATION RacingSpec
CONSTANTS
  None = None
  r1 = r1
  r2 = r2
  Rooms = {r1}
  Ids = {b1, b2}
  Procs = {p1, p2}
  Days <- MCDays
  Guests <- Party
  Capacity <- Triple
  MultiPlace = TRUE
  MaxVersion = 3
  Requests <- Racing
SYMMETRY Perms
INVARIANTS
  SpanInRoom
  DepartedHadArrived
