SPECIFICATION MCSpec
CONSTANTS
  None = None
  r1 = r1
  r2 = r2
  Rooms = {r1, r2}
  Ids = {b1, b2}
  Procs = {p1, p2}
  Days <- MCDays
  Guests <- MCGuests
  Capacity <- Triple
  MultiPlace = FALSE
  MaxVersion = 3
  Requests <- DeskRequests
SYMMETRY Perms
INVARIANTS
  SharedForAReason
  LostFromSightForAReason
PROPERTIES
  OwingForAReason
