SPECIFICATION MCSpec
CONSTANTS
  Attempts = {a1, a2}
  Keys = {k1}
  Bodies = {x, y}
  None = None
  Limbo = Limbo
  Nil = Nil
  Bookings = {b1, b2}
  Rooms = {r1, r2}
  Desks = {screen}
  Capacity <- MCCapacity
  Rack <- MCRack
  Starts <- MCStarts
  Contacts = {"", "phone"}
  Blank = ""
  LastDay = 2
  MaxChanges = 2
  r1 = r1
  r2 = r2
  b1 = b1
  b2 = b2
INVARIANTS
  RejectionIsFinal
PROPERTIES
  PromiseKept
  Answered
  ConfirmedIsDone
  PriceStays
