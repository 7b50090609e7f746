SPECIFICATION Spec
CONSTANTS
  dispatcher = dispatcher
  employee = employee
  hotel = hotel
  Users = {dispatcher, employee}
  Dispatchers = {dispatcher}
  Hotels = {hotel}
  Home <- MCHome
  Tabs = {t1, t2}
  Jobs = {j1, j2}
  MaxEvents = 3
  Legacy <- MCLegacy
  None = None
SYMMETRY Names
INVARIANTS
  DeactivatedIsOut
PROPERTIES
  TabKeepsHotel
