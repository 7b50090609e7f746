SPECIFICATION MCSpec
CONSTANTS
  Writers = {w1, w2}
  Kinds = {"change", "fact", "form", "cancel", "swap"}
  Attempts = 3
  MaxChanges = 2
  MaxFaults = 1
  Bookings = {stay}
  Desks = {clerk}
  Officers = {officer}
  Machines = {m1, m2}
  Nobody = nobody
  CancelledDays = 0
  ContactsDays = 0
  FolioDays = 1
  Shorter <- OwnTerms
  CheckIn = 0
  CheckOut = 0
  Edits = {{}, {"name"}, {"contact"}}
  LastDay = 2
  MaxSaves = 1
  MaxSlips = 1
CHECK_DEADLOCK FALSE
INVARIANTS
  NewestIsHeard
  LiveGuestKnown
  NoTraceIsLeft
PROPERTIES
  EveryChangeTold
  GuestIsForgotten
