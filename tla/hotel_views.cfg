SPECIFICATION MCSpec
CONSTANTS
  Writers = {w1, w2}
  Readers = {r1, r2}
  Screens = {s}
  today = today
  tomorrow = tomorrow
  Windows = {today, tomorrow}
  Pages = {"plans"}
  Kinds = {"booking", "grid", "prices", "rooms"}
  MaxChanges = 2
  MaxFaults = 1
  None = None
INVARIANTS
  OwnSaveSeen
  ScreenBehindOnlyByBlemish
PROPERTIES
  CachesSettle
CHECK_DEADLOCK FALSE
