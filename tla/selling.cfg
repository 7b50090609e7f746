SPECIFICATION MCSpec
CONSTANTS
  Scenes = {"tariffs", "rules", "calendar", "sheets", "slices", "text", "rooms", "stays", "prices"}
  Plans = {t1, t2}
  Workers = {w1, w2}
  Partners <- MCPartners
  Kars = Kars
  other = other
  Accounts = {a}
  Customers = {client}
  a = a
  client = client
  OwnerOf <- MCOwnerOf
  GuestKinds = {}
  Meals = {"none", "full"}
  Same = Same
  None = None
  Creates <- MCCreates
  Updates <- MCUpdates
  Lists <- MCLists
  DailyEdits <- MCDailyEdits
  StandardEdits <- MCStandardEdits
  SeasonEdits <- MCSeasonEdits
  Nights = {1}
  Parties = {1, 2}
  BaseGuests = 2
  MaxEdits = 5
  Unset = Unset
  Tariffs = {t}
  LastDay = 2
  Desks = {k1, k2}
  Bodies <- MCBodies
  GridBodies <- MCGridBodies
  MaxRooms = 1
  MaxSaves = 3
  Closed = Closed
  Blocks = {0, 1}
  Lengths = {2}
  Nothing = Nothing
  Rooms = {r1, r2}
  DoorNumber <- MCNumber
  Capacity <- MCCapacity
  MaxOccupancy = 2
  Bookings = {b1, b2}
  Calls = {w1, w2}
  PartySizes = {1, 2}
  Orders = {{0}, {1}}
  Starts <- MCStarts
  Horizon = 2
  Pool <- MCPool
  Contract = "ours"
  ContractNumbers <- MCNumbers
  Tabs = {w1, w2}
  Nil = Nil
  MaxTries = 3
  MaxChanges = 2
  Screens = {screen}
  Tariff = tariff
  Beds = 2
  Typed = {5}
  FinalDay = 1
  MaxSeasons = 2
  MaxWrites = 2
  r1 = r1
  r2 = r2
  b1 = b1
  b2 = b2
  single = single
  double = double
CHECK_DEADLOCK FALSE
SYMMETRY Alike
INVARIANTS
  PickedDifferByMeal
  BookableKnowsRules
  ContractIsFilledIn
  RefusedForAnotherContract
  NothingIsLost
  RefusedOnlyIfChanged
  MealsAreOneOrder
  SavedForItsGuests
  CalendarShowsOffer
PROPERTIES
  PartnerPriceStable
