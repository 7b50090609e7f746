SPECIFICATION MCSpec
CONSTANTS
  Categories = {z1, z2}
  Photos = {y1, y2}
  Files = {file}
  Requests = {x1, x2}
  RoomIds = {y1, y2}
  TypeIds = {z1, z2}
  TaskIds = {y1, y2}
  Desks = {x1, x2}
  Numbers = {n1, n2}
  Codes = {k}
  Statuses = {"CLEAN"}
  Bookings = {b1}
  Emails = {z1, z2}
  Invites = {y1, y2}
  Clients = {x1, x2}
  Nothing = NoRow
  Addresses = {z1, z2}
  Machines = {machine}
  Workers = {x1, x2}
  NoLogin = NoRow
  MAX_PER_EMAIL = 2
  MAX_PER_IP = 3
  Kinds = {}
  NoRow = NoRow
  MaxTails = 1
  MaxLeft = 2
  MaxCapacity = 4
  Nil = NoRow
  Gallery = gallery
  Logo = logo
  Admins = {x1, x2}
  Stays = {guest}
  Currencies = {"RUB"}
  Gone = nobody
  Absent = NoRow
CHECK_DEADLOCK FALSE
SYMMETRY Alike
INVARIANTS
  PhotosExist
  DepartureIsSeen
  GapIsFound
  HotelLeavesInOrder
  OneOwnerByInvite
  GuessesAreBounded
