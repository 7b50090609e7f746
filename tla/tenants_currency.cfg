SPECIFICATION TenantsSpec
CONSTANTS
  Admins = {a}
  Stays = {b}
  Currencies = {"RUB", "EUR"}
  Gone = Gone
  Absent = Absent
CHECK_DEADLOCK FALSE
PROPERTIES
  MoneyKeepsCurrency
