SPECIFICATION Spec
CONSTANTS
  Zone = {1, 2}
  Account = {1, 2}
  Field <- MCField
  ZoneOf <- MCZoneOf
  AccountOf <- MCAccountOf
  Acres <- MCAcres
  LastYear = 2
  Budgets = {2, 3}
  Charges = {0, 3}
  Additions <- MCAdditions
  Nothing = Nothing
  MaxEdits = 1
  Openings <- MCOpenings
  MaxToggles = 1
  MaxDeaths = 1
INVARIANTS
  CarryIsStanding
  AccountsAddUp
PROPERTIES
  RerollChangesNothing
