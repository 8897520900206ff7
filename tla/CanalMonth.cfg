CONSTANTS
  north = north
  south = south
  ann = ann
  bob = bob
  Nothing = Nothing
  Point <- MCPoint
  Field <- MCField
  Zone <- MCZone
  Account <- MCAccount
  Well <- MCWell
  Districts <- MCDistricts
  Volumes <- MCVolumes
  Losses <- MCLosses
  MaxEdits = 2
SPECIFICATION MonthSpec
INVARIANTS
  WaterAddsUp
  PoolsAddUp
  GroundwaterOnce
  RunAnswersShares
  WithinNeed
PROPERTIES
  RerunChangesNothing
