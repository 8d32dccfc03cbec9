CONSTANTS
  plain = a
  hiding = b
  home = home
  away = away
  None = None
  Error = Error
  Clusters = {a,b}
  Regional = {b}
  Regions = {home, away}
  HomeRegion = home
  Clouds <- TwoRegions
  MaxFlight = 2
  MaxFails = 1
  ConsoleUses <- LiveUses
  MaxSwitches = 1
SPECIFICATION FairMCSpec
PROPERTIES
  ViewsConverge
  SpinnerEnds
CHECK_DEADLOCK FALSE
