CONSTANTS
  a = a
  b = b
  n = n
  near = near
  far = far
  va = va
  vb = vb
  home = home
  away = away
  Clusters = {}
  Templates = {}
  TemplateRegion <- RegionsOf
  Names = {n}
  Versions = {va}
  VersionOf <- VersionsOf
  Regions = {home, away}
  HomeRegion = home
  LastPage = 3
  LoadSlots = {}
  SubmitSlots = {1}
  None = None
SPECIFICATION MCSpec
INVARIANTS
  CreatesNameAVersion
CHECK_DEADLOCK FALSE
