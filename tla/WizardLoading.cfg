CONSTANTS
  a = a
  b = b
  n = n
  near = near
  far = far
  va = va
  vb = vb
  home = home
  away = away
  Clusters = {a, b}
  Templates = {}
  TemplateRegion <- RegionsOf
  Names = {}
  Versions = {va, vb}
  VersionOf <- VersionsOf
  Regions = {home}
  HomeRegion = home
  LastPage = 3
  LoadSlots = {1, 2}
  SubmitSlots = {}
  None = None
SPECIFICATION MCSpec
INVARIANTS
  NextDisabledWhileLoading
CHECK_DEADLOCK FALSE
