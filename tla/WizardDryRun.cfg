CONSTANTS
  a = a
  b = b
  n = n
  near = near
  far = far
  va = va
  vb = vb
  home = home
  away = away
  Clusters = {a}
  Templates = {}
  TemplateRegion <- RegionsOf
  Names = {}
  Versions = {va}
  VersionOf <- VersionsOf
  Regions = {home}
  HomeRegion = home
  LastPage = 3
  LoadSlots = {1}
  SubmitSlots = {1}
  None = None
SPECIFICATION MCSpec
INVARIANTS
  DryRunMirrorsUpdate
CHECK_DEADLOCK FALSE
