CONSTANTS
  a = a
  b = b
  near = near
  far = far
  va = va
  vb = vb
  home = home
  away = away
  n = n
  Clusters = {a, b}
  Templates = {near, far}
  TemplateRegion <- RegionsOf
  Names = {n}
  Versions = {va, vb}
  VersionOf <- VersionsOf
  Regions = {home, away}
  HomeRegion = home
  LastPage = 4
  LoadSlots = {l1, l2}
  SubmitSlots = {s1, s2}
  None = None
SPECIFICATION MCSpec
SYMMETRY SlotSymmetry
INVARIANTS
  DraftOK
  UpdateIsOfOneCluster
  DryRunNeverEdits
  OneSubmission
  WaitsRightly
CHECK_DEADLOCK FALSE
