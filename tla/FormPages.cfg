CONSTANTS
  plain = plain
  efa = efa
  hpc = hpc
  Nil = Nil
  InstanceTypes = {plain, efa, hpc}
  DefaultType = plain
  EfaTypes = {efa, hpc}
  HpcTypes = {hpc}
  BurstTypes = {plain}
  Subnets = {"s1", "s2"}
  HeadNodeSubnet = "s1"
  FlagsOffered <- FlagSets
  MaxQueues = 2
  MaxPerQueue = 2
  MaxPerCluster = 3
  QueueSections <- QueueTemplates
  SlurmSections <- SlurmTemplates
  Unnamed = unnamed
  QueueNames = {unnamed, q}
  Reservations = {"cr-1"}
  Counts <- TypedCounts
  home = home
  away = away
  v1 = v1
  v2 = v2
  v3 = v3
  k1 = k1
  k2 = k2
  k3 = k3
  gone = gone
  empty = empty
  DraftRegions = {home, away, empty}
  Home = home
  Vpcs = {v1,v2,v3}
  RegionOfVpc <- RegionsOfVpcs
  VpcSubnets = {"s1","s2","s3"}
  VpcOf <- Networked
  KeyNames = {k1, k2, k3, gone}
  KeyPairs <- Keys
  DirectoryFields = {"domain"}
  DatabaseFields = {"uri","user"}
  LoadedDrafts <- Configs
  MaxLoads = 2
  Unset = Unset
SPECIFICATION MCSpec
INVARIANTS
  QueuesOK
  FormsInStep
  SetupOK
  NetworkFits
  PassedPagesAreValid
  EditKeepsSetup
PROPERTIES
  ErrorsInStep
CHECK_DEADLOCK FALSE
