CONSTANTS
  old = old
  new = new
  bad = bad
  None = None
  Types = {"Ebs", "Efs", "FsxLustre", "FsxOntap"}
  MaxToCreate <- Creatable
  MaxExistingToAttach <- Both
  StorageMaxes <- Total
  Versions = {old, new}
  FeaturesOf <- Flags
  Templates <- Sections
  TypedNames <- Bad
  BadNames <- Bad
  MaxStorages = 2
  MaxUi = 3
  MaxBatch = 2
  MaxErrors = 1
SPECIFICATION MCSpec
INVARIANTS
  TypeOK
  StoragesInStep
  WithinQuotas
  FormsFit
PROPERTIES
  ValidationIsCurrent
