\* Deployments that race, die, are denied and are run again.
CONSTANTS
  Jobs = {j1, j2}
  Sources <- MCSources
  Tags <- MCTags
  TagOf <- MCTagOf
SPECIFICATION Spec
INVARIANTS
  TypeOK
  RuntimeCanStart
  StampIsTrue
PROPERTIES
  CheckIsReadOnly
  ArnIsKept
  RerunFinishes
