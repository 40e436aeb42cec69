\* The pure readers: lints, catalog and context, contract files and prompt.
CONSTANTS
  AuthoringSections <- MCSections
  ContextKeys <- MCKeys
  Positions <- MCPositions
  Reserved <- MCReserved
  Schema <- MCSchema
  Index <- MCIndex
  Documents <- MCDocuments
  MaxDepth = 7
  IndustryPaths <- MCIndustryPaths
  LeadTypePaths <- MCLeadTypePaths
  SummaryPaths <- MCSummaryPaths
  SeedPaths <- MCSeedPaths
  Values <- MCValues
  Entries <- MCEntries
  MaxEntries = 2
  FieldFiles <- MCFieldFiles
  SchemaFiles <- MCSchemaFiles
  KeyOrder <- MCKeyOrder
  Shaped <- MCShaped
  Blobs <- MCBlobs
  Tasks <- MCTasks
SPECIFICATION Spec
INVARIANTS
  LintsAreExact
  PhaseNamesDefect
  VerdictIsTrue
  IcpIsReported
  TaughtIsEnforced
  PrefixIsStable
  ShapesAreTaught
PROPERTIES
  RepairsEnd
CHECK_DEADLOCK FALSE
