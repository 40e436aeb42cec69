\* Every kind of turn, with the contracts loading.
CONSTANTS
  PHASES <- MCPhases
  SEEDED <- MCSeeded
  SectionOf <- MCSectionOf
  Verticals <- MCVerticals
  Slugs <- MCSlugs
  SlugOf <- MCSlugOf
  Texts <- MCTexts
  Inputs <- MCInputs
  Decisions <- MCDecisions
  MaxCalls = 2
  ContractsSound = TRUE
SPECIFICATION Spec
INVARIANTS
  TypeOK
  DeltasReplay
  ProposalsAreClean
  ToolCallsAreReady
  ToolCallsMatchGateway
  RepairIsNamed
  EditKeepsSkill
  SectionsAreNormal
  VerticalIsAuthoritative
  UsageIsBilled
PROPERTIES
  StreamSafety
  StreamTerminates
\* A turn ends.
CHECK_DEADLOCK FALSE
