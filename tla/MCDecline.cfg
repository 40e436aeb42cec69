\* The operator declines the library match and builds.
CONSTANTS
  PHASES <- MCPhases
  SEEDED <- MCSeeded
  SectionOf <- MCSectionOf
  Verticals <- MCVerticals
  Slugs <- MCSlugs
  SlugOf <- MCSlugOf
  Texts <- MCTexts
  Inputs = {}
  Decisions <- MCDecisions
  MaxCalls = 1
  ContractsSound = TRUE
  Openings <- MCOpenings
  Contexts <- MCContexts
  MaxCuts = 0
SPECIFICATION SessionSpec
INVARIANT
  BuildHasSkeleton
