\* A turn that fails after the model was billed.
CONSTANTS
  PHASES <- MCPhases
  SEEDED <- MCSeeded
  SectionOf <- MCSectionOf
  Verticals <- MCVerticals
  Slugs <- MCSlugs
  SlugOf <- MCSlugOf
  Texts <- MCTexts
  Inputs <- MCFaultInputs
  Decisions <- MCDecisions
  MaxCalls = 2
  ContractsSound = TRUE
SPECIFICATION Spec
INVARIANT
  CostSurvives
CHECK_DEADLOCK FALSE
