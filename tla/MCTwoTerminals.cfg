\* A contract loader raises after the terminal event.
CONSTANTS
  PHASES <- MCPhases
  SEEDED <- MCSeeded
  SectionOf <- MCSectionOf
  Verticals <- MCVerticals
  Slugs <- MCSlugs
  SlugOf <- MCSlugOf
  Texts <- MCTexts
  Inputs <- MCFaultInputs
  Decisions <- MCDecisions
  MaxCalls = 2
  ContractsSound = FALSE
SPECIFICATION Spec
INVARIANT
  OneTerminal
CHECK_DEADLOCK FALSE
