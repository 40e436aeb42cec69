\* A test run requested while sections are still open.
CONSTANTS
  PHASES <- MCPhases
  SEEDED <- MCSeeded
  SectionOf <- MCSectionOf
  Verticals <- MCVerticals
  Slugs <- MCSlugs
  SlugOf <- MCSlugOf
  Texts <- MCTexts
  Inputs <- MCFaultInputs
  Decisions <- MCDecisions
  MaxCalls = 2
  ContractsSound = TRUE
SPECIFICATION Spec
INVARIANT
  TestRunIsAccepted
CHECK_DEADLOCK FALSE
