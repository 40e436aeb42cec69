\* An edit of a skill that arrives with two sections at fault.
CONSTANTS
  PHASES <- MCPhases
  SEEDED <- MCSeeded
  SectionOf <- MCSectionOf
  Verticals <- MCVerticals
  Slugs <- MCSlugs
  SlugOf <- MCSlugOf
  Texts <- MCTexts
  Inputs <- MCInputs
  Decisions <- MCDecisions
  MaxCalls = 2
  ContractsSound = TRUE
SPECIFICATION Spec
INVARIANT
  RepairsOneAtATime
CHECK_DEADLOCK FALSE
