\* A vertical found in conversation, for which the library has a skill.
CONSTANTS
  PHASES <- MCPhases
  SEEDED <- MCSeeded
  SectionOf <- MCSectionOf
  Verticals <- MCVerticals
  Slugs <- MCSlugs
  SlugOf <- MCSlugOf
  Texts <- MCTexts
  Inputs <- MCFaultInputs
  Decisions <- MCDecisions
  MaxCalls = 2
  ContractsSound = TRUE
SPECIFICATION Spec
INVARIANT
  LibraryIsChecked
CHECK_DEADLOCK FALSE
