\* Whole sessions: build and edit, with cuts.
CONSTANTS
  PHASES <- MCPhases
  SEEDED <- MCSeeded
  SectionOf <- MCSectionOf
  Verticals <- MCVerticals
  Slugs <- MCSlugs
  SlugOf <- MCSlugOf
  Texts <- MCTexts
  Inputs = {}
  Decisions <- MCDecisions
  MaxCalls = 1
  ContractsSound = FALSE
  Openings <- MCOpenings
  Contexts <- MCContexts
  MaxCuts = 1
SPECIFICATION SessionSpec
INVARIANTS
  RowIsProposable
  SlugNamesVertical
  SkillIsReady
  FinalizedIsTrue
  FailedTurnKeepsSections
PROPERTIES
  WorkIsKept
  SkillIsWhatWasAsked
  ResultIsAnswered
