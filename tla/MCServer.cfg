\* Turns, health checks, a hanging provider, callers that leave, a restart.
CONSTANTS
  Turns = {t1, t2}
  Probes = {p1}
  Hanging = {t2}
  Responses <- MCResponses
  Threads = 2
  MaxFrames = 2
  MaxDeaths = 1
SPECIFICATION Spec
INVARIANTS
  ServerTypeOK
  GivesUpInTime
  ClientIsShared
PROPERTIES
  DecidesAsPromised
  ProbesAreAnswered
  TurnsAreIndependent
