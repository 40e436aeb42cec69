\* A model client that cannot be built.
CONSTANTS
  Turns = {t1, t2}
  Probes = {p1}
  Hanging = {t2}
  Responses <- MCResponses
  Threads = 2
  MaxFrames = 2
  MaxDeaths = 1
SPECIFICATION Spec
INVARIANT NoRaw500
