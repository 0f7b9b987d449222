SPECIFICATION Spec
CONSTANTS
  o1 = o1
  w1 = w1
  w2 = w2
  c1 = c1
  c2 = c2
  None = None
  Ops <- MCOps
  Workers <- MCWorkers
  Capsules <- MCCapsules
  Outcomes <- MCOutcomes
  MaxOutcomes = 4
  MaxOutages = 2
  MaxSpoolFaults = 1
  MaxCrashes = 1
SYMMETRY Symmetry
CONSTRAINT Focus
CHECK_DEADLOCK FALSE
INVARIANTS
  TypeOK
  CancelHonoured
  FallbackSurvives
  TicketKeepsCapsule
PROPERTIES
  ImplementsEffectOnce
  RestartResolves
