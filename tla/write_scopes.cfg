CONSTANTS
  f1 = f1
  f2 = f2
  f3 = f3
  Files = {f1, f2, f3}
  Scopes <- Tree
  Targets <- Aims
  Mutators = {m1}
  MaxTransfers = 2
  MaxCrashes = 2
  Faults = {"create", "prove", "db"}
SPECIFICATION Spec
CONSTRAINT OneLeak
CHECK_DEADLOCK FALSE
INVARIANTS TypeOK OneOwner MutationStaysHome CleanMeansQuiet
PROPERTIES GainsQuietFiles RecoveryCloses
