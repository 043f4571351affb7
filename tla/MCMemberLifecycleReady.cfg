CONSTANTS
  NumMembers = 1
  MaxFailures = 0
  MaxLag = 1
SPECIFICATION Spec
INVARIANTS
  NotReadyMeansNotReady
