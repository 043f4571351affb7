CONSTANTS
  NumMembers = 1
  MaxFailures = 1
  MaxLag = 1
SPECIFICATION FairSpec
PROPERTIES
  RestartRecorded
