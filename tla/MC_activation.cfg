SPECIFICATION FairSpec
CONSTANTS
  MaxEvents = 3
INVARIANTS
  DrivenByAuthority
  
PROPERTIES
  RollbackHonoured
  SolveResumes
