SPECIFICATION Spec
CONSTANTS
  Nobody = Nobody
  Administrators = {ada}
  Engineers = {ed, eve}
  Reviewers = {rae}
  Chiefs = {cy}
  Owners = {}
  Newcomers = {}
  Experts = {ed}
  Movers = {}
  MoverRoles = {}
  Users <- People
  Candidates <- MayBecome
  InitialAccount <- Staff
  MaxDelegations = 1
  Codes = {c1}
  Bands = {"01000"}
  Width = 1
  BandFirst <- First
  BandLast <- Last
  SandboxLast = 0
  MaxRevisions = 1
  ReleaseIds = {}
INVARIANTS
  TypeOK
  SegregationOfDuties
  SignoffsOfThisCycle
CHECK_DEADLOCK FALSE
