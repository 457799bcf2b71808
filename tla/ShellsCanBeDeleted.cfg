SPECIFICATION Spec
CONSTANTS
  Nobody = Nobody
  Administrators = {ada}
  Engineers = {ed}
  Reviewers = {}
  Chiefs = {}
  Owners = {}
  Newcomers = {}
  Experts = {ed}
  Movers = {}
  MoverRoles = {}
  Users <- People
  Candidates <- MayBecome
  InitialAccount <- Staff
  MaxDelegations = 0
  Codes = {c1}
  Bands = {"01000"}
  Width = 1
  BandFirst <- First
  BandLast <- Last
  SandboxLast = 0
  MaxRevisions = 1
  ReleaseIds = {}
INVARIANT ShellsCanBeDeleted
CHECK_DEADLOCK FALSE
