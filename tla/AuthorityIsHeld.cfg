SPECIFICATION Spec
CONSTANTS
  Nobody = Nobody
  Administrators = {ada}
  Engineers = {ed}
  Reviewers = {rae}
  Chiefs = {}
  Owners = {}
  Newcomers = {}
  Experts = {ed}
  Movers = {rae}
  MoverRoles = {"REVIEWER", "VIEWER"}
  Users <- People
  Candidates <- MayBecome
  InitialAccount <- Staff
  MaxDelegations = 1
  Codes = {}
  Bands = {"01000"}
  Width = 1
  BandFirst <- First
  BandLast <- Last
  SandboxLast = 0
  MaxRevisions = 1
  ReleaseIds = {}
INVARIANT AuthorityIsHeld
CHECK_DEADLOCK FALSE
