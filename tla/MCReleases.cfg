SPECIFICATION Spec
CONSTANTS
  Nobody = Nobody
  Administrators = {ada, abe}
  Engineers = {}
  Reviewers = {rae}
  Chiefs = {cy}
  Owners = {}
  Newcomers = {}
  Experts = {ada}
  Movers = {}
  MoverRoles = {}
  Users <- People
  Candidates <- MayBecome
  InitialAccount <- Staff
  MaxDelegations = 0
  Codes = {c1, c2}
  Bands = {"01000"}
  Width = 2
  BandFirst <- First
  BandLast <- Last
  SandboxLast = 0
  MaxRevisions = 1
  ReleaseIds = {r1, r2}
INVARIANTS
  ReleasesAgree
CHECK_DEADLOCK FALSE
SYMMETRY Interchangeable
