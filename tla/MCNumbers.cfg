SPECIFICATION Spec
CONSTANTS
  Nobody = Nobody
  Administrators = {ada}
  Engineers = {}
  Reviewers = {}
  Chiefs = {}
  Owners = {}
  Newcomers = {}
  Experts = {ada}
  Movers = {}
  MoverRoles = {}
  Users <- People
  Candidates <- MayBecome
  InitialAccount <- Staff
  MaxDelegations = 0
  Codes = {c1, c2, c3}
  Bands = {"01000", "02000"}
  Width = 2
  BandFirst <- First
  BandLast <- Last
  SandboxLast = 1
  MaxRevisions = 1
  ReleaseIds = {}
INVARIANTS
  NumbersAgree
  ShellsAreMarked
PROPERTY IdentityIsFixed
CHECK_DEADLOCK FALSE
SYMMETRY Interchangeable
