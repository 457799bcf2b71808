SPECIFICATION Spec
CONSTANTS
  Nobody = Nobody
  Administrators = {ada, abe}
  Engineers = {}
  Reviewers = {}
  Chiefs = {}
  Owners = {olga}
  Newcomers = {nils}
  Experts = {}
  Movers = {ada, abe, nils}
  MoverRoles = {"ADMINISTRATOR", "REVIEWER", "VIEWER"}
  Users <- People
  Candidates <- MayBecome
  InitialAccount <- Staff
  MaxDelegations = 1
  Codes = {}
  Bands = {"01000"}
  Width = 1
  BandFirst <- First
  BandLast <- Last
  SandboxLast = 0
  MaxRevisions = 1
  ReleaseIds = {}
INVARIANTS
  SomeAdministrator
CHECK_DEADLOCK FALSE
