SPECIFICATION OutsideSpec
CONSTANTS
  Scenes = {"signing in", "access", "calls", "publishing", "exporting", "connecting", "trail", "saving", "transacting"}
  Nobody = Nobody
  NoCall = NoCall
  NoError = NoError
  NoToken = NoToken
  ada = ada
  carl = carl
  mo = mo
  Persons = {pia}
  Browsers = {b1, b2}
  Threshold = 2
  LockTime = 2
  NameLimit = 2
  NameWindow = 2
  AddressLimit = 3
  AddressWindow = 1
  IdleTime = 1
  Lifetime = 1
  Mistakes = 3
  LastPassword = 2
  Users <- Colleagues
  InitialAccount <- Staff
  Candidates <- MayBecome
  MaxDelegations = 1
  MaxTokenAge = 1
  FeedCodes = {c1, c2}
  ReleaseIds = {r1, r2, r3}
  FeedRevisions = 2
  MaxAudit = 5
  PageSize = 2
  FileCodes = {c1, c2}
  Linked = {c1}
  FileRevisions = 2
  MaxTotal = 2
  MaxReleases = 1
  Programs = {1, 2, 3}
  External = 9
  MAX_DEPTH = 3
  MaxCauses = 3
  MaxEntries = 3
  MaxTime = 2
  Retention = 0
  Jobs = {j1, j2}
  Keep = 2
  MaxAge = 0
  PerDay = 2
  LastDay = 3
  Requests = {r1, r2, r3}
  Kinds = {"write", "read", "token"}
  MaxStored = 2
  Patience = TRUE
INVARIANTS OutsideTypeOK RolesAreKept  LoopsAreNamed ReadyMeansRestorable
PROPERTIES SessionsAreCurrent LockedIsLocked ReleasesStand  AlteredIsFound NothingIsLost
CHECK_DEADLOCK FALSE
