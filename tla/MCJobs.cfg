SPECIFICATION Spec
CONSTANTS
  Scenes = {"programs", "library", "sittings", "quotas", "signing in", "transacting", "packing", "telling", "polling"}
  Nobody = Nobody
  NoJob = NoJob
  ada = ada
  cy = cy
  ed = ed
  rae = rae
  rob = rob
  pia = pia
  quin = quin
  k1 = k1
  l1 = l1
  j1 = j1
  j2 = j2
  p1 = p1
  c1 = c1
  c2 = c2
  h1 = h1
  h2 = h2
  r1 = r1
  r2 = r2
  i1 = i1
  en = en
  de = de
  ProgramNumbers = {k1}
  ProgramTexts = {"a", "b"}
  Rows0 <- OneRow
  Importers = {ed}
  Previews = {p1}
  ImportJobs = {j1}
  NumbersByHand = {}
  ImportMayBreak = TRUE
  LibraryIds = {i1}
  Legacies = {l1}
  LibraryTexts = {"a", "b"}
  Plans = {"none"}
  Engineers = {ed}
  Administrators = {}
  Files <- TwoRows
  UploadJobs = {j1, j2}
  Deciders = {ada, cy, ed, rae, rob}
  DeciderStaff <- Staff
  SetCodes = {c1, c2}
  SetBands <- OneBand
  SetFirst <- Ones
  SetLast <- Twos
  SetRevisions = 1
  Drafts <- InReview
  ReservedNumbers <- Numbered
  SampleIds = {}
  SittingIds = {k1}
  Above = 9
  Minimum = 1
  Percent = 50
  MaxText = 0
  Sitters = {ada, rae, cy}
  Present = {rob}
  Selections <- Both
  Evidenced = {}
  Groups = {1, 2, 3}
  MaxMembers = 4
  Persons = {pia, quin}
  Browsers = {1}
  Threshold = 1
  LockTime = 2
  NameLimit = 2
  NameWindow = 2
  AddressLimit = 2
  AddressWindow = 1
  IdleTime = 0
  Lifetime = 0
  Mistakes = 1
  LastPassword = 1
  Callers = {r1, r2}
  Kinds = {"write", "read", "token"}
  MaxStored = 2
  Patience = FALSE
  PackageJobs = {j1, j2}
  PackageCodes = {c1}
  Source = en
  OtherLanguages = {de}
  Batch = 1
  PackagesMayBreak = FALSE
  MaxChanges = 1
  Hooks = {h1, h2}
  Releases = {r1, r2}
  Answers = {"ok", "refused", "garbled"}
  MaxAdmin = 2
  FeedCodes = {c1, c2}
  ReleaseIds = {r1, r2}
  FeedRevisions = 2
  MaxAudit = 4
  PageSize = 2
 
PROPERTIES GovernanceIsKept StepsOfTheLifecycle JobsAreWorkedOff 
CHECK_DEADLOCK FALSE
