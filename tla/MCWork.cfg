SPECIFICATION WorkSpec
CONSTANTS
  Scenes = {"mapping", "bulk", "editing", "hubs", "covering", "reminding", "translating", "terms", "reviewing", "banding", "versioning"}
  Nobody = Nobody
  Nothing = Nothing
  ada = ada
  abe = abe
  cy = cy
  ed = ed
  owen = owen
  rae = rae
  r1 = r1
  t1 = t1
  c1 = c1
  s1 = s1
  Officials = {ada, abe, cy, owen}
  OfficialStaff <- MapStaff
  OfficialMoves <- MapMoves
  RowIds = {r1}
  ChangeIds = {k1, k2}
  NewNumbers = {1, 2}
  Legacies = {7}
  RowTexts = {t1}
  Incomplete = {}
  Seeds <- OneRow
  Workbooks <- Renumbered
  Askers = {ada}
  MaxItems = 0
  MaxVersion = 2
  Deciders = {ed, rae}
  DeciderStaff <- BulkStaff
  DeciderMoves <- BulkMoves
  BulkCodes = {c1}
  BulkBands = {"01000"}
  BulkFirst <- OneNumber
  BulkLast <- OneNumber
  BulkRevisions = 1
  Drafts <- InReview
  ReservedNumbers <- OneProgram
  SampleIds = {s1, s2}
  SittingIds = {k1}
  Above = 0
  Minimum = 1
  Percent = 50
  MaxText = 0
  Sitters = {rae}
  Selections <- Everything
  Evidenced = {}
  Editors = {ed, abe}
  Items = {t1}
  MaxChanges = 4
  MaxForms = 2
  HubCodes = {1, 2}
  MainCodes = {3, 4}
  HubAdmins = {ada}
  MaxHubRevisions = 4
  Office = {ada, cy, ed, rae}
  OfficeStaff <- HomeStaff
  OfficeMoves <- HomeMoves
  OfficeCodes = {c1}
  LastRevision = 2
  Languages = {"de"}
  Sources = {s1, s2}
  TranslationTexts = {t1, t2}
  Translators = {ed}
  Proofreaders = {rae}
  Heads = {ada}
  Terms = {c1, k1}
  Seeded = {c1}
  English = {s1, s2}
  Words = {t1}
  Managers = {ada}
  Writers = {}
  TermReviewers = {rae}
  LastStamp = 0
  Strings = {s1}
  Wordings = {t1, t2}
  ReviewersOfLanguage = {rae}
  ReviewManagers = {ada, rae}
  Deliveries = {Nothing}
  LastReview = 2
  MaxNumber = 3
  Groups = {1, 2}
  Subgroups = {1, 2}
  BandCodes = {1, 2}
  VersionIds = {"4.0", "4.2"}
  RangedCodes = {"a"}
  BaselineIds = {"r1", "r2"}
  Orders = {1, 2}
  Ranges = 1
  Renamings = 1
  Unbounded = "open"
INVARIANTS WorkTypeOK ApprovedAsSigned HubsAreSuperseded OwnersAreReminded
PROPERTIES  ImplementsBallot SamplesStand NoSaveIsUndone AgreedByTwo DecisionsAreFinal 
CHECK_DEADLOCK FALSE
