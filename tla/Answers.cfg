CONSTANTS
  FocusIds = {1, 2, 3, 4, 5}
  OwnIds = {1, 2, 3, 4}
  DefaultFocusCost = 2
  MaxExpansionRounds = 2
  MaxPrunePasses = 1
  Far = 5
  ScanDirs <- MCScanDirs
  CallDirs = {"common", "events", "history"}
  OddNames = {"o"}
  ScanFloor = 1
  ScanFactor = 2
  MaxFiles = 2
  Spellings <- MCSpellings
  TexturePaths = {"p.dds"}
  VanillaSprites = {"GFX_g2"}
  Descriptions <- MCDescriptions
  Budget = 12
  MaxText = 6
  MarkerSize = 1
  ErrorSize = 3
  Roots = {1, 2}
  ScanTrees = {"common", "events"}
  ScanExts = {"txt"}
  MaxIndexFiles = 3
  MaxIndexBytes = 3
  Langs = {"en", "de"}
  English = "en"
  WalkRoots = {"common", "events"}
  Files = {1, 2, 3, 4}
  Keys = {k1}
  Texts = {t1, t2}
  MaxDefs = 2
SPECIFICATION MCSpec
INVARIANTS TypeOK PatchedIsRebuilt PlansAreSound LayoutsAreExplained ReferencesAgree AuditIsHonest PagesDescribeThemselves
  PlansAreEffective FixesAreHonest StubsAreComplete MergesKeepTheRest AttributionIsUnique
CHECK_DEADLOCK FALSE
