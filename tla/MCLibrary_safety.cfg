\* Archives end when their attempts, the limiter when the clock is used up; an answer
\* ends.
CHECK_DEADLOCK FALSE
CONSTANTS
  Foci = {"sync", "archive", "folders", "rules", "store", "agent", "limiter", "chat", "stream", "lint"}
  dir1 = dir1
  dir2 = dir2
  title = title
  page1 = page1
  page2 = page2
  Docs = {d1, d2}
  NativeDocs = {}
  MaxTime = 2
  Rows = 1
  Workers = {w1, w2}
  MaxJobs = 1
  MaxSyncFaults = 1
  NoConnector = NoConnector
  Idle = Idle
  Archives = {z1}
  Contents <- MCContents
  MAX_ENTRIES = 3
  MAX_ENTRY_BYTES = 2
  MAX_TOTAL_UNCOMPRESSED = 3
  MaxAttempts = 3
  Uploads = 2
  MaxSlug = 10
  FolderNames = {dir1, dir2, title}
  GivenPaths <- MCGivenPaths
  Paths <- MCPaths
  Slug <- MCSlug
  DocTypes <- MCDocTypes
  Sources = {s1}
  Groups = {"admin"}
  Organizers = {o1}
  Requests = {r1}
  NoSource = NoSource
  NoRule = NoRule
  Callers = {c1, c2}
  MaxFaults = 2
  Agents = {g1}
  Pages = {page1, page2}
  Texts <- MCTexts
  MAX_TURNS = 2
  MAX_OPS = 3
  OtherRun = OtherRun
  NoPage = NoPage
  NotRead = NotRead
  Tenants = {t1, t2}
  RPM = 25
  BURST = 2
  MaxSeconds = 5
  NoBucket = NoBucket
  NoAdvice = NoAdvice
  WikiPages = {page1, page2}
  Cited = {src1, src2}
  PageCites <- MCPageCites
  UserGroups = {"g"}
  AllGroups = {"g"}
  PageChars <- MCPageChars
  CharBytes <- MCCharBytes
  GATHER_TURNS = 2
  MAX_PAGES_LOADED = 2
  MAX_CONTEXT_BYTES = 3
  MIN_TAKE = 2
  TOOL_LIMIT = 2
  MaxPages = 2
  SEARCH_LIMIT = 1
  Missing = Missing
  Bytes <- MCBytes
  Answers <- MCAnswers
  Tokens = {tok1, tok2}
  tok1 = tok1
  src1 = src1
  src2 = src2
  tok2 = tok2
  ping = ping
  LF = LF
  CR = CR
  Data = Data
  Done = Done
  Bad = Bad
  Index = Index
  LintPages = {Index, page1, page2}
  SystemPages = {Index}
  LintTexts <- MCLintTexts
  LintSources = {src1}
  Tags = {"g"}
  MAX_CLUSTERS = 1
SPECIFICATION LibrarySpec
INVARIANT LibraryTypeOK
INVARIANT CursorCovers
PROPERTY CursorNeverRewound
INVARIANT ExpansionIsSound
PROPERTY OrganizersKeepOff
PROPERTY FoldersInUseStay
PROPERTY UploadsFollowRules
INVARIANT HandedOutIsSeeded
PROPERTY EditsStay
 
PROPERTY BundlesLand
PROPERTY LimiterKeepsItsWord
PROPERTY ContextIsReadable
INVARIANT TokensFollowTheAnswer
INVARIANT ReportsStand
