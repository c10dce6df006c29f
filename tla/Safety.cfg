SPECIFICATION MCSpec
CONSTANTS
  Clients = {h1, h2}
  MaxJobs = 1
  MaxAttempts = 2
  MaxChunks = 2
  MaxCrashes = 1
  portal_interactive = portal_interactive
  emerychat_content = emerychat_content
  Callers = {portal_interactive, emerychat_content}
  InteractiveType = {portal_interactive}
  Interactive = {portal_interactive}
  Policy <- MCPolicy
  Keys = {k}
  NoKey = NoKey
  Modes = {"stream", "sync"}
  ImageBroker = TRUE
  Faults = {"refused", "answer_lost"}
  Free = Free
  ChatOf <- MCChatOf
  RunnerLimit = 1
  MaxLives = 2
  MaxRunnerStops = 1
  MaxSilences = 1
  Scheduled = {"dated", "delayed", "routine"}
  KindOf <- MCKindOf
  Legacy = {"routine"}
  Loops = {"research", "debate"}
  MaxFirings = 3
  MaxRestarts = 1
  Ours = {i1, i2}
  Theirs = {p1, p2}
  Relayed = {}
  PeerLimit = 1
  MaxPeerSends = 2
  MaxBridgeStops = 1
  Asks = {"a", "b", "c"}
  PriorityOf <- MCPriorityOf
  MaxAgenda = 2
  MaxNew = 1
  MaxSubtasks = 2
  FetchesPerRound = 2
  ReducedFetches = 1
  MinTarget = 2
  MaxSources = 3
  EnoughSources = 1
  DefaultRounds = 2
  MoreRounds = 2
  MoreSources = 1
  MaxDrafts = 2
  MaxContinues = 1
  b1 = b1
  b2 = b2
  Browsers = {b1, b2}
  MaxBrowsers = 2
  MaxLaunches <- MCLaunches
  MaxTurns = 2
  MaxRefreshes = 1
  MaxPosts = 4
  MaxFaults = 1
  Owners = {u1, g1}
  Groups = {g1}
  Skills = {deploy, backup}
  Bodies = {text1, text2}
  MaxPerScope = 2
  MaxChanges = 2
  MaxSkillWrites = 3
  MaxSkillCrashes = 1
  Users = {u1, u2}
  text1 = text1
  text2 = text2
  Texts = {text1, text2}
  FactScope <- MCFactScope
  MaxMemories = 2
  MaxWipes = 1
  MaxMemoryRestarts = 1
  Threads = {main, t2}
  Main = main
  MaxSaid = 2
  MaxSwitches = 2
  MaxNotes = 1
  SummaryEvery = 2
  SummaryWindow = 3
  Commands = {ls, rm, cp}
  Backends = {"local", "docker", "host"}
  Dangerous = {rm}
  MaxConcurrent = 1
  t1 = t1
  ToolTurns = {t1}
  Handled = {"web_search", "fetch_web_content", "extract_document_with_docling", "use_research_image", "generate_image"}
  Eager = {"web_search", "fetch_web_content", "extract_document_with_docling", "use_research_image"}
  Batches <- MCBatches
  MaxPasses = 2
  CallsPerTurn = 5
  CallsPerPass = 3
  SearchesPerPass = 1
  FetchesPerPass = 2
  PhotosPerTurn = 2
  ViewsPerTurn = 2
  ViewsPerPass = 1
  Context = 3
  CacheSize = 2
  MaxRequests = 2
  MaxStreams = 2
  MaxPieces = 2
  MaxSteers = 1
  MaxSummaries = 1
  Cameras = {door}
  MaxVisits = 2
  MaxAsked = 1
  DayLength = 4
  SleepHours = {0}
  SilenceThreshold = 0
  ProactiveCooldown = 3
  SilentRetry = 1
  DailyLimit = 1
  MaxHours = 11
  MaxModes = 1
SYMMETRY Symmetry
INVARIANTS StreamCarriesResult BridgeSound TerminalSound ScheduledSound AgendaKept BrowserSound  SkillsSound MemorySound TemporaryLeavesNothing  ToolsSound StreamsSound CamerasSound HeartbeatSound
CHECK_DEADLOCK FALSE
