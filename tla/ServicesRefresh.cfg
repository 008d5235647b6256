\* The refresh of an index: the components and their bounds are those of Services.cfg.
SPECIFICATION ServicesSpec
CONSTANTS
  MaxCalls = 3
  Limit = 1
  Window = 3
  Timeout = 1
  Grace = 1
  Skew = 1
  MaxNow = 5
  Queries = {Query}
  Exact = {Exact}
  Near = {Near}
  MaxDocs = 2
  MaxChunks = 2
  MaxIngests = 2
  MaxRequests = 2
  DefaultLimit = 1
  MaxLimit = 1
  MaxOffset = 2
  MaxCandidates = 4
  RefreshLimit = 1
  Editors = {First, Second, Third}
  MaxFrames = 3
  Offered = {1, 2, 3}
  Unfit = {3}
  Tokens = {"next", "last"}
  MaxModels = 3
  MaxPages = 4
  Lengths = {5}
  MaxReports = 2
  MaxPrompts = 2
  MaxTexts = 2
  MaxSends = 2
  MaxSteps = 4
  MaxBases = 2
  MaxPapers = 1
  MaxNames = 1
  MaxTasks = 2
  MaxClicks = 3
  MaxChats = 2
  MaxTitles = 2
  MaxLinks = 1
  MaxAsked = 2
  MaxMoves = 3
  Absent = Absent
  Off = Off
PROPERTY RefreshRestores
CHECK_DEADLOCK FALSE
