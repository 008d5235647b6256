\* Three calls of a bucket for one, in five units of time: a window is three.  Two documents
\* of up to two chunks, in which two ingestions meet a search and a refresh.  Three edits of
\* a prompt.  Three frames of a stream, three models on up to four pages, two reports of usage.
\* Of each page two rows of what it lists, two requests at once and what starts them.
SPECIFICATION ServicesSpec
CONSTANTS
  MaxCalls = 3
  Limit = 1
  Window = 3
  Timeout = 1
  Grace = 1
  Skew = 1
  MaxNow = 5
  Queries = {Query}
  Exact = {Exact}
  Near = {Near}
  MaxDocs = 2
  MaxChunks = 2
  MaxIngests = 2
  MaxRequests = 2
  DefaultLimit = 1
  MaxLimit = 1
  MaxOffset = 2
  MaxCandidates = 4
  RefreshLimit = 1
  Editors = {First, Second, Third}
  MaxFrames = 3
  Offered = {1, 2, 3}
  Unfit = {3}
  Tokens = {"next", "last"}
  MaxModels = 3
  MaxPages = 4
  Lengths = {5}
  MaxReports = 2
  MaxPrompts = 2
  MaxTexts = 2
  MaxSends = 2
  MaxSteps = 4
  MaxBases = 2
  MaxPapers = 1
  MaxNames = 1
  MaxTasks = 2
  MaxClicks = 3
  MaxChats = 2
  MaxTitles = 2
  MaxLinks = 1
  MaxAsked = 2
  MaxMoves = 3
  Absent = Absent
  Off = Off
INVARIANTS AnswersAreTrue DerivedIsCurrent ListsAreCurrent
CHECK_DEADLOCK FALSE
