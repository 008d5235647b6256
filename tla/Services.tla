------------------------------ MODULE Services ------------------------------
(***************************************************************************)
(* Components of the server that share no state, and the pages that show   *)
(* lists of what users keep there.  A behaviour is one of the component    *)
(* that part names, and the variables of the others are Off.  What a       *)
(* component promises is stated, with the code it is about, in its own     *)
(* module.                                                                 *)
(***************************************************************************)
EXTENDS Naturals, FiniteSets

CONSTANTS MaxCalls, Limit, Window, Timeout, Grace, Skew, MaxNow,       \* the limiter's, as RateLimit names them
          MaxFrames,                                                   \* of a stream
          Offered, Unfit, Tokens, MaxModels, MaxPages,                 \* of a listing of models
          Lengths, MaxReports,                                         \* of the usage of an answer
          Queries,
          Exact, Near,  \* texts that share a concept with every query, and texts that are near
          MaxDocs, MaxChunks, MaxIngests, MaxRequests,                 \* the index's, as Retrieval names them
          DefaultLimit, MaxLimit, MaxOffset, MaxCandidates, RefreshLimit,
          Editors,                                                     \* the edits of a prompt
          MaxPrompts, MaxTexts, MaxSends, MaxSteps,                    \* PromptsPage's
          MaxBases, MaxPapers, MaxNames, MaxTasks, MaxClicks,          \* KnowledgePage's
          MaxChats, MaxTitles, MaxLinks, MaxAsked, MaxMoves,           \* Sidebar's
          Absent, Off

\* checkRateLimit makes the limit and the window one at least.
ASSUME LimiterAssumption ==
  {MaxCalls, Timeout, Grace, Skew, MaxNow} \subseteq Nat /\ {Limit, Window} \subseteq Nat \ {0}

\* A listing may have a model.  Absent is no figure and no page.
ASSUME AnswersAssumption ==
  /\ {MaxFrames, MaxModels, MaxPages, MaxReports} \subseteq Nat /\ MaxModels > 0
  /\ Lengths \subseteq Nat /\ Absent \notin Nat \cup Tokens

\* Limits are clamped between one and the greatest, and a seeded document has a chunk.
ASSUME IndexAssumption ==
  /\ {MaxDocs, MaxIngests, MaxRequests, MaxOffset, MaxCandidates} \subseteq Nat
  /\ {MaxChunks, DefaultLimit, MaxLimit, RefreshLimit} \subseteq Nat \ {0}

\* Absent stands for a text that is not given, and for an edit that there is not.
ASSUME PromptsAssumption == IsFiniteSet(Editors) /\ Absent \notin Exact \cup Near \cup Editors

\* A page starts with a request, and lists what has a name.
ASSUME PagesAssumption ==
  /\ {MaxPrompts, MaxSteps, MaxBases, MaxPapers, MaxNames, MaxClicks, MaxChats, MaxLinks, MaxMoves} \subseteq Nat
  /\ {MaxTexts, MaxSends, MaxTasks, MaxTitles, MaxAsked} \subseteq Nat \ {0}

VARIABLES part,
          algorithm, now, entries, expiry, windows, calls,  \* RateLimit
          stream, wire, received, reader,                   \* ProviderStream
          listing,                                          \* ModelCatalog
          vendor, model, told, usage, record,               \* UsageRecords
          active, ready, indexed, ingests, requests,         \* Retrieval
          prompt, writing, editors,                         \* PromptVersions
          stored, shelf, sends,                             \* PromptsPage
          library, page, tasks,                             \* KnowledgePage
          threads, rail, asked                              \* Sidebar

limitVars == <<algorithm, now, entries, expiry, windows, calls>>
streamVars == <<stream, wire, received, reader>>
usageVars == <<vendor, model, told, usage, record>>
retrievalVars == <<active, ready, indexed, ingests, requests>>
promptVars == <<prompt, writing, editors>>
shelfVars == <<stored, shelf, sends>>
knowledgeVars == <<library, page, tasks>>
railVars == <<threads, rail, asked>>

servicesVars == <<part, limitVars, streamVars, listing, usageVars, retrievalVars, promptVars, shelfVars, knowledgeVars, railVars>>

-----------------------------------------------------------------------------
(* The components.                                                         *)

Limiter == INSTANCE RateLimit

Streams == INSTANCE ProviderStream

Catalog == INSTANCE ModelCatalog WITH NoToken <- Absent

Accounting == INSTANCE UsageRecords

Index ==
  INSTANCE Retrieval WITH Texts <- Exact \cup Near, Matches <- Queries \X Exact, Related <- Queries \X Near,
                          chunks <- indexed

Prompts == INSTANCE PromptVersions WITH Bodies <- Exact \cup Near, NoBody <- Absent, Nobody <- Absent

Shelf == INSTANCE PromptsPage

Knowledge == INSTANCE KnowledgePage WITH MaxDocs <- MaxPapers

Rail == INSTANCE Sidebar WITH MaxCalls <- MaxAsked

-----------------------------------------------------------------------------
Parts == {"limiter", "streams", "catalog", "accounting", "index", "prompts", "shelf", "knowledge", "rail"}

ServicesInit ==
  /\ part \in Parts
  /\ IF part = "limiter" THEN Limiter!Init
     ELSE algorithm = Off /\ now = Off /\ entries = Off /\ expiry = Off /\ windows = Off /\ calls = Off
  /\ IF part = "streams" THEN Streams!Init ELSE stream = Off /\ wire = Off /\ received = Off /\ reader = Off
  /\ IF part = "catalog" THEN Catalog!Init ELSE listing = Off
  /\ IF part = "accounting" THEN Accounting!Init
     ELSE vendor = Off /\ model = Off /\ told = Off /\ usage = Off /\ record = Off
  /\ IF part = "index" THEN Index!RetrievalInit
     ELSE active = Off /\ ready = Off /\ indexed = Off /\ ingests = Off /\ requests = Off
  /\ IF part = "prompts" THEN Prompts!Init ELSE prompt = Off /\ writing = Off /\ editors = Off
  /\ IF part = "shelf" THEN Shelf!PromptsInit ELSE stored = Off /\ shelf = Off /\ sends = Off
  /\ IF part = "knowledge" THEN Knowledge!KnowledgeInit ELSE library = Off /\ page = Off /\ tasks = Off
  /\ IF part = "rail" THEN Rail!SidebarInit ELSE threads = Off /\ rail = Off /\ asked = Off

\* The variables of the components but that of a part stay Off.
Only(of, group) == IF part = of THEN TRUE ELSE UNCHANGED group

Rest ==
  /\ UNCHANGED part
  /\ Only("limiter", limitVars)
  /\ Only("streams", streamVars)
  /\ Only("catalog", listing)
  /\ Only("accounting", usageVars)
  /\ Only("index", retrievalVars)
  /\ Only("prompts", promptVars)
  /\ Only("shelf", shelfVars)
  /\ Only("knowledge", knowledgeVars)
  /\ Only("rail", railVars)

ServicesNext ==
  \/ part = "limiter" /\ Limiter!Next /\ Rest
  \/ part = "streams" /\ Streams!Next /\ Rest
  \/ part = "catalog" /\ Catalog!Next /\ Rest
  \/ part = "accounting" /\ Accounting!Next /\ Rest
  \/ part = "index" /\ Index!RetrievalNext /\ Rest
  \/ part = "prompts" /\ Prompts!Next /\ Rest
  \/ part = "shelf" /\ Shelf!PromptsNext /\ Rest
  \/ part = "knowledge" /\ Knowledge!KnowledgeNext /\ Rest
  \/ part = "rail" /\ Rail!SidebarNext /\ Rest

ServicesSpec == ServicesInit /\ [][ServicesNext]_servicesVars

-----------------------------------------------------------------------------
(* Properties.  Each has the types of the components it is about.          *)

\* The limiter admits no more calls than its limit, whatever is late or cut on its way, in
\* a window of either kind that is cut by the skew of the clocks and the delay of an answer
\* (jobs/src/index.ts:118-184, rate-limit.ts:44-78).
LimitsAreKept ==
  part = "limiter" => Limiter!TypeOK /\ Limiter!SlidingLimit /\ Limiter!FixedLimit

\* What is said of a provider's answer is true of it: a stream's texts are passed on in order,
\* once each, and with one end, a listing of models ends and has no model twice, the usage
\* recorded is the provider's last word (providers/src/index.ts:164-172, 265-292, 407-431,
\* 564-683, 955-982; usage.ts:61-147).
AnswersAreTrue ==
  /\ part = "streams" => Streams!TypeOK /\ Streams!TextsArePassedOn /\ Streams!EndsOnce /\ Streams!CompleteIsTrue
  /\ part = "catalog" => Catalog!TypeOK /\ Catalog!PagesAreNew /\ Catalog!ListIsBounded
  /\ part = "accounting" => Accounting!TypeOK /\ Accounting!FiguresAreTheProviders /\ Accounting!PriceIsClosest

\* What is derived and kept stays true of what it is derived from, while requests and jobs
\* overlap: the counts that the limiter decides by, the pages of a search, which fit together, an
\* embedding, which is of the text it is stored with, and a prompt's last version, which is its
\* text (jobs/src/index.ts:118-184; search/route.ts:31-208; reembed/route.ts:34-106;
\* prompts/[promptId]/route.ts:46-81).
DerivedIsCurrent ==
  /\ LimitsAreKept
  /\ part = "index" => Index!RetrievalTypeOK /\ Index!PagesFit /\ Index!EmbeddingIsOfText
  /\ part = "prompts" => Prompts!TypeOK /\ Prompts!LastVersionIsThePrompt

\* Requests whose answers come late or in another order leave a page with what the server has,
\* except where two crossed as each page's property says: the prompts and their stars, the
\* bases, documents and results of the library, the conversations, the results of a search
\* and the links of the sidebar (PromptsClient.tsx:184-360, knowledge-manager.tsx:121-430,
\* app-shell.tsx:281-424, 702-790).
ListsAreCurrent ==
  /\ part = "shelf" => Shelf!PromptsTypeOK /\ Shelf!LibraryIsCurrent /\ Shelf!SavingIsWork
  /\ part = "knowledge" => Knowledge!KnowledgeTypeOK /\ Knowledge!KnowledgePageIsCurrent /\ Knowledge!DisabledIsWork
  /\ part = "rail" => Rail!SidebarTypeOK /\ Rail!ResultsAreOfTerm /\ Rail!ListIsCurrent /\ Rail!DialogShowsTheLink

-----------------------------------------------------------------------------
(* What a document of the repository says, and the code does not do.       *)

\* docs/demo-seed.md:34: retrieval ranks outdated chunks lexically "until you re-embed the
\* knowledge base"; the refresh leaves what it wrote as unreadable as it was (reembed/route.ts).
RefreshRestores == [][part = "index" => Index!RefreshRestoresStep]_servicesVars
=============================================================================
