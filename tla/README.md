# PacketChat: a verification project

TLA+ specifications of PacketChat, the TLC instances that check them and the theorems
TLAPS proves about them. Paths are relative to the repository; `x.ts:10-20` are lines.
`page.tsx` alone is `apps/web/src/app/chat/page.tsx`.

## The system

PacketChat is a self-hosted chat and agent server: a Next.js web process
(`apps/web`), a worker process (`apps/worker`), PostgreSQL as the only durable state,
Redis/BullMQ as the job queue, and an S3 object store for uploaded files. Several web and
worker processes may run at once. All coordination happens through the database (row locks,
unique constraints, advisory locks, conditional updates) and through jobs that the queue
delivers at least once. In the browser, pages keep copies of what the server has and patch
them with the answers of requests that nothing orders or cancels.

| Component | State | Operations | What makes it correct |
|---|---|---|---|
| **Agent runs** (`packages/agent-runtime`, `apps/worker/src/agent-run*.ts`, `api/agents/[agentId]/runs`, `api/approvals`, `lib/agent-run-dispatch.ts`, `lib/agent-runtime`) | `agent_runs` row (status, cancel_requested_at, started_at, lease), `agent_run_steps`, `agent_run_events`, the assistant messages of the run | create, enqueue or fall back, claim, execute (gate, tools, model), heartbeat, pause for approval, approve / reject and resume, cancel, reap on GET, record the outcome | one execution at a time; no external action without an approval; a cancelled run does not go on; one answer in the conversation, and a true one; a dead executor is recovered |
| **Queues** (`packages/jobs`) | BullMQ jobs in Redis | add with a time limit, deliver, retry, redeliver a stalled job | handlers tolerate duplicates and late jobs |
| **Rate limits** (`packages/jobs/src/index.ts`, `lib/rate-limit.ts`) | counters / sorted sets in Redis | admit or refuse | never more than the limit in a window |
| **Sessions** (`packages/auth`, `api/auth`, `lib/auth-client.ts`) | `sessions`, `refresh_tokens`, credentials, invite and reset tokens; per tab an access token, per browser a cookie | login, refresh with rotation, reuse detection, logout, change and reset password, invite, bootstrap | a token rotates once; a family has one live token; a revoked session stays so; tokens are consumed once |
| **Knowledge files** (`api/files/upload`, `api/knowledge`, worker `ingestFile`) | `attachments`, `knowledge_documents`, `knowledge_chunks`, objects | upload, enqueue, ingest (retries), re-embed, delete | a ready document has exactly its chunks; no object is stranded; nothing in use is collected |
| **Retention** (`apps/worker/src/cleanup*.ts`) | the same, `agent_runs`, `job_failures` | list expired, re-check, delete in batches | only terminal runs and true orphans go |
| **PacketAgent** (`lib/packet-agent.ts`, `api/packet-agent`, `api/projects/.../packet-agent`, `PacketAgentPanel.tsx`) | connections with a token each, run cards, event threads; the panel's lists, its one-time token, its choice of a deployment | create, rotate and revoke a connection, ingest a notification, start a run on the deployment's current revision | a repeated notification leaves one event; an older one does not take a checkpoint away; what was acknowledged is stored |
| **Chat** (`api/chat`, `contracts/chat-tree.ts`, `api/conversations`, `app/chat/page.tsx`) | messages (a tree), the active leaf; the page's copy of both, with ids of its own | send, edit, regenerate, stop, choose a branch, archive, delete | the tree is a forest that only grows; every answer hangs under its question; the page comes to show what is stored |
| **Shares** (`contracts/share.ts`, `api/share`) | `conversation_shares` | share, revoke, read | one active link; a link shows the branch it was made of, or nothing |
| **Agent drafts and versions** (`api/agents`, `app/agents/page.tsx`) | `agents`, `agent_drafts`, `agent_versions`, knowledge bindings, permissions; the editor and its monitor of runs | edit a draft, publish, set permissions, archive, delete | bindings follow the spec; a version is one draft, spec and bindings together; the editor shows the agent it edits |
| **Provider accounts and model sync** (`apps/worker/src/provider-sync*.ts`, `api/providers`, `api/admin`) | accounts, catalog, bindings | create, edit, delete, sync, refresh, switch a model | one binding per model; one default; a sync keeps what users disabled |
| **Provider adapters** (`packages/providers`) | the state of one stream, one listing | stream an answer, list models, fall through endpoints, time out, cancel | each text once and in order, one end, and an end that is true |
| **Usage** (`agent-runtime/src/usage.ts`) | `usage_records` | merge what frames report, estimate the rest, price it | the provider's last word is what is recorded |
| **Retrieval** (`contracts/retrieval.ts`, `api/knowledge/.../search`, `.../reembed`) | chunks with embeddings | search by pages, refresh the index | an embedding is of the text it is stored with; pages fit together |
| **Prompts** (`api/prompts`, `PromptsClient.tsx`) | prompts and their versions; the library page | edit, create, delete, star | the last version is the prompt's text |
| **Pages** over knowledge, conversations, prompts and providers (`knowledge-manager.tsx`, `app-shell.tsx`, `PromptsClient.tsx`, `providers-manager.tsx`, `models-client.tsx`) | lists, selections, dialogs, buttons that are disabled | load, search, create, rename, delete, share | a list at rest is the server's, and buttons come back |
| **The rest**: approvals inbox, reports, projects and file list, email, configuration, logging, scripts, deployment | | | single statements, pure I/O or presentation |

**Interactions.** A POST of a run writes its row and either executes it itself
(synchronous), or enqueues a job, or, when the enqueue fails or exceeds five seconds,
executes it in the web process; the job may still land. The worker claims the row with one
conditional update, executes, renews a 30 s lease every 5 s and writes the outcome into the
conversation. A run that needs an external action stops at an approval step; a PATCH decides
it, moves the row and enqueues a second job (or resumes in process). DELETE and GET act on
the row from other processes; an executor learns of it only through its heartbeat and
through updates that match no row. Knowledge files and provider sync use the same queue
wrapper. Chat turns and agent runs write into the same message tree and move the same active
leaf; the chat page follows it, the share route walks it. A version of an agent copies the
draft and the bindings that saves write and that deleting a knowledge base shrinks. A stream
of a provider feeds a turn or a run and its usage record; ingestion and the refresh of the
index write the chunks that searches, chat turns and runs read. Each page talks to its routes
only.

**Hard behaviours.** At-least-once delivery, enqueues that time out and land, two-statement
reads, values read before a transaction and written inside it, an approval visible before
the run has paused, `jsonb` columns that are read back as strings, updates fenced by a status and one that is not, crashes between the statement
that ends a run and the one that answers it, leases that lapse under a slow but living
executor, step, event and version numbers computed by several parties, lock orders that
differ, streams cut at any byte, answers that reach a page in another order than they were
asked for.

## Modules

| Module | Models |
|---|---|
| `Resume` | the pure helpers of `agent-runtime/src/resume.ts` and `shouldRecordRunOutcome` (`deps.ts:331-339`) |
| `AgentRun`, `AgentRunMC`, `AgentRunProofs` | one agent run and everything that acts on it; its instances for TLC; its theorems |
| `KnowledgeFiles` | the files of a knowledge base: upload, ingestion, deletion, retention; its theorems are in `ServicesProofs` |
| `Sessions`, `SessionsProofs` | the sessions and refresh tokens of a user, and the tabs of one browser |
| `MessageForest` | the abstract specification: what a conversation promises |
| `ChatTree` | the walks over a tree of messages (`chat-tree.ts`, `share.ts`, `page.tsx`), as functions |
| `Conversations`, `ConversationsProofs` | the server's conversations: turns, selection, deletion, links; shown to implement `MessageForest` |
| `ChatPage` | EXTENDS `Conversations` with the chat page of one tab, another tab and the requests between them; its theorems are in `ConversationsProofs` |
| `PacketAgent`, `PacketAgentProofs` | connections and the notifications that arrive through them |
| `PacketAgentPanel` | EXTENDS `PacketAgent` with the panel of a project, and the deployment; its theorems are in `PacketAgentProofs` |
| `AgentDrafts`, `AgentDraftsProofs` | saving and publishing an agent, permissions, deletion |
| `AgentsPage` | the editor and the monitor of runs of the agents page; its theorem is in `AgentDraftsProofs` |
| `Providers`, `ProvidersProofs` | provider accounts, bindings, the sync job and the administrator's refresh |
| `ProvidersPage` | the manager of provider accounts and the page of models; its theorem is in `ProvidersProofs` |
| `Workbench` | `PacketAgent`, `PacketAgentPanel`, `AgentDrafts`, `Providers` (twice), `AgentsPage` and `ProvidersPage` in one instance; what it promises follows from the theorems of its components, in `SessionsProofs` |
| `RateLimit` | the two limiters as the scripts Redis runs |
| `ProviderStream` | one streamed answer of a provider |
| `ModelCatalog` | listing a provider's models by pages |
| `UsageRecords` | figures, estimates and price of an answer |
| `Ordering` | lists made from sets and lists, as sort and filter make them: used by `ModelCatalog`, `Retrieval` and `PromptsPage` |
| `Retrieval` | search and refresh of the index against ingestion |
| `PromptVersions`, `PromptsPage` | a prompt and its versions; the library page |
| `KnowledgePage`, `Sidebar` | the knowledge library page; the list of conversations with search and sharing |
| `Services`, `ServicesProofs` | the nine modules from `RateLimit` on in one instance; theorems about the limiter, the answers of providers, the index and the prompts, and those of `KnowledgeFiles` |
| `PagesProofs` | the theorem about the three pages of `Services`, with an inductive invariant of each |

`AgentRun`, `KnowledgeFiles`, `Sessions`, `Conversations` and what `Workbench` and `Services`
hold share the database server and the queue, but no rows, so they are checked separately.
`Workbench` and `Services` are sums, not products: the variable `part` names the component
that a behaviour is about, and the variables of the others are `Off`. `Workbench`
instantiates the modules of theorems, so that `SessionsProofs`, which has its theorems at the end, can apply them. Each component keeps
its own module, its own types and its own properties; the sum only lets one pass of TLC go
through all the small ones. The constants of the components of `Services` are those of the sum, with
values in `Services.cfg`; those of `Workbench` are written beside each `INSTANCE`, over its sets of ids. Their properties
are conjunctions with one conjunct per component, and the comments of the conjuncts stand in
the component's module.

### How `AgentRun` corresponds to the code

* `run` is the row of `agent_runs`. The lease is `"none"` (null), `"live"` or `"expired"`;
  `LeaseExpires` is the passing of thirty seconds. `steps` maps `sequence_no` to the step,
  `msgs` is the sequence of `metadata.status` of the run's assistant messages, `calls` counts
  the requests sent by each external tool and, at the last index, to the model.
* `waiting` and `held` are the queue: how many deliveries of the run's job it owes, and which
  executors work on a delivery it has not seen settled. `Redeliver` is both BullMQ's retry of
  a failed attempt and its redelivery of a stalled one; the stalled one may still be running.
* An element of `Executors` is an invocation of `runAgentRunJob`, of POST's `detachedRun`, of
  `resumeRunInProcess` or of the synchronous POST (`via`). Its `pc` is the next database
  statement. `seen`, `resume`, `seq`, `at`, `llm`, `abort` and `result` are its local
  variables (status read, resumed or fresh, `nextStep`, position among the tools, `stepId`,
  the abort signal, the outcome).
* One action is one statement or one transaction. The decision transaction is split in
  `DecideBegin` and `DecideCommit`, because between the two it holds the locks of the step
  and of the run, if `LockAccepted`; `RowFree` makes every statement that needs the row wait.
* The guards `Claimable`, `Renewable`, `Runnable` and `Reapable` are the `where` clauses of
  the updates; a disjunct with the negated guard is the branch "no row was returned".
* `EventCollision` is the one place where event rows matter: the executor's event
  `approval.required` and the decision's event both insert `max + 1`, the second without the
  advisory lock, so that the unique number refuses one of them.
* `Crash`, `PostCrash`, `CancelCrash`, `PollCrash`, `ApproverCrash` and `DatabaseError` are
  bounded together by `MaxFaults`. `DatabaseError` follows each catch block: inside
  `executeRun` the catch runs; inside that block the new error replaces the old one; after
  it the outcome is not written, except that POST's own catch (`runs/route.ts:221-227`,
  `276-300`), which also covers the write of a good outcome, then writes an error message.

Simplifications: the heartbeat's two statements are one; a tool is `"external"` (behind the
gate: OpenAPI actions, URL fetch) or `"context"` (everything else, which may contribute no
step); the run has a conversation; deliveries are not limited to three attempts; POST's
creation transaction is the initial state.

**Two statements do not do what the code around them expects**, and two constants say which of
the two programs an instance checks:

* `LockAccepted`. The select that begins a decision (`approvals/[approvalId]/route.ts:72-103`)
  ends in a bare `for update` over `left join agent_permissions`; PostgreSQL refuses to lock the
  nullable side of an outer join, so the transaction fails for every approver. With `FALSE`
  `DecideBegin` is that refusal, `DecideCommit` is never enabled, and a paused run stays
  paused until it is cancelled. With `TRUE` the statement is taken to lock step and run, as
  with `for update of ars, ar`.
* `InputReadable`. POST stores the input as `${JSON.stringify(...)}::jsonb`
  (`runs/route.ts:179`), the form of which `CHANGELOG.md:39` says that it is read back as a JSON
  string. A string has no `text`, so `loadContext` throws before the claim
  (`agent-run-deps.ts:91-92`), the attempt is redelivered, and the row stays `queued`. With `FALSE`
  `LoadSteps` is that; executions in the web process, which are passed the input, go on. With
  `TRUE` it is read back as an object. The other two reasons to throw concern the provider
  and model that POST has resolved before it stores the row. The initial state is one in which POST has
  accepted the agent's spec, so it has been read as an object.

The runs `Recovery` and `RefusedDecision` have both `FALSE`: the program as it stands. The others
have both `TRUE`, which is where the gate, the fences and the numbering have work to do; the theorems
hold for either. What a repaired decision would meet is in the model too: it updates the
row by id alone (`approvals/[approvalId]/route.ts:133`), so it re-queues a run that DELETE has just
cancelled; its event takes `max + 1` without the advisory lock (`EventCollision`); and one made
between `execute.ts:213` and `222` is undone by the pause that follows it.

### How `KnowledgeFiles` corresponds to the code

* A file `f` stands for one upload: its object, its row of `attachments` (`att`), its row of
  `knowledge_documents` (`doc`) and the chunks of that document. No code attaches a second
  document to an attachment, so the three share an index, and the foreign key
  `on delete set null` is `att[f] = "none"`. `object` also remembers who removed the object;
  that is history, no action reads it beyond whether it is `"stored"`.
* `chunks[f]` holds the numbers of the deliveries whose chunks the document has. Texts,
  embeddings and the number of chunks are left out.
* `upload[f]` is the next step of POST `/api/files/upload`: `PutObject` (lookup and put),
  `RecordUpload` (the inserting transaction), `UndoPut` (its catch), `Enqueue`,
  `MarkUploadFailed` and `WithdrawObject` (the catch of the enqueue). A failed enqueue may
  have landed its job.
* `attempt[w]` is an invocation of `ingestFile`. Its writing transaction is `BeginWrite`, the
  delete of the chunks it can see (`old`), and `CommitWrite`. At the commit the foreign key
  refuses a deleted document and the unique `(document_id, chunk_index)` refuses chunks
  beside ones committed since. `Deadlocked` is the lock cycle with a deletion: the deletion
  holds the document and waits for the old chunks the attempt has deleted, the attempt's
  insert waits for the document; the attempt as the victim is the same as a refused commit.
* `deleter`, `kbDelete` and `cleanup` are the two DELETE requests and one pass of the
  retention job over orphan attachments, one action per call to the bucket and per
  statement. The list of a DELETE is a snapshot; the retention job reads its predicate
  (`Orphan`) three times. Age is not modelled: any row may be past the cutoff.
* `UploadFault`, `WorkerFault`, `DeleteFault`, `KbDeleteFault`, `CleanupFault` and the second
  disjunct of `PurgeObject` are crashes and failed calls, bounded together by `MaxFaults`.

Simplifications: a stall counts as one of the `Deliveries` (BullMQ counts stalls
separately); a commit whose acknowledgement is lost is left out; re-embedding, which rewrites
the embeddings of existing chunks in place, and renaming change none of these variables.

### How `Sessions` corresponds to the code

* `sessions[s]` and `tokens[i]` are rows of the two tables: `revoked_at` makes a session
  `"revoked"`; `used_at` and `revoked_at` together make a token `"spent"`, `revoked_at`
  alone `"revoked"`. `createSession` gives a session one family, so the family is the
  session. A token that an open transaction has inserted is `"pending"`.
* `sessionLock` and `tokenLock` say whose transaction holds a row. A transaction takes its
  locks one action at a time in the order of its statements; the action that commits writes
  the rows, because nobody sees them earlier. So `RotateRead` is the snapshot of the select,
  `RotateInsert`, `RotateReuse` and `RotateRevoked` its `for update of rt` (which shows the
  newest version of the token and the old one of the session) and what follows, and
  `RotateCommit` the update of `last_seen_at`, which waits for the session's row, and the
  commit. `LogoutLock`, `SweepStart`, `SweepRow` and `SweepCommit` are the two updates of
  `revokeSession`; a reuse runs the same update of its family, unconditionally, before it
  takes the session.
* A rotation locks its token and then the session; `revokeSession` locks the session and then
  its tokens. `InDeadlock` is the cycle and `DeadlockAbort` PostgreSQL's choice of a victim.
* `requests` has two slots for each tab: the refresh that `refreshInFlight` allows once, and
  the login or logout whose button is disabled while it is pending. A response is delivered
  in one action: the browser stores its cookie, then the page acts on it. A closed tab's
  requests go on, and the cookie of their response is stored all the same (`Abandoned`).
* `tab[t].mem` is the session of `memoryAccessToken`, `stale` says it has expired, `load` that
  `loadCurrentUser` runs, `me` the session with which its `getMe` was sent. `getMe` and other
  fetches are answered in one action, as reading a session is one statement.
* `PasswordChange` and `PasswordReset` are here for the sessions they revoke.

Simplifications: the credentials, expiry and idle timeout of sessions and refresh tokens,
`force_reset`, invites and the bootstrap are left out; a refused request (rate limit, CSRF,
password) and a failed statement are one action, `Fail`; the user's other devices appear only
through the sessions of their logins; the `last_seen_at` of `authenticateRequest` is one
statement that waits and changes nothing modelled.

### How `Conversations` and `ChatPage` correspond to the code

* `chats[c]` is a row of `conversations` with the sequence of its messages in the order of
  their creation; a message is the turn that writes it, its role, and whether the id is one
  the page made up (`local`). `turns[t]` is one request for an answer: POST `/api/chat` of
  kind `new`, `edit` or `regenerate`, or an agent run that answers into the conversation.
* The first transaction of a turn is `OpenTurn` (what it reads, with the checks that reject
  the request) and `CommitTurn` (what it writes); other transactions commit in between. The
  last one, `EndTurn`, comes after the stream; a turn that wrote no text writes no answer.
  `StartChat` is the insert of a conversation for a turn that names none. `CrashTurn` is a
  process that stops.
* `SelectLeaf`, `SetArchived` and `Delete` are the requests of `conversations/[id]/route.ts`,
  `AskLink`/`MakeLink`/`RevokeLink` those of `share/route.ts`. `MakeLink` is one statement of
  its own, between the check of the conversation and the answer.
* In `ChatPage`, `page` is the state of the component: `url` the address, `conv` the
  conversation it holds, `shown` and `leaf` its copy of tree and leaf, `on` and `prev` what a
  turn must restore. State set in one handler is set at once; a handler that awaits is as
  many actions as it has awaits. `Render` runs the effect that follows the address after
  every change, `Asked`/`ReadLeaf`/`ReadRows`/`ShowConversation` is one load, whose two reads
  on the server are separate statements.
* `posted` are the requests on their way: a turn's POST arrives later than it was sent, and
  its stream opens (`StreamOpens`, which renames the page's own ids), ends, fails, is stopped
  or left. `faults` are responses lost on their way.

Simplifications: a conversation is shown in one tab and changed by one other; attachments,
retrieval, titles, system prompts and the import of a conversation are left out; a branch is
switched by the leaf it leads to.

### How `PacketAgent` and `PacketAgentPanel` correspond to the code

* `conns[c]` is a connection, its workspace and the number of its token; `cards` and `events`
  are the rows of the two tables; an event is remembered by key and identity, which is what
  the handler deduplicates by.
* `Authenticate`, `FindRun`, `PlanIngest` and `ApplyUpsert` are the three reads and the
  transaction of one notification. `late` collects what other notifications of the connection
  wrote in between; it is history and read by properties only. A worker sends the same message
  any number of times with any token it once had.
* The panel's `calls` are its operations (create, rotate, revoke, start, retry, load), each a
  click, the steps of its route, and a rendering; every operation ends by loading the lists
  again. `agent` is the deployment: its revision, and the runs started with the revision that
  was read for them.

### How `AgentDrafts` and `AgentsPage` correspond to the code

* `agent.lock` is the lock on the row of the agent, `draft`, `bindings` and `versions` the
  rows that only a holder of it should write. A save is `ReadDraft` (outside the transaction),
  `CheckBases`, `LockAgent` (the update of `agents`), `ClearBindings`, `SaveDraft`; a
  publication is one `select ... for update` whose snapshot is older than its lock
  (`ReadForPublish`, `LockForPublish`) and `Publish`. `waited` is history.
* A save writes its spec as `${JSON.stringify(boundSpec)}::jsonb` (`draft/route.ts:219`), which is
  read back as a string. A request without a spec therefore goes on with a string: it names no
  base (168), its characters are spread into the spec that is written (195), and the bindings
  are deleted (206-209). `ReadDraft` gives such a request a spec of its own without bases.
* `editor` has the open agent, the draft it shows, the selected run and the flags of the
  buttons; `tasks` are the handlers that await (load, save, run, open, poll, cancel), each
  with the values it closed over. The two refs of the page, the current load and the current
  run, are state that a handler reads when it resumes.

### How `Providers` corresponds to the code

`accounts`, `rows` (bindings) and `locks` (the advisory locks) are the database; a sync is
`ListModels` (before its transaction), `LockAccount`, `PlanBindingWrites`, `PersistModels`; the
administrator's refresh ends in `RefreshModels` instead, which disables what the provider no
longer lists. The job matches by catalog entry only: the reference of a binding is written stringified
(`provider-sync-deps.ts:174`, `189`), so `->>'id'` (138) is null, and a binding that has lost its
entry is matched with no model. An edit that makes an account the default is two statements of one transaction, `ClearDefaults`
and `CreateAccount` or `PatchAccount`. The partial unique index is `IndexRefuses`; the lock leaves it
nothing to refuse. `Matched` is the
binding that the job's update by id still finds: a row deleted since the job looked
(`provider-sync-deps.ts:155-177`) is not written again.

### How `ProvidersPage` corresponds to the code

* `registry` is what the server has: the accounts in the order of their creation, each with its
  status, whether it is the default, and the binding of its one model; `queued` are the syncs
  that creations have queued (`Discover`). A request is granted or refused in one action
  (`Serve`, `Refuse`), as `Providers` has its statements.
* `desk` is the state of one of the two components: `listed` what it has loaded, `busy` the id
  that each kind of operation keeps, so that only the button pressed last is disabled, `saving`
  the one flag that the new account and the edited one share, `editing` and `form` the open
  form.
* An errand is a handler that awaits: `Start` is its part before the request, `Answered` that
  between its answer and `loadProviders`, `Loaded` and `Failed` what follows, with the `finally`.
  The manager loads everything anew after each change; the page of models patches the list that
  it loaded once. `missed` and `crossed` are history.

Simplifications: an account has at most one model; the fields of an account other than status
and default, the keys and the text of messages are left out, and so is the categories' choice,
which may leave any of the models selected.

### How the parts of `Services` correspond to the code

* `RateLimit`: `now` is Redis's clock, a call carries its process's own; the sorted set and
  the expiring counter are data, one action is one script. A call unanswered within the
  timeout is let through, and its script may run later.
* `ProviderStream`: the wire is a sequence of frames of four bytes each, received up to any byte;
  the reader splits what it has into frames and, one after the other (`Take`), parses them in its format and
  emits events, before it reads on. The request falls through the three endpoints of OpenCode Go.
* `ModelCatalog`, `UsageRecords`: one request or one frame is one action; the loops are
  bounded by what the provider sends.
* `Retrieval`: a chunk is its text and the text its embedding is of, with the form it was
  written in; ingestion, search and refresh are statement by statement. Rows come in the order of
  their documents and places (`InOrder`), and a page is a slice of the rows ranked (`Picked`).
* `PromptVersions`: an edit reads, then writes under a lock, then numbers its version.
* `PromptsPage`, `KnowledgePage`, `Sidebar`: the state variables of the component, the
  handlers that wait for an answer with what they closed over, and the rows on the server
  that the request reads or changes when it arrives. A rendering runs the effects.

## Runs

| Run | Instance | Shows |
|---|---|---|
| `Approval` | queued run, one external tool, 2 executors, 1 canceller, 1 poller, 1 approver, 1 fault | `TypeOK`, `StepsDense`, `ActionsGated`, `CancelIsFenced`, `OneTerminalAnswer`, `CompletedIsFinal` |
| `Redelivery` | 3 executors, 2 approvers, no faults | `CallsAtMostOnce` |
| `Sync` | synchronous run, a context and an external tool, 2 executors, 1 canceller, 1 poller, 1 approver, 1 fault | `CompletedAnswerIsTrue` |
| `Recovery` | the program as it stands: `FairSpec`, context tool, 2 executors, 1 canceller, 1 poller, 1 fault | `TerminalIsFinal`, `StrandedIsRecovered`, `EndedIsAnswered` |
| `Conversations` | 2 conversations, 2 turns, 2 links | `BranchesCanBeShown`, `IsForest` (the refinement), `SharedBranchStays` |
| `ChatPage` | `FairPageSpec`: 2 conversations, 3 turns counting those of the past, 2 loads at once, 1 change of address, 1 lost response | `PageTypeOK`, `ShownIsStored`, `ShowsItsConversation`, `TurnsSettle`, `AddressIsFollowed` |
| `Files` | `FairSpec` of `KnowledgeFiles`: 1 file, 2 slots, 1 deleter, 2 deliveries, 1 fault | `TypeOK`, `ReadyIsWhole`, `NoStrayChunks`, `RowsAgree`, `ObjectsAreAttributed`, `RetentionSparesDocuments`, `DocumentsSettle`, `OrphansCollected` |
| `Sessions` | `FairSpec` of `Sessions`: 2 tabs, 2 sessions, 2 refreshes, 1 incident | `TypeOK`, `OneChild`, `OneLiveToken`, `CookieIsCurrent`, `RotationEndsWithLogout`, `ComesToRest` |
| `Workbench` | seven parts, bounds below | `DeliveriesAreStored`, `TablesAgree`, `PagesAreCurrent`, `ChoicesAreKept` |
| `Services` | nine parts, bounds below | `AnswersAreTrue`, `DerivedIsCurrent`, `ListsAreCurrent` |
| `RefusedDecision` | violation of `DecisionsResolve` | a decision on a pending approval leaves it pending |
| `StaleIndex` | violation of `RefreshRestores` (`Services`, `ServicesRefresh.cfg`) | a refreshed chunk is still ranked lexically |

What the less obvious properties say:

* `ActionsGated`: no external tool is called in a run whose approval is missing or rejected.
  `CallsAtMostOnce`: neither the model nor a tool is called twice for one run.
  `TerminalIsFinal`: no step moves a run from a status in which it ended, on which the
  retention job relies when it deletes such runs (`cleanup-deps.ts:16-18`, `126-128`).
* `IsForest` is `MessageForest!ForestSpec` under the mapping of trees to sets of messages:
  whoever writes, a step of the server adds one message under a message of its own
  conversation, selects a message, or deletes the conversation.
* `SharedBranchStays`: the branch a live link recorded reads the same in every later state,
  and the link dies with its conversation.
* `ShownIsStored`, `ShowsItsConversation`, `LocalIdsStayHome` (in `PageTypeOK`): the ids that the page invents
  never reach the server or survive a turn, and a page at rest shows one conversation.
* `TablesAgree`, `ChoicesAreKept`, `PagesAreCurrent`, `ListsAreCurrent`: tables that one
  request changes together agree after any overlap; no step undoes another actor's choice; a
  page with no request under way shows what the server has. The exceptions that the code
  does have are part of each component's property and named in its comment (`crossed`,
  `waited`, `late` of `PacketAgent`, `mixed`, `missed`, `lost`): each of them is set by the overlap that causes it, so that the
  property fails when the same happens for any other reason.

**Every conjunct can fail.** Each property has a mutant of the code that it catches
(`PROJECT.json`). The conjunctions of `Workbench` and `Services` have further ones for their
other conjuncts, kept beside the definitions they mutate; with the body of the second name
replaced by the first, TLC reports the property:

| Part | Mutant / definition |
|---|---|
| `PacketAgent` | `RevokeKeepingEvents` / `Revoke`, `AllowedAnywhere` / `Allowed` |
| `PacketAgentPanel` | `ShownOnCreation` / `Shown`, `ActivateLatest` / `Activate` |
| `AgentDrafts` | `SaveBeside` / `SaveDraft`, `PublishOnce` / `Publish` |
| `AgentsPage`, `ProvidersPage` | `PolledAlways` / `Polled`, `TypedAnything` / `Typed` |
| `Providers` | `ClearNothing` / `ClearDefaults`, `JobEnables` / `JobWrites`, `KeepsEnabled` / `Disabled` |
| `RateLimit` | `RoomForOneMore` / `Room`, `FixedWindowNoGrace` / `FixedWindow` |
| `ProviderStream` | `ClosedComplete` / `Closed`, `RestDropped` / `Rest` |
| `ModelCatalog` | `GooglePageAgain` / `GooglePage` |
| `UsageRecords` | `PriceByName` / `PriceFor`, `LatestUsage` / `MergeUsage`, `RecordNonZero` / `RecordUsage` |
| `Retrieval` | `SearchReadsFull` / `SearchReads` |
| `PromptVersions` | `CommitOfText` / `CommitEdit` |
| `PromptsPage`, `KnowledgePage`, `Sidebar` | `ResetForm` / `Reset`, `AppliedKeepingSelection` / `Applied`, `SearchedLate` / `Searched`, `RemovedFromRecent` / `Removed` |
| `ChatTree` | `ChainOfTwo` / `Chain` |
| `ChatPage` | `LeafToSend` / `ParentToSend` (`PageTypeOK`) |

**Bounds of `AgentRun`.** A run meets at most two executions at a time for every hazard above (a claimed
one and a late duplicate, or a paused one and its resume); `Redelivery` takes three, so that
a paused execution, its resume and a stale redelivery overlap. One canceller and one poller
are enough because their updates are idempotent; two approvers appear where both decide the
same step. One fault reaches every single crash point in every interleaving. `MaxFaults`
and the finite sets are the only bounds: `waiting` is bounded because every enqueue
belongs to one POST or approver and every redelivery to one executor. `CHECK_DEADLOCK` is
off because a settled run with all requests answered rightly stops.

**Bounds of `KnowledgeFiles`.** Files share no row but the knowledge base's, and every
statement names one file, so one file shows the interleavings; the theorems cover any
number. Two deliveries overlap after a stall, which is what the unique key and the
statuses have to stand. Larger instances (three deliveries, or two faults) pass as well and
take a few minutes. `CHECK_DEADLOCK` is off because a deleted knowledge base with nothing
left to collect rightly stops.

**Bounds of `Sessions`.** `MaxSessions`, `MaxRefreshes` and `MaxIncidents` are the only bounds.
A browser that is signed in opens two tabs, which present its one cookie at once: that is
the race the row lock decides and the replay the reuse branch answers. The second session
is a login that replaces the cookie while requests of the first are under way. One incident
(a failure, a lost response, an expired access token, a closed tab, a password change, a
logout from the login page) falls anywhere. The theorems cover any number of each.
`CHECK_DEADLOCK` is off because a browser with no refresh, login or incident left rests.

**Bounds of `Conversations` and `ChatPage`.** Two turns overlap in every way that two
transactions can, in one conversation or across two, with a third actor selecting, archiving,
deleting or sharing. A request that names a message of another conversation needs three turns,
one to start each conversation: that case is beyond this instance, and the theorem, which
covers any number of each, has it. `ChatPage` starts from no
conversation, from a line, from a fork, and from two conversations, so that one turn more
reaches edits of a first and of a later message and a switch of branches; two slots let an
older load overtake a newer one. `CHECK_DEADLOCK` is off because a user with no turn left rests.

**Bounds of `Workbench`.** Notifications: 2 connections, 2 notifications under way (each may be
sent again), 2 workspaces, 1 worker run, 2 event keys, 1 rotation. Panel: 2 connections, 3
operations, 2 revisions, 1 change by another tab. Drafts: 2 requests, 1 user besides the owner,
1 base. Accounts: 2 accounts, 1 model, 2 syncs or refreshes, 2 edits. Syncs: 2 accounts, 2
models, 2 syncs or refreshes, 1 edit. Editor: 2 agents, 2 handlers at once, 2 runs. Desk: 2 accounts, 2 handlers at once, 3 clicks. Two of each
is what every one of these races takes; where a bound ends a behaviour (`MaxRows`,
`MaxDrops`, `MaxRuns`, ...), it is a guard of the action that would pass it.

**Bounds of `Services`.** Limiter: limit 1, window 3, 3 calls in 5 units of time, with timeout,
grace and skew of 1: a window can be entered, left and entered again, and a late script can
straddle it. Streams: 3 frames, cut anywhere. Catalog: 3 models, one unfit, 4 pages. Accounting:
2 reports. Index: 2 documents of 2 chunks, 2 ingestions, 2 requests. Prompts: 3 editors. Shelf:
2 prompts, 2 requests at once, 4 steps. Knowledge: 2 bases, 1 document, 2 requests at once, 3
clicks. Sidebar: 2 conversations, 2 titles, 1 link, 2 requests at once, 3 steps of the user.
Two answers in the wrong order is the shortest way to a stale list, and clicks are what starts
requests. Both sums have `CHECK_DEADLOCK` off: a part whose work is done rests.

**Symmetry** permutes executors, cancellers, approvers and pollers separately, the links of
`Conversations`, and the sets that the parts of `Workbench` are instantiated with; it is used
for safety only.

**Fairness.** `FairSpec` assumes that a living process executes its next statement
(`Execute`, `FinishDecision`, the rest of a DELETE), that the queue delivers what it owes,
that time passes (`LeaseExpires`) and that a client repeats its GET (`Poll`), which is what
the user interface does while a run is live. Nothing is assumed of users (decisions,
cancellations), of heartbeats, of redelivery, or of a crashed process. `StrandedIsRecovered`
speaks of rows with `started_at`: a synchronous run that dies before `markRunRunning` has
none and the reaper never matches it; a queued run whose job was never enqueued stays queued
by design. `EndedIsAnswered` excuses faults because a crash between the two statements loses
the message (a repeated DELETE repairs only cancellations).

`KnowledgeFiles!FairSpec` assumes that a request or attempt that lives goes on, that the queue
delivers a waiting job and notices the lapsed lock of a dead slot (`Stall` with `Dead`), and
that the retention job recurs. Uploading and deleting are users' choices, and a living slot's
lock need not lapse. `DocumentsSettle` excuses two cases in which the code has nobody left to
act: the upload died between its rows and its job, and a fault hit the last delivery.
`OrphansCollected` excuses an attachment that a dead attempt left `processing`: the retention
predicate exempts it for ever.

`Sessions!FairSpec` is one weak fairness, `WF_vars(Progress)`: while the server has a statement
to run or the browser a response to deliver, one of them is run or delivered. That is enough
because requests, refreshes and logins are finite in number, so no part of `Progress` can
starve another for ever; a deadlock is resolved because PostgreSQL aborts a victim. Users
(`Open`, `Login`, `Logout`, ...) and incidents are not fair.

`ChatPage!FairPageSpec` assumes that requests that are not lost arrive and are answered
(`Arriving`), that the server and the provider go on (`Serve`) and that responses reach the
page (`Turning`). The user need not do anything, and another tab neither. Turns and moves are
finite in number, so one weak fairness for each of the three is enough. `AddressIsFollowed`
excuses a lost response: the effect that follows the address does not run again.

## Findings

Two runs expect a violation and show a disagreement between the code and what a comment or a
document of the repository says; `PROJECT.json` quotes them.

* `RefusedDecision`: `docs/release-readiness.md:24` and `docs/local-run.md:306` say that authorized
  users approve or reject pending approvals. The transaction of every decision begins with
  the `for update` described above, which PostgreSQL refuses: the approval stays pending.
* `StaleIndex`: the refresh writes `JSON.stringify(...)` into a `jsonb` parameter, which
  PostgreSQL reads back as a string (`reembed/route.ts:93-97`; `CHANGELOG.md:39` says so of the
  same form), and `parseLocalEmbedding` takes a string for no embedding. Chunks stay ranked
  lexically and count as outdated at the next refresh; `docs/demo-seed.md:34` promises
  otherwise. Ingestion writes the same form (`worker/src/index.ts:239`).

### Configurations outside the runs

Two more configurations pass: `AgentRunTerminal.cfg` checks `TerminalIsFinal` of the program as it
stands where an approval is requested and refused, with two faults, and `AgentRunWorker.cfg` is
`Recovery` where workers can read the input.

Seven more are violated within seconds, each by what a comment, an index or a
name in the code promises. They are kept because the counterexample is the shortest
explanation of the code path.

| Configuration | Property | What happens |
|---|---|---|
| `AgentRunAnswers.cfg` | `ExactlyOneAnswer` | the synchronous POST writes its message without `recordRunOutcome` (`runs/route.ts:250-299`), so a cancelled run gets two terminal messages (`deps.ts:342-344`, `367-369`) |
| `KnowledgeFilesReaped.cfg` | `ReapedObjectStays` | the comment at `cleanup-deps.ts:205-207` describes a retention job that leaves objects behind; the job deletes them |
| `SessionsSignOut.cfg` | `SignOutClears` | the login page reports a logout as done without looking at the response (`login-client.tsx:125-126`, `auth-client.ts:75`) |
| `ConversationsShared.cfg` | `SharedStays` | an edit of the first message adds a root, which then stands in front of the shared branch; `share.ts:105-108` wants no newer content to drift in |
| `ChatPageParent.cfg` | `NextTurnHasParent` | a turn that fails while the user goes to another conversation leaves a leaf of the former one, under which the next message is sent (`page.tsx:887-888`, `895`) |
| `ProvidersDefault.cfg` | `OneDefault` | two edits at once leave two default accounts, or a disabled one, although `0004_app_wide_provider_accounts.sql:12-13` says that only one can be and `accounts/[accountId]/route.ts:35` refuses the other |
| `AgentsPagePoll.cfg` | `PollKeepsSelection` | whether a poll may show its run is decided before its request is answered (`agents/page.tsx:884`), so it replaces a run that was selected meanwhile, which `881-883` excludes |

### Other behaviours seen while modelling

Nothing in the repository says that these do not happen, so no property excludes them; the
models contain those that concern modelled state.

* Runs: when GET reaps a synchronous run whose request is still alive, the row says
  `timed_out` and the message `cancelled` (`runs/route.ts:278-280` says the two agree). The
  figures that `admin/usage/route.ts:24`, `44`, `66` and the routes of runs read from
  `raw_usage ->> 'estimated'` are null for every row, as `raw_usage` is stored stringified.
  Reasoning tokens are priced on top of the output tokens (`usage.ts:101`).
* Sessions: a login that stops between its two inserts leaves a session without a token
  (`auth/src/index.ts:182`); a refresh whose response is lost leaves the browser with a used
  token, so that its next refresh is taken for a replay and ends the session.
* Agents: closing the editor while its draft loads leaves it busy (`agents/page.tsx:536-579`);
  the answer of a save or of a started run is applied to an editor opened for another agent
  (`704`); a publication that waited for a save pairs the old spec with the new bindings
  (`publish/route.ts:28-64`); it makes an archived agent active; saving to an agent deleted
  meanwhile is answered 200.
* PacketAgent: a deployment whose connection was revoked stays chosen
  (`PacketAgentPanel.tsx:74`, `165`); the retry of the panel's error state fails silently; after a
  rotation whose answer was lost, the token on display is one the connection no longer accepts.
* Sidebar and knowledge: a rename that fails restores the results of an earlier search; a share
  dialog opened again misses a link made meanwhile; the library shows the documents of the base
  selected before when answers are reordered.
* Providers: an Anthropic stream lost after `stop_reason` emits an end and then an error; a
  Google stream cut between frames is taken for complete; a binding whose catalog
  entry was removed by hand is found again by no sync and no refresh, which insert a second one
  for the model and leave the first enabled. On the manager, the
  answer of a save closes the form of whichever account is open by then
  (`providers-manager.tsx:279`); pressing a button of a second account enables that of the first
  while it is under way; the models that a creation discovers in the background appear only at
  the next load. On the page of models, two toggles of one model can leave it shown wrong.
* Prompts: the answer of a save closes the dialog of another prompt; a load answered after a
  creation drops or doubles the new prompt; the `finally` of a deletion clears the pending
  state of another one; the star of a deleted prompt is kept.

## Proofs

TLC shows a property on a small instance, TLAPS for every value of the constants. Eight
modules hold theorems. Each inductive invariant was checked by TLC before it was proved.

`AgentRunProofs` proves, for every number of executors, approvers, cancellers and pollers,
every sequence of tools and every bound on faults:

* `TypeCorrect`: `Spec => []TypeOK`
* `StepsStayDense`: `Spec => []StepsDense`
* `ExternalActionsAreGated`: `Spec => []ActionsGated`
* `CancellationIsFenced`: `Spec => []CancelIsFenced`
* `CompletionIsFinal`: `Spec => CompletedIsFinal`
* `TerminalRunsAreFinal`: `Spec => TerminalIsFinal`
* `CallsHappenOnce`: `Spec => []CallsAtMostOnce`
* `QueuedRunsAnswerOnce`: `Spec => []OneTerminalAnswer`
* `CompletedAnswersAreTrue`: `Spec => []CompletedAnswerIsTrue`

They assume only the module's assumptions on its constants.

*Argument for the numbering.* Density alone is not inductive: an executor carries its next
number in memory. `StepInv` adds that every executor that still inserts has `seq` in
`1..Max+1` and every approver that will insert has computed such a number in a transaction
(`NumbersContinue`), and that steps are never removed (`Numbered`). An insert either meets a
used number and fails or continues the sequence. Step lemmas are stated per action and
composed in `StepInvNext`.

*Argument for the gate.* `ActionsGated` needs the whole history of the approval. `GateInv`
says: a run has at most one approval step (`OneApproval`), because only a fresh execution
inserts one, under a number that a second fresh execution finds used; its decision is taken
by one approver (`DecisionIsExclusive`); a row that is queued while the gate was reached, is
queued because of an approval (`QueuedMeansApproved`), and so is a completed one
(`CompletedMeansApproved`); a pending dispatch belongs to an approval
(`DispatchMeansApproval`); and every executor past the gate fits the steps (`Fits`): it is
either resumed from an approved step or needs none. `RowLifeCycle` classifies how one step
may move the row, and carries `CancelIsFenced` and `CompletedIsFinal`.

*Argument for the calls.* `CallsInv` follows who may still call what. At most one executor is
`Admitted`, past its claim and before its end; the calls it has ahead of it (`Ahead`) have not
been made; and a row that is queued, or whose approval is missing, has no admitted executor and
no call made at all. A resumed executor starts at the tool after the gate, so the last two cover
the one claim that follows a pause. `Moves` says what every step but a claim does: no executor
comes nearer to a call it has made. It holds under crashes because a row that a dead executor
left `running` is never claimed again.

*Argument for the answers.* A message is appended under `shouldRecordRunOutcome`, which looks for
a terminal one first, or by a synchronous request, which a queued run has none of; so a queued
run gets one. Whoever is about to write "completed" has completed the row (`Answering`), and
with `CompletedIsFinal` the row stays so.

*Argument for terminal statuses.* Every other writer of the row states the statuses that it
expects, none of them terminal; the one that does not is the decision, and while
decisions are refused no approver is in its transaction (`Undecided`).

`ServicesProofs` proves of `KnowledgeFiles`, for every set of files, slots and deleters and every
bound on deliveries and faults:

* `TypeCorrect`: `Spec => []TypeOK`
* `ReadyDocumentsAreWhole`: `Spec => []ReadyIsWhole`
* `ChunksHaveDocument`: `Spec => []NoStrayChunks`
* `RowsStayTogether`: `Spec => []RowsAgree`
* `NoObjectIsStranded`: `Spec => []ObjectsAreAttributed`
* `RetentionIsSafe`: `Spec => []RetentionSparesDocuments`

`TypeInv` adds to the types that a working slot has a file. `RowsInv` is inductive over it:
`OneSource` states `ReadyIsWhole` without `Cardinality`, which the SMT backend does not
know. `ObjectInv` supplies what the object properties lack: rows exist only once the upload
has inserted them (`Recorded`), which happens once, so an object that was removed never comes
back and an orphan never gets a document (`RowsAreRecorded`, `CleanupTakesOrphans`,
`ReapedIsGone`); and whoever is about to delete a row has removed its object
(`DeletersRemoveFirst`, `KbDeleteRemovesFirst`). The last needs `RowsAgree`: a document whose
attachment row were missing would be deleted without its object. `StatusKeepsObjects` covers
the actions that only change statuses.

The same module proves of `Services`, for every value of the constants that its assumptions
allow (bounds that are natural, limits and windows that are positive, `Absent` no text, no edit, no
figure and no page):

* `LimitsHold`: `ServicesSpec => []LimitsAreKept`, the conjunct of `DerivedIsCurrent` on the limiter
* `DerivedStaysCurrent`: `ServicesSpec => []DerivedIsCurrent`
* `AnswersStayTrue`: `ServicesSpec => []AnswersAreTrue`

*Argument for the limiter.* `LimiterInv` relates what Redis holds to the calls that were admitted,
whatever of them was late or cut. A call that a window of the sliding limiter still has to count is
in the set, because a script only removes what is as old as a window by its own clock, which is off
by the skew (`EntriesFit`). The counter of a fixed window is at least the number of calls that were
admitted in it, because it outlives its window by the grace (`WindowsFit`), and no script that was
given up runs later than that (`TimesFit`). A sliding window cut at both ends by skew and delay, and
a fixed one cut at its end, then admit at most the limit.

*Argument for the prompts.* An edit numbers its version under the lock of the prompt, so the numbers
are those from one on (`NumberedFrom1`), there is one at most for each edit, and the last has the text
of the prompt (`LastIsThePrompt`).

*Argument for the index.* `IndexInv` says that the rows of a later ingestion are others, so a row
that a refresh has read, and that is still there, has the text that was read (`RowsHaveTexts`,
`ScanHolds`); that a document that is ready has chunks (`ReadyHaveChunks`); and that the page of an
answered search is the slice it asked for of the sequence that its candidates rank to (`PageIsCut`,
`RequestFits`). That pages fit together is then about sequences: a finite set of rows has one
enumeration in order (`OrderExists`, `InOrderIs`), what is picked from it is in it once each
(`PickedIs`), and two slices of one sequence that follow each other have no row in common
(`PagesOfOne`).

*Argument for the answers of providers.* A reader has taken only frames that came in full, of which
none but the last may end the stream, and passed on exactly their texts, in order (`ReaderFits`). While
it is under way it has no end, except that an Anthropic one may have completed on its reason to stop
(`UnderWay`); the step that ends it adds one end to that, and says "complete" only on a frame that says
so (`IsOver`). `StreamsInv` joins the reader to the connection: one that is reading has not taken
more than it has received, and one that is over has left nothing that came in full (`NothingIsLeft`),
unless it broke. A listing's next page is none that Google's was asked for, nor the last of Anthropic's
(`NextIsNew`), and what a page adds to Google's models is picked from it and is new (`FitIs`). The merged
usage has of each figure the last that was reported (`UsageFits`); in the table of prices, one for a longer
name comes before the one it includes (`PricesTabled`), so the first that matches is the closest
(`FirstIsClosest`).

As in `Workbench`, a step of the sum is a step of the part named (`PartActs`), and the other
variables are `Off`.

`PagesProofs` proves of the pages of `Services`, for any number of prompts, bases, documents,
conversations, links, requests and clicks:

* `ListsStayCurrent`: `ServicesSpec => []ListsAreCurrent`

*Argument for the pages.* The property speaks of a page whose requests have been answered. What
leads there is an invariant for each page that says, by the step of the request that is under way,
how what is shown differs from what the server has, and that its answer makes up for just that. For
the sidebar (`RailInv`): while a deletion that was granted is under way, the list without that
conversation is the server's; while a rename is on its way, the list has its new title already
(`ListFollows`). The results are of the term in the box or a search for that term still counts
(`TermIsSearched`), which needs no order of requests. The links of the dialog are the live one, or a
request that will make them so is under way: a link that is not listed is found by creating one, and
one that was revoked never works again (`LinksFollow`). For the prompts (`ShelfInv`): the list has
every prompt once, or is what it will be by one answer (`FollowsSend`); `ShelfFits` counts the answers
that bring a prompt, which bounds the list, and has one save at most under way. The lists are sorted, so
the proof needs that a finite set has one enumeration in order (`InOrderIs`). For the knowledge files
(`KnowledgeInv`): the form, the results and every request are about the base that is selected until one
is selected over a request for another (`PageInPlace`); the list of bases and the documents are the
server's but for the one answer that is awaited, or a load will bring them (`RowsFollow`, `DocsFollow`),
since no alteration overlaps another handler (`WorkFollows`); and what is disabled is what a handler
works on (`FlagsFit`).

In `PromptsPage` the list is sorted and filtered with the operators of `Ordering`, which a theorem
can be about; in it and in `Sidebar`, the arms of each `CASE` exclude each other, which the provers
need and TLC does not.

`SessionsProofs` proves, for every set of tabs and any number of sessions, refreshes and
incidents:

* `TypeCorrect`: `Spec => []TypeOK`
* `TokensRotateOnce`: `Spec => []OneChild`
* `SessionsHaveOneToken`: `Spec => []OneLiveToken`
* `CookiesStayCurrent`: `Spec => []CookieIsCurrent`
* `LogoutsEndRotation`: `Spec => RotationEndsWithLogout`

*Argument for rotation.* That a live token has no successor is not enough: two transactions
may both have read it. `Core` adds that a rotating transaction holds the row of its token
until it commits and that the token is live and its successor pending all that time
(`Rotations`); that pending tokens belong to such transactions (`PendingOwned`); and that the
parent of every committed token is spent (`ParentsSpent`). The second transaction, once it
has the lock, finds the token spent. One live token per session follows, because the commit
that makes the successor live spends the parent, and a login between its two inserts has a
session to itself (`LoginsAlone`). `QuietStep` covers every step that moves one request and
writes no row; the five steps that write rows, and the roll-back, have a lemma each.

*Argument for the cookie.* `CookieInv`: a token is named by one response until that is delivered
or lost, and nobody presents it before (`Issues`). So no older response can bring back a token
that was used, and the successor of a used one in the cookie is on its way.

*Argument for the logout.* A logout holds the row of its session, or finds the session revoked
(`Holds`); every live token from which a rotation may still start is among the rows that it has
locked or is going to (`Covers`); so when it has committed, no rotation under way has a live token
(`Over`). That needs that a session a page can name has a token (`MemKnown`, `SidKnown`): the
update of `revokeSession` is of the rows it can see.

`ConversationsProofs` proves, for any number of conversations, turns and links:

* `TypeCorrect`: `Spec => []TypeOK`
* `TreesAreForests`: `Spec => IsForest`, that the server implements `MessageForest`
* `SwitchesCanBeShown`: `Spec => []BranchesCanBeShown`
* `SharedBranchesStay`: `Spec => SharedBranchStays`

*Argument for the refinement.* A turn commits twice, long after it has read what it builds
on. `TreeInv` says what of that still holds. Leaves and parents are in their own tree
(`LeavesHeld`, `ParentsHeld`), a conversation that does not exist has no messages
(`AbsentIsEmpty`), a message is in a tree only once its turn has written it
(`UsersAreWritten`, `AnswersAreWritten`), and the place under which a turn will write is in
its conversation until that is deleted (`TurnsFit`): trees only grow. With it, each step of the
server maps to one step of the forest or to none: the second half of the first transaction to
`Say`, the end of a turn to `Answer`, a selection to `Select`, a deletion to `Remove`.

*Argument for the branches.* The walks of `chat-tree.ts` and `share.ts` are recursive functions over
a tree, and terminate by a counter or by the set of what they have seen. What they return is right
in trees that are `Sound`: parents stand before their children, and no id occurs twice.
`BranchInv` says that every tree of the server is, and that a link that is asked for or live
has recorded a leaf that is in its tree. In a sound tree a chain is the least set that has its
leaf and the parent of each of its members (`ChainIsClosed`, `ChainIsLeast`), the walk down from a
message ends at a leaf below it, so that the message is on the chain of that leaf, and adding a
message changes no chain that is there (`WalkStays`), which is why a shared branch stays as it was.
The induction is first-order: a set of numbers that is not empty has a least member
(`LeastNumber`, from the library's theorem that `<` on the naturals is well founded), so a property
that climbs from each number to the next has no least exception (`Climbs`); the same makes
recursive functions exist (`Recursion`).

The same module proves of `ChatPage`, for any number of slots, moves and lost responses (assuming
that no slot is called "turn", and that there is room for the two conversations and the turns that
are stored when the page opens):

* `PageTypeCorrect`: `PageSpec => []PageTypeOK`
* `NoLocalIdIsSent`: `PageSpec => []LocalIdsStayHome`
* `WhatIsShownIsStored`: `PageSpec => []ShownIsStored`
* `PageShowsItsConversation`: `PageSpec => []ShowsItsConversation`

*Argument for the page.* The properties speak of a page at rest; `PageInv` says what holds while a
turn and several loads are under way, each of which will overwrite what is shown. All that is shown
but the messages of the turn itself is stored, until a response is lost or a conversation deleted
(`StoredAt`), and all of it is of the page's conversation as long as no load has been applied across a
turn (`HomeAt`, `mixed` is the history of that; `Apart`: otherwise no load is open beside a turn). What a
load brings is of the conversation it was made for (`Loads`), the stage, the address and the
requests on their way name conversations that exist (`StageFits`, `WhereFits`, `PatchFits`), and no
id that the page made up leaves in a request (`LocalIdsStayHome`).
The page extends the server, so each of its steps is a step of the server or none
(`ServerStep`), under which trees only grow (`TreesGrow`), and what was stored stays stored.

`PacketAgentProofs` proves, for any number of connections, notifications, worker runs and keys
(assuming only that the number of rotations is natural and that no workspace is called
"none"):

* `RowsHaveConnection`: `Spec => []RowsOfConnection`
* `DeliveriesLeaveOneEvent`: `Spec => []OneEventPerDelivery`
* `NothingIsAnsweredUnstored`: `Spec => []AnsweredIsStored`
* `TypeCorrect`: `Spec => []TypeOK`
* `CheckpointsAreKept`: `Spec => CheckpointKept`
* `PanelUsesTheStore`: `PanelSpec => Spec`, that the panel implements the store of connections
* `PanelTypeCorrect`: `PanelSpec => []PanelTypeOK`
* `PanelStaysCurrent`: `PanelSpec => []PanelIsCurrent`
* `RunsStartAsRead`: `PanelSpec => StartsWhatWasRead`

The first four are the conjuncts of `DeliveriesAreStored`. *Argument.* Nothing that a handler reads is
locked; `HookFits` says what survives until it writes: a connection keeps its workspace, and
the event it is about to append was in nobody's log unless an overlapping handler of the same
connection wrote since (`late`), which the property excuses. `HooksSee` says the same of the card:
it is the one that the handler read, or `late` has it.

*Argument for the panel.* `PanelInv` ties what is on its way back to the store. While operations
come one after the other (`OneByOne`) and nobody else changes connections, a list that was read
and not yet rendered is that of the live connections (`ListsFit`), the answer of a creation or a
rotation has the token that its connection accepts, and the token on display is accepted unless a
rotation of it has been committed and not rendered (`TokensFit`). TLC refuted the first version of
the property, with one operation more than the run has: a rotation that is committed and whose
answer is lost leaves a token on display that no longer works. `lost` is the history of that.

`AgentDraftsProofs` proves, for any number of requests, users and bases (assuming that `NoOne`
is no request):

* `TypeCorrect`: `Spec => []TypeOK`
* `DraftIsBound`: `Spec => []BindingsFollowSpec`
* `PublishedWhole`: `Spec => []VersionsAreWhole`

These are the conjuncts of `TablesAgree` on drafts. *Argument.* A save clears the bindings its
statement sees and adds those of its spec; a publication copies the bindings beside a spec it
has read. `RequestFits` says that whoever is past its lock holds the row of the agent, that
what it has cleared is all there was, and that the spec of a publication is the draft's unless
it has waited. So no one else writes the draft in between; deleting a base needs no lock, and
takes it from the bindings and from the bases that exist at once.

The same module proves, for any number of agents, runs and handlers (assuming that `NoAgent` is
no agent and `NoTask` no handler):

* `EditorsStayCurrent`: `EditorSpec => [](EditorTypeOK /\ BusyIsWork /\ MonitorIsOfAgent)`

*Argument.* `EditorInv` says of each handler what it still works for, by the step it is at. A load
that is not given up is the one that the page waits for (`Wants`), and only one is; a poll that is
named is not at its end (`PollingFits`); the run that a handler asks for, or that is shown, is of the
agent that is edited, as long as no editor was closed over a handler (`HandlerFits`,
`MonitorFits`). The proof needs no handler to have ended, so `MonitorIsOfAgent`
says of the steps shown, also while handlers are waiting, that they are those of the run named.

`ProvidersProofs` proves, for any number of accounts, models, syncs and edits (assuming that the
two bounds are natural and that `NoId` is no account and no edit):

* `TypeCorrect`: `Spec => []TypeOK`
* `BindingsAreUnique`: `Spec => []OneBindingPerModel`
* `DefaultsNeedCrossing`: `Spec => []DefaultsCrossed`
* `ChoicesSurvive`: `Spec => ChoiceSurvives`

*Argument.* `BindingsInv`: whoever inserts either meets the unique index, or inserts what nobody
has; the rows that a job has matched are still of its account and model, unless they are gone
(`SyncFits`). TLC refuted the same for rows that are gone, which showed that the model wrote to a
binding deleted meanwhile; `Matched` is the correction. `DefaultsInv`: an edit that makes a default and
was not crossed has seen, and then locked, every other default (`SeesDefaults`), so a second one
takes an edit that was.

The same module proves, for any number of accounts, handlers and clicks, of the first two at
least one:

* `DesksStayCurrent`:
  `DeskSpec => [](DeskTypeOK /\ DeskIsCurrent /\ WaitsForWork /\ FormsAreAllowed)`

*Argument.* `DeskIsCurrent` speaks of a page whose handlers have ended; `DeskInv` says what leads
there. On the manager (`ManagerInv`), whatever is listed, or was read and waits to be listed, is what the
server has, or is marked as missed, or a list is still to be read (`Coming`), or was read later and
waits (`Newer`); that reads are ordered is `RanksFit`, which counts them. On the page of models
(`ModelsInv`), what is listed is what the server has but for the toggles that were granted and not
answered, of which there is one for a model unless two crossed (`Agrees`, `TogglesApart`).
`SoundInv`: nothing listed, read or filled in is a disabled default.

`SessionsProofs` also proves of `Workbench`, the composition that TLC runs:

* `NotificationsAreStored`: `WorkbenchSpec => []DeliveriesAreStored`
* `OverlappingWritesAgree`: `WorkbenchSpec => []TablesAgree`
* `PagesStayCurrent`: `WorkbenchSpec => []PagesAreCurrent`
* `NothingChosenIsUndone`: `WorkbenchSpec => ChoicesAreKept`

`part` never changes, and a step of the sum is a step of the component that it names
(`PartSteps`); so each component keeps its inductive invariant as if it were alone, and the
properties follow from its theorems. The assumptions on the ids are those that the components need.

*Only model-checked:* liveness under fairness (`StrandedIsRecovered`, `EndedIsAnswered`,
`DocumentsSettle`, `OrphansCollected`, `ComesToRest`, `TurnsSettle`, `AddressIsFollowed`), which is
out of the provers' reach. So are theorems with an operator as a parameter, those of induction among
them; `LeastNumber` does without. Every safety invariant and action property of the passing runs is
proved.

## Not modelled

* The approvals inbox and the reports of administrators: queries that change nothing.
* Projects and the list of files: requests of one owner, one statement each.
* Configuration, observability and email: no state shared with the rest.
* Within modelled components: password checks and policy, invites, the bootstrap and expiry of
  sessions; chat uploads and text extraction; scores of retrieval and the content of embeddings;
  attachments, titles, system prompts, import and export of a conversation; credentials of
  providers and their encryption, connection tests; attempt limits and back-off of the queue;
  the list of agents and the fields of a spec other than its bases; PostgreSQL beyond row
  locks, unique constraints and read-committed statements; rendering, markdown, settings and
  forms with one request at a time. `PROJECT.json` gives the reason for each component.

## Plan

What is left, in order of value:

1. Chat uploads and re-embedding in `KnowledgeFiles`; invites and the bootstrap in `Sessions`.
2. An abstract specification of a document (its content appears at once or it fails) that
   `KnowledgeFiles` refines.
