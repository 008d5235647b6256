------------------------------ MODULE Workbench ------------------------------
(***************************************************************************)
(* What agents, provider accounts and PacketAgent connections are managed  *)
(* with: components of the server and pages that share no state.  A        *)
(* behaviour is one of the component that part names, under the bounds     *)
(* given here, and the variables of the others are Off.  What a component  *)
(* promises is stated, with the code it is about, in its own module.       *)
(***************************************************************************)
EXTENDS Naturals, TLC

CONSTANTS As, Bs, Cs,  \* ids, of different things in different components
          User, Base, Model, WorkerRun,
          NoId, Off

\* NoId, and the "none" of PacketAgent, stand for something missing.
ASSUME IdsAssumption == NoId \notin As \cup Bs \cup Cs \cup {User}
ASSUME NamesAssumption == "none" \notin Bs \cup Cs

VARIABLES part,
          conns, cards, events, hooks,                               \* PacketAgent
          panel, calls, deployment, elsewhere,                       \* PacketAgentPanel, with those
          agent, draft, bindings, versions, bases, roles, changes,  \* AgentDrafts
          accounts, rows, syncs, locks, edits, drops,                \* Providers
          editor, tasks, runs,                                       \* AgentsPage
          registry, desk, errands                                    \* ProvidersPage

hookVars == <<conns, cards, events, hooks>>
panelVars == <<panel, calls, deployment, elsewhere>>
draftVars == <<agent, draft, bindings, versions, bases, roles, changes>>
providerVars == <<accounts, rows, syncs, locks, edits, drops>>
editorVars == <<editor, tasks, runs>>
deskVars == <<registry, desk, errands>>

workbenchVars == <<part, hookVars, panelVars, draftVars, providerVars, editorVars, deskVars>>

-----------------------------------------------------------------------------
(* The components and their bounds, with the theorems about them.          *)

Notifications ==
  INSTANCE PacketAgentProofs WITH Conns <- As, Hooks <- Bs, Workspaces <- Cs, WorkerRuns <- {WorkerRun},
                                  Keys <- {1, 2}, MaxRotations <- 1,
                                  agent <- deployment, Calls <- {}, MaxRevision <- 1, MaxElsewhere <- 0

Panel ==
  INSTANCE PacketAgentProofs WITH agent <- deployment, Conns <- As, Hooks <- {}, Workspaces <- Bs,
                                  WorkerRuns <- {WorkerRun}, Keys <- {1}, MaxRotations <- 1,
                                  Calls <- {"first", "second", "third"}, MaxRevision <- 2, MaxElsewhere <- 1

\* The drafts of agents, and the editor of AgentsPage.
Drafts ==
  INSTANCE AgentDraftsProofs WITH requests <- changes, Requests <- As, Users <- {User}, Bases <- {Base}, NoOne <- NoId,
                                  Agents <- As, Tasks <- Bs, MaxRuns <- 2, NoAgent <- NoId, NoTask <- NoId

\* Two edits of accounts that have one model between them, and the pages of ProvidersPage;
AccountEdits ==
  INSTANCE ProvidersProofs WITH Accounts <- As, Models <- {Model}, Syncs <- Bs, Edits <- Cs, MaxRows <- 2, MaxDrops <- 1,
                                MaxAccounts <- 2, MaxErrands <- 2, MaxClicks <- 3

\* two syncs of two models, and one edit.
ModelSyncs ==
  INSTANCE ProvidersProofs WITH Accounts <- As, Models <- Cs, Syncs <- Bs, Edits <- {User}, MaxRows <- 3, MaxDrops <- 1,
                                MaxAccounts <- 2, MaxErrands <- 2, MaxClicks <- 3

-----------------------------------------------------------------------------
Parts == {"notifications", "panel", "drafts", "accounts", "syncs", "editor", "desk"}

WorkbenchInit ==
  /\ part \in Parts
  /\ IF part = "panel" THEN Panel!PanelInit
     ELSE /\ panel = Off /\ calls = Off /\ deployment = Off /\ elsewhere = Off
          /\ IF part = "notifications" THEN Notifications!Init
             ELSE conns = Off /\ cards = Off /\ events = Off /\ hooks = Off
  /\ IF part = "drafts" THEN Drafts!Init
     ELSE /\ agent = Off /\ draft = Off /\ bindings = Off /\ versions = Off
          /\ bases = Off /\ roles = Off /\ changes = Off
  /\ IF part = "accounts" THEN AccountEdits!Init
     ELSE IF part = "syncs" THEN ModelSyncs!Init
     ELSE /\ accounts = Off /\ rows = Off /\ syncs = Off
          /\ locks = Off /\ edits = Off /\ drops = Off
  /\ IF part = "editor" THEN Drafts!EditorInit ELSE editor = Off /\ tasks = Off /\ runs = Off
  /\ IF part = "desk" THEN AccountEdits!DeskInit ELSE registry = Off /\ desk = Off /\ errands = Off

\* The variables of the components but those of some parts stay Off.
Only(parts, group) == IF part \in parts THEN TRUE ELSE UNCHANGED group

Rest ==
  /\ UNCHANGED part
  /\ Only({"notifications", "panel"}, hookVars)
  /\ Only({"panel"}, panelVars)
  /\ Only({"drafts"}, draftVars)
  /\ Only({"accounts", "syncs"}, providerVars)
  /\ Only({"editor"}, editorVars)
  /\ Only({"desk"}, deskVars)

WorkbenchNext ==
  \/ part = "notifications" /\ Notifications!Next /\ Rest
  \/ part = "panel" /\ Panel!PanelNext /\ Rest
  \/ part = "drafts" /\ Drafts!Next /\ Rest
  \/ part = "accounts" /\ AccountEdits!Next /\ Rest
  \/ part = "syncs" /\ ModelSyncs!Next /\ Rest
  \/ part = "editor" /\ Drafts!EditorNext /\ Rest
  \/ part = "desk" /\ AccountEdits!DeskNext /\ Rest

WorkbenchSpec == WorkbenchInit /\ [][WorkbenchNext]_workbenchVars

Symmetry == Permutations(As) \cup Permutations(Bs) \cup Permutations(Cs)

-----------------------------------------------------------------------------
(* Properties.  Each has the types of the components it is about.          *)

\* Duplicated and reordered notifications leave one event for each delivery, of a connection
\* that exists and a card of its workspace, and none is answered that is not stored
\* (packet-agent.ts:118-160, 440-491).
DeliveriesAreStored ==
  part = "notifications" =>
    /\ Notifications!TypeOK
    /\ Notifications!RowsOfConnection /\ Notifications!OneEventPerDelivery /\ Notifications!AnsweredIsStored

\* Requests that overlap leave the tables that each of them changes several of consistent: an
\* agent's bindings follow its spec and its versions are whole; a model has one binding in
\* an account, and two accounts are the default only when two edits crossed
\* (draft/route.ts:140-223; publish/route.ts:24-70; provider-sync-deps.ts:110-195;
\* accounts/[accountId]/route.ts:42-66).
TablesAgree ==
  /\ part = "drafts" => Drafts!TypeOK /\ Drafts!BindingsFollowSpec /\ Drafts!VersionsAreWhole
  /\ part = "accounts" => AccountEdits!TypeOK /\ AccountEdits!OneBindingPerModel /\ AccountEdits!DefaultsCrossed
  /\ part = "syncs" => ModelSyncs!TypeOK /\ ModelSyncs!OneBindingPerModel /\ ModelSyncs!DefaultsCrossed

\* Answers that come late or in another order leave the pages showing what they say they show:
\* the editor a draft and a run of its agent, the panel the connections of its project and a
\* token that works, the pages of providers the accounts that there are; and their buttons
\* come back (agents/page.tsx:532-1046, PacketAgentPanel.tsx:83-161,
\* providers-manager.tsx:180-375, models-client.tsx:173-342).
PagesAreCurrent ==
  /\ part = "panel" => Panel!PanelTypeOK /\ Panel!PanelIsCurrent
  /\ part = "editor" => Drafts!EditorTypeOK /\ Drafts!BusyIsWork /\ Drafts!MonitorIsOfAgent
  /\ part = "desk" => AccountEdits!DeskTypeOK /\ AccountEdits!DeskIsCurrent /\ AccountEdits!WaitsForWork /\ AccountEdits!FormsAreAllowed

\* No step undoes what another actor chose: a notification without a checkpoint does not erase
\* one, a sync job switches no binding and a refresh only those its list speaks of, and a
\* run is started on the revision that was read for it (packet-agent.ts:130-134,
\* provider-sync-deps.ts:167-176, models/route.ts:79-102, runs/route.ts:83-85).
ChoicesAreKept ==
  [][/\ part = "notifications" => Notifications!CheckpointKeptStep
     /\ part = "panel" => Panel!StartsWhatWasReadStep
     /\ part = "accounts" => AccountEdits!ChoiceSurvivesStep
     /\ part = "syncs" => ModelSyncs!ChoiceSurvivesStep]_workbenchVars
=============================================================================
