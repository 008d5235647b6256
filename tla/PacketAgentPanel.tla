-------------------------- MODULE PacketAgentPanel --------------------------
(***************************************************************************)
(* The PacketAgent panel of a project in one tab, the requests it makes,   *)
(* and the deployment on which they start runs.  Every operation ends by   *)
(* reading the lists again; operations of different kinds overlap, and     *)
(* nothing orders the answers.  Another tab may change connections too.    *)
(* The list of runs, read beside that of the connections, is left out, and *)
(* so are the notifications that fill it.                                  *)
(***************************************************************************)
EXTENDS PacketAgent, FiniteSets

CONSTANTS Calls,       \* operations of the panel
          MaxRevision, \* revisions of the deployment
          MaxElsewhere \* changes by another tab

VARIABLES panel,     \* the state of the component
          calls,     \* its operations, each with its request
          agent,     \* the deployment's revision, and the runs started on it
          elsewhere

panelVars == <<conns, cards, events, hooks, panel, calls, agent, elsewhere>>

store == <<conns, cards, events, hooks>>

-----------------------------------------------------------------------------
Token == [conn : Conns \cup {"none"}, token : 0..MaxRotations]

NoToken == [conn |-> "none", token |-> 0]

\* got: the connections that were read for it; conn also names the one a creation made.
Call == [op : {"none", "load", "retry", "create", "rotate", "revoke", "start"},
         step : {"unused", "sent", "read", "asked", "ok", "failed", "loading", "listed", "over"},
         conn : Conns \cup {"none"}, ws : Workspaces \cup {"none"}, token : 0..MaxRotations,
         revision : 0..MaxRevision, got : SUBSET Conns]

NoCall == [op |-> "none", step |-> "unused", conn |-> "none", ws |-> "none", token |-> 0,
           revision |-> 0, got |-> {}]

\* created: the token on display.  History: stale, two operations were under way at once, or
\* a retry failed; lost, a rotation of the connection on display failed.
Panel == [shown : SUBSET Conns, created : Token, startWith : Conns \cup {"none"},
          busy : Conns \cup {"none"}, creating : BOOLEAN, starting : BOOLEAN,
          error : BOOLEAN, stale : BOOLEAN, lost : BOOLEAN]

PanelTypeOK ==
  /\ TypeOK
  /\ panel \in Panel
  /\ calls \in [Calls -> Call]
  /\ agent \in [revision : 1..MaxRevision, runs : SUBSET (Calls \X (1..MaxRevision))]
  /\ elsewhere \in 0..MaxElsewhere

\* The component is mounted: its effect has asked for the lists.
PanelInit ==
  /\ Init
  /\ panel = [shown |-> {}, created |-> NoToken, startWith |-> "none", busy |-> "none",
              creating |-> FALSE, starting |-> FALSE, error |-> FALSE, stale |-> FALSE, lost |-> FALSE]
  /\ \E k \in Calls :
       calls = [j \in Calls |-> IF j = k THEN [NoCall EXCEPT !.op = "load", !.step = "loading"] ELSE NoCall]
  /\ agent = [revision |-> 1, runs |-> {}]
  /\ elsewhere = 0

-----------------------------------------------------------------------------
(* The handlers of the panel.  Each clears the error and sends a request.  *)

UnderWay == {k \in Calls : calls[k].step \notin {"unused", "over"}}

\* A handler begins: the panel becomes p and the request of call k leaves.
Send(k, p, op, c, ws) ==
  /\ calls[k].step = "unused"
  /\ panel' = [p EXCEPT !.error = FALSE, !.stale = @ \/ UnderWay # {}]
  /\ calls' = [calls EXCEPT ![k] = [NoCall EXCEPT !.op = op, !.step = "sent", !.conn = c, !.ws = ws]]
  /\ UNCHANGED <<store, agent, elsewhere>>

CreateConnection(k) ==
  /\ ~panel.creating
  /\ \E ws \in Workspaces : Send(k, [panel EXCEPT !.creating = TRUE], "create", "none", ws)

\* The buttons of the connection that was last made busy are disabled, no other's.
RotateToken(k, c) ==
  /\ c \in panel.shown /\ panel.busy # c
  /\ Send(k, [panel EXCEPT !.busy = c], "rotate", c, "none")

RevokeConnection(k, c) ==
  /\ c \in panel.shown /\ panel.busy # c
  /\ Send(k, [panel EXCEPT !.busy = c], "revoke", c, "none")

\* The connection chosen is kept when the list loses it.
StartRun(k) ==
  /\ ~panel.starting
  /\ panel.shown # {} /\ panel.startWith # "none"
  /\ Send(k, [panel EXCEPT !.starting = TRUE], "start", panel.startWith, "none")

ChooseConnection ==
  /\ \E c \in panel.shown : panel' = [panel EXCEPT !.startWith = c]
  /\ UNCHANGED <<store, calls, agent, elsewhere>>

\* The button of the error: the lists again.
Retry(k) ==
  /\ panel.error
  /\ calls[k].step = "unused"
  /\ panel' = [panel EXCEPT !.error = FALSE, !.stale = @ \/ UnderWay # {}]
  /\ calls' = [calls EXCEPT ![k] = [NoCall EXCEPT !.op = "retry", !.step = "loading"]]
  /\ UNCHANGED <<store, agent, elsewhere>>

\* "Dismiss" of the token on display.
Dismiss ==
  /\ panel' = [panel EXCEPT !.created = NoToken]
  /\ UNCHANGED <<store, calls, agent, elsewhere>>

\* The finally of each handler.
Done(p, op) ==
  [p EXCEPT !.creating = @ /\ op # "create", !.starting = @ /\ op # "start",
            !.busy = IF op \in {"rotate", "revoke"} THEN "none" ELSE @]

\* Mutant of Shown: what a rotation returns is not put on display.
ShownOnCreation(p, call) ==
  IF call.op = "create" THEN [p EXCEPT !.created = [conn |-> call.conn, token |-> call.token], !.lost = FALSE] ELSE p

\* The token of a creation or a rotation is displayed, in place of another.
Shown(p, call) ==
  IF call.op \in {"create", "rotate"}
  THEN [p EXCEPT !.created = [conn |-> call.conn, token |-> call.token], !.lost = FALSE] ELSE p

\* The answer, and the load that the handler awaits.
Succeeded(k) ==
  /\ calls[k].step = "ok"
  /\ panel' = [Shown(panel, calls[k]) EXCEPT !.error = FALSE]
  /\ calls' = [calls EXCEPT ![k].step = "loading"]
  /\ UNCHANGED <<store, agent, elsewhere>>

\* An error, of the request or of the load.  That of a retry is not caught.  The token on
\* display stays there when its rotation fails, even if only the answer is lost.
Failed(k) ==
  /\ calls[k].step \in {"failed", "loading", "listed"}
  /\ panel' = IF calls[k].op = "retry" THEN [panel EXCEPT !.stale = TRUE]
              ELSE [Done(panel, calls[k].op) EXCEPT
                      !.error = TRUE,
                      !.lost = @ \/ (calls[k].op = "rotate" /\ calls[k].step = "failed" /\ calls[k].conn = panel.created.conn)]
  /\ calls' = [calls EXCEPT ![k] = [NoCall EXCEPT !.step = "over"]]
  /\ UNCHANGED <<store, agent, elsewhere>>

\* The lists are back.  If no connection is chosen the newest is; any may be.
Loaded(k) ==
  LET rows == calls[k].got IN
  /\ calls[k].step = "listed"
  /\ \E first \in IF panel.startWith # "none" THEN {panel.startWith}
                  ELSE IF rows = {} THEN {"none"} ELSE rows :
       panel' = Done([panel EXCEPT !.shown = rows, !.startWith = first], calls[k].op)
  /\ calls' = [calls EXCEPT ![k] = [NoCall EXCEPT !.step = "over"]]
  /\ UNCHANGED <<store, agent, elsewhere>>

-----------------------------------------------------------------------------
(* The routes.                                                             *)

\* An answer to call k; one that succeeded may be lost on the way, which is an error too.
Answer(k, call) ==
  calls' = [calls EXCEPT ![k] = [call EXCEPT !.step = "ok"]] \/ calls' = [calls EXCEPT ![k].step = "failed"]

Refuse(k) == calls' = [calls EXCEPT ![k].step = "failed"] /\ UNCHANGED <<store, agent>>

ListConnections(k) ==
  /\ calls[k].step = "loading"
  /\ calls' = [calls EXCEPT ![k].step = "listed", ![k].got = {c \in Conns : Live(c)}]
  /\ UNCHANGED <<store, panel, agent, elsewhere>>

Unused == {c \in Conns : conns[c].state = "unused"}

CreateArrives(k) ==
  /\ calls[k].step = "sent" /\ calls[k].op = "create"
  /\ \/ \E c \in Unused : Create(c, calls[k].ws) /\ Answer(k, [calls[k] EXCEPT !.conn = c])
     \/ (\E d \in Conns : Live(d) /\ conns[d].ws = calls[k].ws) /\ Refuse(k)
  /\ UNCHANGED <<panel, agent, elsewhere>>

RotateArrives(k) ==
  LET c == calls[k].conn IN
  /\ calls[k].step = "sent" /\ calls[k].op = "rotate"
  /\ \/ Rotate(c) /\ Answer(k, [calls[k] EXCEPT !.token = conns'[c].token])
     \/ ~Live(c) /\ Refuse(k)
  /\ UNCHANGED <<panel, agent, elsewhere>>

RevokeArrives(k) ==
  LET c == calls[k].conn IN
  /\ calls[k].step = "sent" /\ calls[k].op = "revoke"
  /\ \/ Revoke(c) /\ Answer(k, calls[k])
     \/ ~Live(c) /\ Refuse(k)
  /\ UNCHANGED <<panel, agent, elsewhere>>

\* POST .../runs reads the connection,
ReadConnection(k) ==
  /\ calls[k].step = "sent" /\ calls[k].op = "start"
  /\ \/ Live(calls[k].conn) /\ calls' = [calls EXCEPT ![k].step = "read"] /\ UNCHANGED <<store, agent>>
     \/ ~Live(calls[k].conn) /\ Refuse(k)
  /\ UNCHANGED <<panel, elsewhere>>

\* then the revision of the deployment (502 if that fails or times out),
LookUpDeployment(k) ==
  /\ calls[k].step = "read"
  /\ \/ calls' = [calls EXCEPT ![k].step = "asked", ![k].revision = agent.revision] /\ UNCHANGED <<store, agent>>
     \/ Refuse(k)
  /\ UNCHANGED <<panel, elsewhere>>

\* Mutant of Activate: the request does not say which revision it expects.
ActivateLatest(k) ==
  /\ calls[k].step = "asked"
  /\ agent' = [agent EXCEPT !.runs = @ \cup {<<k, agent.revision>>}]
  /\ Answer(k, calls[k])
  /\ UNCHANGED <<store, panel, elsewhere>>

\* and activates it if the revision is still that one.
Activate(k) ==
  /\ calls[k].step = "asked"
  /\ \/ /\ calls[k].revision = agent.revision
        /\ agent' = [agent EXCEPT !.runs = @ \cup {<<k, agent.revision>>}]
        /\ Answer(k, calls[k])
        /\ UNCHANGED store
     \/ Refuse(k)
  /\ UNCHANGED <<panel, elsewhere>>

\* Somebody publishes a revision of the deployment.
Publish ==
  /\ agent.revision < MaxRevision
  /\ agent' = [agent EXCEPT !.revision = @ + 1]
  /\ UNCHANGED <<store, panel, calls, elsewhere>>

Elsewhere ==
  /\ elsewhere < MaxElsewhere
  /\ Owner
  /\ elsewhere' = elsewhere + 1
  /\ UNCHANGED <<panel, calls, agent>>

-----------------------------------------------------------------------------
Click(k) ==
  CreateConnection(k) \/ StartRun(k) \/ Retry(k) \/ \E c \in Conns : RotateToken(k, c) \/ RevokeConnection(k, c)

Render(k) == Succeeded(k) \/ Failed(k) \/ Loaded(k)

Route(k) ==
  \/ ListConnections(k) \/ CreateArrives(k) \/ RotateArrives(k) \/ RevokeArrives(k)
  \/ ReadConnection(k) \/ LookUpDeployment(k) \/ Activate(k)

PanelNext ==
  \/ \E k \in Calls : Click(k) \/ Render(k) \/ Route(k)
  \/ ChooseConnection \/ Dismiss \/ Publish \/ Elsewhere

PanelSpec == PanelInit /\ [][PanelNext]_panelVars

PanelSymmetry == HookSymmetry \cup Permutations(Calls)

-----------------------------------------------------------------------------
(* Properties.                                                             *)

Quiet == UnderWay = {} /\ ~panel.stale /\ ~panel.error /\ elsewhere = 0

\* When the operations of the panel came one after the other and it shows no error, its
\* connections are those of the project, and the token on display is the one its connection
\* accepts, if that is not revoked and no rotation of it failed (PacketAgentPanel.tsx:83-161).
PanelIsCurrent ==
  Quiet =>
    /\ panel.shown = {c \in Conns : Live(c)}
    /\ panel.created # NoToken /\ Live(panel.created.conn) /\ ~panel.lost =>
         panel.created.token = conns[panel.created.conn].token

\* A run is started on the revision that was read for it, however late the request arrives
\* (runs/route.ts:83-85), and only an operation that asked for one starts it.
StartsWhatWasReadStep ==
  \A p \in agent'.runs \ agent.runs : calls[p[1]].op = "start" /\ p[2] = calls[p[1]].revision

StartsWhatWasRead == [][StartsWhatWasReadStep]_panelVars
=============================================================================
