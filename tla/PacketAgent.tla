---------------------------- MODULE PacketAgent ----------------------------
(***************************************************************************)
(* A project's connections to PacketAgent deployments, and the run cards   *)
(* and event threads that the deployments' workers write through them.     *)
(*                                                                         *)
(* A worker notifies at least once, in any order, with whatever token was  *)
(* configured last.  The handler reads the connection, the card and the    *)
(* event log in three statements and writes in a transaction; nothing it   *)
(* has read is locked.  The owner creates, rotates and revokes connections *)
(* meanwhile.                                                              *)
(***************************************************************************)
EXTENDS Naturals, TLC

CONSTANTS Conns,        \* connection ids
          Hooks,        \* notifications on their way
          Workspaces, WorkerRuns, Keys,
          MaxRotations  \* rotations of a token

VARIABLES conns,   \* packet_agent_connections, with what was deleted from it
          cards,   \* packet_agent_runs, one for each connection and worker run
          events,  \* packet_agent_run_events
          hooks    \* the handlers of notifications

vars == <<conns, cards, events, hooks>>

-----------------------------------------------------------------------------
(* A missing checkpoint is 0.  A token is a connection's rotation count.   *)

NoCard == [ws |-> "none", checkpoint |-> 0]

Card == {NoCard} \cup [ws : Workspaces, checkpoint : {0, 1}]

Messages == [run : WorkerRuns, ws : Workspaces, key : Keys, idem : Keys,
             append : BOOLEAN, checkpoint : {0, 1}]

NoMessage == [run |-> "none", ws |-> "none", key |-> "none", idem |-> "none",
              append |-> FALSE, checkpoint |-> 0]

Connection == [state : {"unused", "live", "deleted"}, ws : Workspaces \cup {"none"}, token : 0..MaxRotations]

\* late: what another notification has written since this one read it (history).
Hook == [pc : {"unused", "read", "found", "planned", "stored", "duplicate", "refused"},
         conn : Conns \cup {"none"}, msg : {NoMessage} \cup Messages \cup [run : WorkerRuns, ws : {"none"}, key : Keys, idem : Keys,
                                            append : BOOLEAN, checkpoint : {0}],
         seen : Card, late : SUBSET {"card", "log"}]

NoHook == [pc |-> "unused", conn |-> "none", msg |-> NoMessage, seen |-> NoCard, late |-> {}]

\* A notification that is answered with an error leaves nothing.
Refused == [NoHook EXCEPT !.pc = "refused"]

\* One that is answered with 200 leaves what it was for.
Answered(pc, c, m) ==
  [NoHook EXCEPT !.pc = pc, !.conn = c, !.msg = [m EXCEPT !.ws = "none", !.checkpoint = 0]]

Event == [conn : Conns, run : WorkerRuns, key : Keys, idem : Keys, late : BOOLEAN]

TypeOK ==
  /\ conns \in [Conns -> Connection]
  /\ cards \in [Conns \X WorkerRuns -> Card]
  /\ events \subseteq Event
  /\ hooks \in [Hooks -> Hook]

Init ==
  /\ conns = [c \in Conns |-> [state |-> "unused", ws |-> "none", token |-> 0]]
  /\ cards = [p \in Conns \X WorkerRuns |-> NoCard]
  /\ events = {}
  /\ hooks = [h \in Hooks |-> NoHook]

-----------------------------------------------------------------------------
(* The owner's requests, one statement each.                               *)

Live(c) == conns[c].state = "live"

\* One connection for a workspace of the project; 409 otherwise.
Create(c, ws) ==
  /\ conns[c].state = "unused"
  /\ \A d \in Conns : Live(d) => conns[d].ws # ws
  /\ conns' = [conns EXCEPT ![c] = [state |-> "live", ws |-> ws, token |-> 0]]
  /\ UNCHANGED <<cards, events, hooks>>

\* The old token is void from here on.
Rotate(c) ==
  /\ Live(c)
  /\ conns[c].token < MaxRotations
  /\ conns' = [conns EXCEPT ![c].token = @ + 1]
  /\ UNCHANGED <<cards, events, hooks>>

\* Mutant of Revoke: the events have no foreign key.
RevokeKeepingEvents(c) ==
  /\ Live(c)
  /\ conns' = [conns EXCEPT ![c].state = "deleted"]
  /\ cards' = [p \in DOMAIN cards |-> IF p[1] = c THEN NoCard ELSE cards[p]]
  /\ UNCHANGED <<events, hooks>>

\* The cards and the events go with the connection.
Revoke(c) ==
  /\ Live(c)
  /\ conns' = [conns EXCEPT ![c].state = "deleted"]
  /\ cards' = [p \in DOMAIN cards |-> IF p[1] = c THEN NoCard ELSE cards[p]]
  /\ events' = {e \in events : e.conn # c}
  /\ UNCHANGED hooks

-----------------------------------------------------------------------------
(* handleWorkerNotification.                                               *)

\* Arrival and findConnectionById: a token that is not the stored one is turned away,
\* and so is a request over the limit and a body that does not parse.
Authenticate(h, c, token, m) ==
  /\ hooks[h].pc = "unused"
  /\ token <= conns[c].token
  /\ hooks' = [hooks EXCEPT
       ![h] = IF Live(c) /\ token = conns[c].token
              THEN [@ EXCEPT !.pc = "read", !.conn = c, !.msg = m]
              ELSE Refused]
  /\ UNCHANGED <<conns, cards, events>>

TurnAway(h) ==
  /\ hooks[h].pc = "read"
  /\ hooks' = [hooks EXCEPT ![h] = Refused]
  /\ UNCHANGED <<conns, cards, events>>

FindRun(h) ==
  /\ hooks[h].pc = "read"
  /\ hooks' = [hooks EXCEPT ![h].pc = "found",
                            ![h].seen = cards[<<hooks[h].conn, hooks[h].msg.run>>]]
  /\ UNCHANGED <<conns, cards, events>>

\* Mutant of EventExists: only the message key is looked up.
KeyExists(c, m) == \E e \in events : e.conn = c /\ e.key = m.key

EventExists(c, m) == \E e \in events : e.conn = c /\ (e.key = m.key \/ e.idem = m.idem)

\* Mutant of Allowed: the message may name any workspace.
AllowedAnywhere(c, m) == c \in Conns

\* Conditions of planIngest; the workspace stands for the deployment too.
Allowed(c, m) == m.ws = conns[c].ws

\* The workspace is the one of the row that was read; it never changes.
PlanIngest(h) ==
  LET m == hooks[h].msg
      c == hooks[h].conn
  IN  /\ hooks[h].pc = "found"
      /\ hooks' = [hooks EXCEPT ![h] =
           IF ~Allowed(c, m) THEN Refused
           ELSE IF m.append /\ EventExists(c, m) THEN Answered("duplicate", c, m)
           ELSE [@ EXCEPT !.pc = "planned"]]
      /\ UNCHANGED <<conns, cards, events>>

\* Mutant of CardFromMessage: a missing checkpoint is written as it is.
CardOfMessageOnly(seen, m) == [ws |-> m.ws, checkpoint |-> m.checkpoint]

\* The newest message's fields; a missing checkpoint is the one that was read.
CardFromMessage(seen, m) ==
  [ws |-> m.ws, checkpoint |-> IF m.checkpoint # 0 THEN m.checkpoint ELSE seen.checkpoint]

\* A write of the card and the log of connection c, behind another notification's reads.
Overtaken(hook, c, run) ==
  IF hook.conn # c THEN hook
  ELSE [hook EXCEPT !.late = @ \cup (IF hook.pc \in {"found", "planned"} /\ hook.msg.run = run THEN {"card"} ELSE {})
                                \cup (IF hook.pc = "planned" THEN {"log"} ELSE {})]

\* One transaction.  The foreign key refuses a connection that was revoked meanwhile; an
\* event whose message key is in the log is left out.
ApplyUpsert(h) ==
  LET c == hooks[h].conn
      m == hooks[h].msg
      event == [conn |-> c, run |-> m.run, key |-> m.key, idem |-> m.idem, late |-> "log" \in hooks[h].late]
      conflict == \E e \in events : e.conn = c /\ e.key = m.key
  IN  /\ hooks[h].pc = "planned"
      /\ \/ /\ ~Live(c)
            /\ hooks' = [hooks EXCEPT ![h] = Refused]
            /\ UNCHANGED <<cards, events>>
         \/ /\ Live(c)
            /\ cards' = [cards EXCEPT ![<<c, m.run>>] = CardFromMessage(hooks[h].seen, m)]
            /\ events' = IF m.append /\ ~conflict THEN events \cup {event} ELSE events
            /\ hooks' = [g \in Hooks |->
                           IF g = h THEN Answered("stored", c, m)
                           ELSE Overtaken(hooks[g], c, m.run)]
      /\ UNCHANGED conns

\* The process stops: what it had not written is gone, and the worker will try again.
Crash(h) ==
  /\ hooks[h].pc \in {"found", "planned"}
  /\ hooks' = [hooks EXCEPT ![h] = Refused]
  /\ UNCHANGED <<conns, cards, events>>

-----------------------------------------------------------------------------
Owner ==
  \E c \in Conns : Rotate(c) \/ Revoke(c) \/ \E ws \in Workspaces : Create(c, ws)

Notify ==
  \E h \in Hooks :
    \/ \E c \in Conns, token \in 0..MaxRotations, m \in Messages : Authenticate(h, c, token, m)
    \/ TurnAway(h) \/ FindRun(h) \/ PlanIngest(h) \/ ApplyUpsert(h) \/ Crash(h)

Next == Owner \/ Notify

Spec == Init /\ [][Next]_vars

HookSymmetry ==
  Permutations(Conns) \cup Permutations(Hooks) \cup Permutations(Workspaces) \cup Permutations(Keys)

-----------------------------------------------------------------------------
(* Properties.                                                             *)

\* A card or an event is of a connection that exists, and the card is of its workspace: no
\* notification in flight writes behind a revocation (worker-notifications/route.ts:74-120).
RowsOfConnection ==
  /\ \A p \in DOMAIN cards : cards[p] # NoCard => Live(p[1]) /\ cards[p].ws = conns[p[1]].ws
  /\ \A e \in events : Live(e.conn) /\ cards[<<e.conn, e.run>>] # NoCard

\* Two events of a connection have different message keys, and different idempotency keys
\* unless one was written between the other's look at the log and its write
\* (packet-agent.ts:465, route.ts:64-72, 111-117).
OneEventPerDelivery ==
  \A e, f \in events : e # f /\ e.conn = f.conn =>
    e.key # f.key /\ (e.idem # f.idem \/ e.late \/ f.late)

\* A notification that was answered with 200 is in the store, the event of an appended one
\* under its own key or its idempotency key (packet-agent.ts:470-491).
AnsweredIsStored ==
  \A h \in Hooks : hooks[h].pc \in {"stored", "duplicate"} /\ Live(hooks[h].conn) =>
    /\ hooks[h].pc = "stored" => cards[<<hooks[h].conn, hooks[h].msg.run>>] # NoCard
    /\ hooks[h].msg.append => EventExists(hooks[h].conn, hooks[h].msg)

\* A notification without a checkpoint does not erase the one on the card, unless that came
\* after it read the card (packet-agent.ts:130-134).
CheckpointKeptStep ==
  \A p \in DOMAIN cards :
    cards[p].checkpoint # 0 /\ cards'[p].checkpoint = 0 =>
      \/ ~Live(p[1])'
      \/ \E h \in Hooks : hooks[h].pc = "planned" /\ hooks'[h].pc = "stored" /\ "card" \in hooks[h].late

CheckpointKept == [][CheckpointKeptStep]_vars
=============================================================================
