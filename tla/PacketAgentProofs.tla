------------------------- MODULE PacketAgentProofs -------------------------
(***************************************************************************)
(* Theorems about PacketAgent, for any number of connections,              *)
(* notifications, worker runs and keys, and about the panel of             *)
(* PacketAgentPanel, for any number of its operations.                     *)
(*                                                                         *)
(* The handler writes what it decided from earlier reads.  HookFits says   *)
(* what of them still holds when it writes: the workspace of a connection  *)
(* never changes, and no event of the message was in the log unless        *)
(* another notification of the connection has written since.               *)
(***************************************************************************)
EXTENDS PacketAgentPanel, TLAPS

HookFits(h) ==
  /\ hooks[h].pc \in {"read", "found", "planned", "stored", "duplicate"} =>
       hooks[h].conn \in Conns /\ conns[hooks[h].conn].state # "unused"
  /\ hooks[h].pc \in {"read", "found", "planned"} => hooks[h].msg \in Messages
  /\ hooks[h].pc = "planned" =>
       /\ hooks[h].msg.ws = conns[hooks[h].conn].ws
       /\ hooks[h].msg.append /\ "log" \notin hooks[h].late => ~EventExists(hooks[h].conn, hooks[h].msg)
  /\ hooks[h].pc \in {"stored", "duplicate"} => hooks[h].msg.run \in WorkerRuns
  /\ hooks[h].pc \in {"stored", "duplicate"} /\ Live(hooks[h].conn) =>
       /\ hooks[h].pc = "stored" => cards[<<hooks[h].conn, hooks[h].msg.run>>] # NoCard
       /\ hooks[h].msg.append => EventExists(hooks[h].conn, hooks[h].msg)

\* What the constants must be for that.
ConstantsFit == MaxRotations \in Nat /\ "none" \notin Workspaces

HooksFit == \A h \in Hooks : HookFits(h)

\* A live connection has a workspace.
LiveInWorkspace == \A c \in Conns : Live(c) => conns[c].ws \in Workspaces

IInv == TypeOK /\ LiveInWorkspace /\ HooksFit /\ RowsOfConnection /\ OneEventPerDelivery

-----------------------------------------------------------------------------
(* Messages, cards and records.                                            *)

LEMMA MessageTyped ==
  ASSUME NEW m \in Messages
  PROVE  /\ m.run \in WorkerRuns /\ m.ws \in Workspaces /\ m.key \in Keys /\ m.idem \in Keys
         /\ m.append \in BOOLEAN /\ m.checkpoint \in {0, 1}
BY DEF Messages

LEMMA AnsweredTyped ==
  ASSUME NEW pc \in {"stored", "duplicate"}, NEW c \in Conns, NEW m \in Messages
  PROVE  /\ Answered(pc, c, m) \in Hook
         /\ Answered(pc, c, m).pc = pc /\ Answered(pc, c, m).conn = c
         /\ Answered(pc, c, m).msg.run = m.run /\ Answered(pc, c, m).msg.append = m.append
         /\ Answered(pc, c, m).msg.key = m.key /\ Answered(pc, c, m).msg.idem = m.idem
<1> DEFINE rest == [m EXCEPT !.ws = "none", !.checkpoint = 0]
<1>1. rest \in [run : WorkerRuns, ws : {"none"}, key : Keys, idem : Keys, append : BOOLEAN, checkpoint : {0}]
  BY DEF Messages
<1>2. /\ rest.run = m.run /\ rest.append = m.append /\ rest.key = m.key /\ rest.idem = m.idem
  BY DEF Messages
<1>3. Answered(pc, c, m) = [NoHook EXCEPT !.pc = pc, !.conn = c, !.msg = rest]
  BY DEF Answered
<1> HIDE DEF rest
<1>4. Answered(pc, c, m) = [pc |-> pc, conn |-> c, msg |-> rest, seen |-> NoCard, late |-> {}]
  BY <1>3 DEF NoHook
<1> QED BY <1>1, <1>2, <1>4 DEF Hook, Card

LEMMA RefusedTyped == NoHook \in Hook /\ Refused \in Hook /\ Refused.pc = "refused"
BY DEF NoHook, Refused, Hook, Card

\* A card that a message writes is one.
LEMMA WrittenCard ==
  ASSUME ConstantsFit, NEW m \in Messages, NEW seen \in Card
  PROVE  /\ CardFromMessage(seen, m) \in Card /\ CardFromMessage(seen, m) # NoCard
         /\ CardFromMessage(seen, m).ws = m.ws
<1>1. CardFromMessage(seen, m).ws = m.ws
  BY DEF CardFromMessage
<1>2. seen.checkpoint \in {0, 1}
  BY DEF Card, NoCard
<1>3. CardFromMessage(seen, m) \in [ws : Workspaces, checkpoint : {0, 1}]
  BY <1>2, MessageTyped DEF CardFromMessage
<1>4. CardFromMessage(seen, m) # NoCard
  BY <1>1, MessageTyped DEF NoCard, ConstantsFit
<1> QED BY <1>1, <1>3, <1>4 DEF Card

-----------------------------------------------------------------------------
LEMMA InitIInv == ConstantsFit /\ Init => IInv
<1> SUFFICES ASSUME ConstantsFit, Init PROVE IInv
  OBVIOUS
<1>1. TypeOK
  BY RefusedTyped DEF Init, TypeOK, Connection, Card, ConstantsFit
<1>2. LiveInWorkspace
  BY DEF Init, LiveInWorkspace, Live
<1>3. HooksFit
  BY DEF Init, HooksFit, HookFits, NoHook
<1>4. RowsOfConnection /\ OneEventPerDelivery
  BY DEF Init, RowsOfConnection, OneEventPerDelivery
<1> QED BY <1>1, <1>2, <1>3, <1>4 DEF IInv

\* A handler's step that writes no row.
LEMMA HandlerStep ==
  ASSUME IInv, NEW h \in Hooks, NEW x \in Hook, hooks' = [hooks EXCEPT ![h] = x],
         UNCHANGED <<conns, cards, events>>, HookFits(h)'
  PROVE  IInv'
<1>1. TypeOK'
  BY DEF IInv, TypeOK
<1>2. \A g \in Hooks \ {h} : HookFits(g)'
  <2> SUFFICES ASSUME NEW g \in Hooks \ {h} PROVE HookFits(g)'
    OBVIOUS
  <2>1. hooks'[g] = hooks[g]
    BY DEF IInv, TypeOK
  <2>2. HookFits(g)
    BY DEF IInv, HooksFit
  <2> QED BY <2>1, <2>2 DEF HookFits, EventExists, Live
<1>3. HooksFit'
  BY <1>2 DEF HooksFit
<1>4. LiveInWorkspace' /\ RowsOfConnection' /\ OneEventPerDelivery'
  BY DEF IInv, LiveInWorkspace, RowsOfConnection, OneEventPerDelivery, Live
<1> QED BY <1>1, <1>3, <1>4 DEF IInv

LEMMA RefusedStep ==
  ASSUME IInv, NEW h \in Hooks, hooks' = [hooks EXCEPT ![h] = Refused], UNCHANGED <<conns, cards, events>>
  PROVE  IInv'
<1>1. hooks'[h] = Refused
  BY DEF IInv, TypeOK
<1>2. HookFits(h)'
  BY <1>1, RefusedTyped DEF HookFits
<1> QED BY <1>2, RefusedTyped, HandlerStep

LEMMA AuthenticateStep ==
  ASSUME IInv, NEW h \in Hooks, NEW c \in Conns, NEW token, NEW m \in Messages, Authenticate(h, c, token, m)
  PROVE  IInv'
<1>1. UNCHANGED <<conns, cards, events>> /\ hooks[h] \in Hook
  BY DEF Authenticate, IInv, TypeOK
<1> DEFINE x == [hooks[h] EXCEPT !.pc = "read", !.conn = c, !.msg = m]
<1>2. CASE Live(c) /\ token = conns[c].token
  <2>1. hooks' = [hooks EXCEPT ![h] = x]
    BY <1>2 DEF Authenticate
  <2>2. x \in Hook /\ x.pc = "read" /\ x.conn = c /\ x.msg = m
    BY <1>1 DEF Hook
  <2>3. hooks'[h] = x
    BY <2>1 DEF IInv, TypeOK
  <2>4. conns'[c].state # "unused"
    BY <1>1, <1>2 DEF Live
  <2>5. HookFits(h)'
    BY <2>2, <2>3, <2>4 DEF HookFits
  <2> QED BY <1>1, <2>1, <2>2, <2>5, HandlerStep
<1>3. CASE ~(Live(c) /\ token = conns[c].token)
  BY <1>1, <1>3, RefusedStep DEF Authenticate
<1> QED BY <1>2, <1>3

LEMMA FindRunStep ==
  ASSUME IInv, NEW h \in Hooks, FindRun(h)
  PROVE  IInv'
<1>1. UNCHANGED <<conns, cards, events>> /\ hooks[h] \in Hook /\ hooks[h].pc = "read" /\ HookFits(h)
  BY DEF FindRun, IInv, TypeOK, HooksFit
<1> DEFINE x == [hooks[h] EXCEPT !.pc = "found", !.seen = cards[<<hooks[h].conn, hooks[h].msg.run>>]]
<1>2. hooks' = [hooks EXCEPT ![h] = x]
  BY DEF FindRun
<1>3. cards[<<hooks[h].conn, hooks[h].msg.run>>] \in Card
  BY <1>1, MessageTyped DEF HookFits, IInv, TypeOK
<1>4. x \in Hook /\ x.pc = "found" /\ x.conn = hooks[h].conn /\ x.msg = hooks[h].msg
  BY <1>1, <1>3 DEF Hook
<1>5. hooks'[h] = x
  BY <1>2 DEF IInv, TypeOK
<1>6. HookFits(h)'
  BY <1>1, <1>4, <1>5 DEF HookFits
<1> QED BY <1>1, <1>2, <1>4, <1>6, HandlerStep

LEMMA PlanIngestStep ==
  ASSUME IInv, NEW h \in Hooks, PlanIngest(h)
  PROVE  IInv'
<1>1. UNCHANGED <<conns, cards, events>> /\ hooks[h] \in Hook /\ hooks[h].pc = "found" /\ HookFits(h)
  BY DEF PlanIngest, IInv, TypeOK, HooksFit
<1>2. PICK c \in Conns : hooks[h].conn = c
  BY <1>1 DEF HookFits
<1>3. PICK m \in Messages : hooks[h].msg = m
  BY <1>1 DEF HookFits
<1>4. conns[c].state # "unused"
  BY <1>1, <1>2 DEF HookFits
<1>5. hooks \in [Hooks -> Hook]
  BY DEF IInv, TypeOK
<1>6. CASE ~Allowed(c, m)
  BY <1>1, <1>2, <1>3, <1>6, RefusedStep DEF PlanIngest
<1>7. CASE Allowed(c, m) /\ m.append /\ EventExists(c, m)
  <2>1. hooks' = [hooks EXCEPT ![h] = Answered("duplicate", c, m)]
    BY <1>2, <1>3, <1>7 DEF PlanIngest
  <2>2. hooks'[h] = Answered("duplicate", c, m)
    BY <1>5, <2>1
  <2>3. EventExists(c, m)'
    BY <1>1, <1>7 DEF EventExists
  <2>4. HookFits(h)'
    BY <1>1, <1>4, <2>2, <2>3, AnsweredTyped, MessageTyped DEF HookFits, EventExists
  <2> QED BY <1>1, <2>1, <2>4, AnsweredTyped, HandlerStep
<1>8. CASE Allowed(c, m) /\ ~(m.append /\ EventExists(c, m))
  <2> DEFINE x == [hooks[h] EXCEPT !.pc = "planned"]
  <2>1. hooks' = [hooks EXCEPT ![h] = x]
    BY <1>2, <1>3, <1>8 DEF PlanIngest
  <2>2. x \in Hook /\ x.pc = "planned" /\ x.conn = c /\ x.msg = m /\ x.late = hooks[h].late
    BY <1>1, <1>2, <1>3 DEF Hook
  <2>3. hooks'[h] = x
    BY <1>5, <2>1
  <2>4. m.append => ~EventExists(c, m)'
    BY <1>1, <1>8 DEF EventExists
  <2>5. HookFits(h)'
    BY <1>1, <1>4, <1>8, <2>2, <2>3, <2>4 DEF HookFits, Allowed, EventExists
  <2> QED BY <1>1, <2>1, <2>2, <2>5, HandlerStep
<1> QED BY <1>6, <1>7, <1>8

\* A store: its card, its event if there is one, and the other handlers overtaken.
LEMMA ApplyUpsertStep ==
  ASSUME ConstantsFit, IInv, NEW h \in Hooks, ApplyUpsert(h)
  PROVE  IInv'
<1>1. UNCHANGED conns /\ hooks[h] \in Hook /\ hooks[h].pc = "planned" /\ HookFits(h)
  BY DEF ApplyUpsert, IInv, TypeOK, HooksFit
<1>2. PICK c \in Conns : hooks[h].conn = c
  BY <1>1 DEF HookFits
<1>3. PICK m \in Messages : hooks[h].msg = m
  BY <1>1 DEF HookFits
<1>4. conns[c].state # "unused" /\ m.ws = conns[c].ws /\ m.run \in WorkerRuns
  BY <1>1, <1>2, <1>3, MessageTyped DEF HookFits
<1>5. /\ hooks \in [Hooks -> Hook] /\ cards \in [Conns \X WorkerRuns -> Card]
      /\ events \subseteq Event /\ conns \in [Conns -> Connection]
  BY DEF IInv, TypeOK
<1>6. CASE ~Live(c)
  BY <1>1, <1>2, <1>6, RefusedStep DEF ApplyUpsert
<1>7. CASE Live(c)
  <2> DEFINE card == CardFromMessage(hooks[h].seen, m)
             event == [conn |-> c, run |-> m.run, key |-> m.key, idem |-> m.idem, late |-> "log" \in hooks[h].late]
             conflict == \E e \in events : e.conn = c /\ e.key = m.key
  <2>1. cards' = [cards EXCEPT ![<<c, m.run>>] = card]
    BY <1>2, <1>3, <1>7 DEF ApplyUpsert
  <2>2. events' = IF m.append /\ ~conflict THEN events \cup {event} ELSE events
    BY <1>2, <1>3, <1>7 DEF ApplyUpsert
  <2>3. hooks' = [g \in Hooks |-> IF g = h THEN Answered("stored", c, m) ELSE Overtaken(hooks[g], c, m.run)]
    BY <1>2, <1>3, <1>7 DEF ApplyUpsert
  <2>4. hooks[h].seen \in Card /\ hooks[h].late \subseteq {"card", "log"}
    BY <1>1 DEF Hook
  <2>5. card \in Card /\ card # NoCard /\ card.ws = m.ws
    BY <2>4, WrittenCard
  <2>6. event \in Event
    BY <1>4, MessageTyped DEF Event
  <2>7. /\ cards' \in [Conns \X WorkerRuns -> Card] /\ cards'[<<c, m.run>>] = card
        /\ \A p \in (Conns \X WorkerRuns) \ {<<c, m.run>>} : cards'[p] = cards[p]
    <3> HIDE DEF card
    <3> QED BY <1>4, <1>5, <2>1, <2>5
  <2>8. events \subseteq events' /\ \A e \in events' : e \in events \/ e = event
    BY <2>2
  <2>9. event.conn = c /\ event.run = m.run /\ event.key = m.key /\ event.idem = m.idem
    OBVIOUS
  <2>10. m.append => EventExists(c, m)'
    <3>1. CASE conflict
      BY <3>1, <2>8 DEF EventExists
    <3>2. CASE ~conflict
      <4>1. m.append => event \in events'
        BY <3>2, <2>2
      <4> HIDE DEF event
      <4> QED BY <2>9, <4>1 DEF EventExists
    <3> QED BY <3>1, <3>2
  <2>11. \A g \in Hooks \ {h} :
           /\ hooks'[g] \in Hook /\ hooks'[g].pc = hooks[g].pc /\ hooks'[g].conn = hooks[g].conn
           /\ hooks'[g].msg = hooks[g].msg /\ hooks[g].late \subseteq hooks'[g].late
           /\ hooks[g].pc = "planned" /\ hooks[g].conn = c => "log" \in hooks'[g].late
    <3> SUFFICES ASSUME NEW g \in Hooks \ {h}
                 PROVE  /\ hooks'[g] \in Hook /\ hooks'[g].pc = hooks[g].pc /\ hooks'[g].conn = hooks[g].conn
                        /\ hooks'[g].msg = hooks[g].msg /\ hooks[g].late \subseteq hooks'[g].late
                        /\ hooks[g].pc = "planned" /\ hooks[g].conn = c => "log" \in hooks'[g].late
      OBVIOUS
    <3>1. hooks'[g] = Overtaken(hooks[g], c, m.run)
      BY <2>3
    <3>2. hooks[g] \in Hook
      BY <1>5
    <3> DEFINE more == hooks[g].late
                         \cup (IF hooks[g].pc \in {"found", "planned"} /\ hooks[g].msg.run = m.run THEN {"card"} ELSE {})
                         \cup (IF hooks[g].pc = "planned" THEN {"log"} ELSE {})
    <3>3. CASE hooks[g].conn = c
      <4>1. hooks'[g] = [hooks[g] EXCEPT !.late = more]
        BY <3>1, <3>2, <3>3 DEF Overtaken, Hook
      <4>2. /\ more \in SUBSET {"card", "log"} /\ hooks[g].late \subseteq more
            /\ hooks[g].pc = "planned" => "log" \in more
        BY <3>2 DEF Hook
      <4> HIDE DEF more
      <4> QED BY <3>2, <4>1, <4>2 DEF Hook
    <3>4. CASE hooks[g].conn # c
      BY <3>1, <3>2, <3>4 DEF Overtaken
    <3> QED BY <3>3, <3>4
  <2> HIDE DEF card, event
  <2>12. TypeOK'
    <3>1. hooks' \in [Hooks -> Hook]
      BY <2>3, <2>11, AnsweredTyped
    <3> QED BY <1>1, <1>5, <2>2, <2>6, <2>7, <3>1 DEF TypeOK
  <2>13. HookFits(h)'
    <3>1. hooks'[h] = Answered("stored", c, m)
      BY <2>3
    <3>2. /\ hooks'[h].pc = "stored" /\ hooks'[h].conn = c
          /\ hooks'[h].msg.run = m.run /\ hooks'[h].msg.append = m.append
          /\ hooks'[h].msg.key = m.key /\ hooks'[h].msg.idem = m.idem
      BY <3>1, AnsweredTyped
    <3> QED BY <1>1, <1>4, <2>5, <2>7, <2>10, <3>2 DEF HookFits, EventExists
  <2>14. \A g \in Hooks \ {h} : HookFits(g)'
    <3> SUFFICES ASSUME NEW g \in Hooks \ {h} PROVE HookFits(g)'
      OBVIOUS
    <3>1. HookFits(g)
      BY DEF IInv, HooksFit
    <3>2. /\ hooks'[g].pc = hooks[g].pc /\ hooks'[g].conn = hooks[g].conn
          /\ hooks'[g].msg = hooks[g].msg /\ hooks[g].late \subseteq hooks'[g].late
          /\ hooks[g].pc = "planned" /\ hooks[g].conn = c => "log" \in hooks'[g].late
      BY <2>11
    <3>3. cards[<<hooks[g].conn, hooks[g].msg.run>>] # NoCard /\ hooks[g].pc = "stored" /\ hooks[g].conn \in Conns
            => cards'[<<hooks[g].conn, hooks[g].msg.run>>] # NoCard
      BY <2>1, <2>5, <1>5
    <3>4. hooks[g].pc = "planned" => hooks[g].conn \in Conns
      BY <3>1 DEF HookFits
    <3>5. hooks[g].pc = "planned" /\ hooks[g].msg.append /\ "log" \notin hooks'[g].late
            => ~EventExists(hooks[g].conn, hooks[g].msg)'
      <4>1. CASE hooks[g].conn = c
        BY <3>2, <4>1
      <4>2. CASE hooks[g].conn # c
        <5> SUFFICES ASSUME hooks[g].pc = "planned", hooks[g].msg.append, "log" \notin hooks'[g].late,
                            NEW e \in events', e.conn = hooks[g].conn,
                            e.key = hooks[g].msg.key \/ e.idem = hooks[g].msg.idem
                     PROVE  FALSE
          BY <3>2 DEF EventExists
        <5>1. e \in events
          BY <2>8, <2>9, <4>2
        <5>2. ~EventExists(hooks[g].conn, hooks[g].msg)
          BY <3>1, <3>2 DEF HookFits
        <5> QED BY <5>1, <5>2 DEF EventExists
      <4> QED BY <4>1, <4>2
    <3>6. hooks[g].conn \in Conns /\ EventExists(hooks[g].conn, hooks[g].msg)
            => EventExists(hooks[g].conn, hooks[g].msg)'
      BY <2>8, <3>2 DEF EventExists
    <3> QED BY <1>1, <3>1, <3>2, <3>3, <3>5, <3>6 DEF HookFits, EventExists, Live
  <2>15. RowsOfConnection'
    <3>1. \A p \in Conns \X WorkerRuns : cards'[p] # NoCard => Live(p[1])' /\ cards'[p].ws = conns'[p[1]].ws
      BY <1>1, <1>4, <1>5, <1>7, <2>5, <2>7 DEF IInv, RowsOfConnection, Live
    <3>2. \A e \in events : Live(e.conn)' /\ cards'[<<e.conn, e.run>>] # NoCard
      <4>1. \A e \in events : e.conn \in Conns /\ e.run \in WorkerRuns
        BY <1>5 DEF Event
      <4> QED BY <1>1, <2>5, <2>7, <4>1 DEF IInv, RowsOfConnection, Live
    <3>3. Live(c)' /\ cards'[<<c, m.run>>] # NoCard
      BY <1>1, <1>7, <2>5, <2>7 DEF Live
    <3>4. DOMAIN cards' = Conns \X WorkerRuns
      BY <2>7
    <3>5. \A e \in events' : Live(e.conn)' /\ cards'[<<e.conn, e.run>>] # NoCard
      BY <2>8, <2>9, <3>2, <3>3 DEF Live
    <3> QED BY <3>1, <3>4, <3>5 DEF RowsOfConnection
  <2>16. OneEventPerDelivery'
    <3>1. CASE m.append /\ ~conflict
      <4>1. \A e \in events : e.conn = c => e.key # m.key /\ (e.idem # m.idem \/ "log" \in hooks[h].late)
        BY <1>1, <1>2, <1>3, <3>1 DEF HookFits, EventExists
      <4>2. \A e \in events : e.conn = event.conn => e.key # event.key /\ (e.idem # event.idem \/ event.late)
        BY <4>1 DEF event
      <4> QED BY <2>2, <3>1, <4>2 DEF IInv, OneEventPerDelivery
    <3>2. CASE ~(m.append /\ ~conflict)
      BY <2>2, <3>2 DEF IInv, OneEventPerDelivery
    <3> QED BY <3>1, <3>2
  <2>17. LiveInWorkspace'
    BY <1>1 DEF IInv, LiveInWorkspace, Live
  <2> QED BY <2>12, <2>13, <2>14, <2>15, <2>16, <2>17 DEF IInv, HooksFit
<1> QED BY <1>6, <1>7

-----------------------------------------------------------------------------
(* The owner's steps.                                                      *)

\* Handlers know connections that are, or were, live.
LEMMA CreateStep ==
  ASSUME ConstantsFit, IInv, NEW c \in Conns, NEW ws \in Workspaces, Create(c, ws)
  PROVE  IInv'
<1>1. /\ UNCHANGED <<cards, events, hooks>> /\ conns[c].state = "unused"
      /\ conns' = [conns EXCEPT ![c] = [state |-> "live", ws |-> ws, token |-> 0]]
  BY DEF Create
<1>2. [state |-> "live", ws |-> ws, token |-> 0] \in Connection
  BY DEF Connection, ConstantsFit
<1>3. /\ conns' \in [Conns -> Connection] /\ conns'[c].state = "live" /\ conns'[c].ws = ws
      /\ \A d \in Conns \ {c} : conns'[d] = conns[d]
  BY <1>1, <1>2 DEF IInv, TypeOK
<1>4. TypeOK'
  BY <1>1, <1>3 DEF IInv, TypeOK
<1>5. HooksFit'
  BY <1>1, <1>3 DEF IInv, HooksFit, HookFits, EventExists, Live
<1>6. \A p \in Conns \X WorkerRuns : cards[p] # NoCard => p[1] \in Conns \ {c}
  BY <1>1 DEF IInv, TypeOK, RowsOfConnection, Live
<1>7. \A e \in events : e.conn \in Conns \ {c}
  BY <1>1 DEF IInv, TypeOK, Event, RowsOfConnection, Live
<1>8. RowsOfConnection'
  BY <1>1, <1>3, <1>6, <1>7 DEF IInv, TypeOK, RowsOfConnection, Live
<1>9. LiveInWorkspace' /\ OneEventPerDelivery'
  BY <1>1, <1>3 DEF IInv, LiveInWorkspace, OneEventPerDelivery, Live
<1> QED BY <1>4, <1>5, <1>8, <1>9 DEF IInv

LEMMA RotateStep ==
  ASSUME ConstantsFit, IInv, NEW c \in Conns, Rotate(c)
  PROVE  IInv'
<1>1. /\ UNCHANGED <<cards, events, hooks>> /\ Live(c) /\ conns[c].token < MaxRotations
      /\ conns' = [conns EXCEPT ![c].token = @ + 1] /\ conns \in [Conns -> Connection]
  BY DEF Rotate, IInv, TypeOK
<1> DEFINE x == [conns[c] EXCEPT !.token = @ + 1]
<1>2. x \in Connection /\ x.state = conns[c].state /\ x.ws = conns[c].ws
  BY <1>1 DEF Connection, ConstantsFit
<1>3. conns' = [conns EXCEPT ![c] = x]
  BY <1>1
<1>4. /\ conns' \in [Conns -> Connection]
      /\ \A d \in Conns : conns'[d].state = conns[d].state /\ conns'[d].ws = conns[d].ws
  BY <1>1, <1>2, <1>3
<1>5. TypeOK'
  BY <1>1, <1>4 DEF IInv, TypeOK
<1>6. HooksFit'
  BY <1>1, <1>4 DEF IInv, HooksFit, HookFits, EventExists, Live
<1>7. \A e \in events : e.conn \in Conns
  BY DEF IInv, TypeOK, Event
<1>8. RowsOfConnection' /\ LiveInWorkspace' /\ OneEventPerDelivery'
  BY <1>1, <1>4, <1>7 DEF IInv, TypeOK, RowsOfConnection, LiveInWorkspace, OneEventPerDelivery, Live
<1> QED BY <1>5, <1>6, <1>8 DEF IInv

LEMMA RevokeStep ==
  ASSUME IInv, NEW c \in Conns, Revoke(c)
  PROVE  IInv'
<1>1. /\ UNCHANGED hooks /\ Live(c) /\ conns' = [conns EXCEPT ![c].state = "deleted"]
      /\ cards' = [p \in DOMAIN cards |-> IF p[1] = c THEN NoCard ELSE cards[p]]
      /\ events' = {e \in events : e.conn # c}
  BY DEF Revoke
<1>2. /\ conns \in [Conns -> Connection] /\ cards \in [Conns \X WorkerRuns -> Card] /\ events \subseteq Event
  BY DEF IInv, TypeOK
<1> DEFINE x == [conns[c] EXCEPT !.state = "deleted"]
<1>3. x \in Connection /\ x.state = "deleted" /\ x.ws = conns[c].ws
  BY <1>2 DEF Connection
<1>4. /\ conns' \in [Conns -> Connection] /\ conns'[c].state = "deleted"
      /\ \A d \in Conns : conns'[d].ws = conns[d].ws
      /\ \A d \in Conns \ {c} : conns'[d].state = conns[d].state
  BY <1>1, <1>2, <1>3
<1>5. /\ cards' \in [Conns \X WorkerRuns -> Card]
      /\ \A p \in Conns \X WorkerRuns : cards'[p] = IF p[1] = c THEN NoCard ELSE cards[p]
  BY <1>1, <1>2 DEF Card
<1>6. TypeOK'
  BY <1>1, <1>2, <1>4, <1>5 DEF IInv, TypeOK
<1>7. HooksFit'
  <2> SUFFICES ASSUME NEW h \in Hooks PROVE HookFits(h)'
    BY DEF HooksFit
  <2>1. HookFits(h)
    BY DEF IInv, HooksFit
  <2>2.  ~EventExists(hooks[h].conn, hooks[h].msg) => ~EventExists(hooks[h].conn, hooks[h].msg)'
    BY <1>1 DEF EventExists
  <2>3. hooks[h].conn # c /\ EventExists(hooks[h].conn, hooks[h].msg) => EventExists(hooks[h].conn, hooks[h].msg)'
    BY <1>1 DEF EventExists
  <2>4. hooks[h].conn \in Conns /\ Live(hooks[h].conn)' => hooks[h].conn # c /\ Live(hooks[h].conn)
    BY <1>1, <1>4 DEF Live
  <2>5. hooks[h].conn \in Conns /\ hooks[h].conn # c /\ hooks[h].msg.run \in WorkerRuns =>
          cards'[<<hooks[h].conn, hooks[h].msg.run>>] = cards[<<hooks[h].conn, hooks[h].msg.run>>]
    BY <1>5
  <2> QED BY <1>1, <1>4, <2>1, <2>2, <2>3, <2>4, <2>5 DEF HookFits, EventExists
<1>8. RowsOfConnection'
  <2>1. \A e \in events : e.conn \in Conns /\ e.run \in WorkerRuns
    BY <1>2 DEF Event
  <2> QED BY <1>1, <1>2, <1>4, <1>5, <2>1 DEF IInv, RowsOfConnection, Live
<1>9. LiveInWorkspace' /\ OneEventPerDelivery'
  BY <1>1, <1>4 DEF IInv, LiveInWorkspace, OneEventPerDelivery, Live
<1> QED BY <1>6, <1>7, <1>8, <1>9 DEF IInv

LEMMA IInvNext == ConstantsFit /\ IInv /\ [Next]_vars => IInv'
<1> SUFFICES ASSUME ConstantsFit, IInv, [Next]_vars PROVE IInv'
  OBVIOUS
<1>1. CASE Owner
  BY <1>1, CreateStep, RotateStep, RevokeStep DEF Owner
<1>2. CASE Notify
  <2>1. PICK h \in Hooks :
          \/ \E c \in Conns, token \in 0..MaxRotations, m \in Messages : Authenticate(h, c, token, m)
          \/ TurnAway(h) \/ FindRun(h) \/ PlanIngest(h) \/ ApplyUpsert(h) \/ Crash(h)
    BY <1>2 DEF Notify
  <2>2. CASE \E c \in Conns, token \in 0..MaxRotations, m \in Messages : Authenticate(h, c, token, m)
    BY <2>2, AuthenticateStep
  <2>3. CASE TurnAway(h) \/ Crash(h)
    BY <2>3, RefusedStep DEF TurnAway, Crash
  <2>4. CASE FindRun(h) \/ PlanIngest(h) \/ ApplyUpsert(h)
    BY <2>4, FindRunStep, PlanIngestStep, ApplyUpsertStep
  <2> QED BY <2>1, <2>2, <2>3, <2>4
<1>3. CASE UNCHANGED vars
  BY <1>3 DEF vars, IInv, TypeOK, LiveInWorkspace, HooksFit, HookFits, RowsOfConnection,
              OneEventPerDelivery, EventExists, Live
<1> QED BY <1>1, <1>2, <1>3 DEF Next

-----------------------------------------------------------------------------
(* The theorems.                                                           *)

LEMMA Invariance == ASSUME ConstantsFit PROVE Spec => []IInv
<1>1. Init => IInv
  BY InitIInv
<1>2. IInv /\ [Next]_vars => IInv'
  BY IInvNext
<1> QED BY <1>1, <1>2, PTL DEF Spec

\* Every card and event is of a connection that exists, and of its workspace, however
\* notifications overlap with revocations (worker-notifications/route.ts:74-120).
THEOREM RowsHaveConnection == ASSUME ConstantsFit PROVE Spec => []RowsOfConnection
<1>1. IInv => RowsOfConnection
  BY DEF IInv
<1> QED BY Invariance, <1>1, PTL

\* A delivery that is repeated leaves one event, unless two handlers of one connection
\* overlapped (packet-agent.ts:465, route.ts:64-72, 111-117).
THEOREM DeliveriesLeaveOneEvent == ASSUME ConstantsFit PROVE Spec => []OneEventPerDelivery
<1>1. IInv => OneEventPerDelivery
  BY DEF IInv
<1> QED BY Invariance, <1>1, PTL

LEMMA StoredWhatIsAnswered == IInv => AnsweredIsStored
BY DEF IInv, HooksFit, HookFits, AnsweredIsStored

\* What was answered with 200 is stored until its connection is revoked
\* (packet-agent.ts:470-491).
THEOREM NothingIsAnsweredUnstored == ASSUME ConstantsFit PROVE Spec => []AnsweredIsStored
BY Invariance, StoredWhatIsAnswered, PTL

\* Every state is well typed.
THEOREM TypeCorrect == ASSUME ConstantsFit PROVE Spec => []TypeOK
<1>1. IInv => TypeOK
  BY DEF IInv
<1> QED BY Invariance, <1>1, PTL

-----------------------------------------------------------------------------
(* What a notification leaves of the card.                                 *)

\* The card a handler has read is the one it writes over, unless another wrote it since.
HookSees(h) ==
  hooks[h].pc \in {"found", "planned"} /\ "card" \notin hooks[h].late /\ Live(hooks[h].conn) =>
    cards[<<hooks[h].conn, hooks[h].msg.run>>] = hooks[h].seen

HooksSee == \A h \in Hooks : HookSees(h)

LEMMA InitHooksSee == Init => HooksSee
BY DEF Init, HooksSee, HookSees, NoHook

\* A handler's step that leaves the tables.
LEMMA SeenByHandler ==
  ASSUME IInv, HooksSee, NEW h \in Hooks, NEW x, hooks' = [hooks EXCEPT ![h] = x], UNCHANGED <<conns, cards>>,
         x.pc \in {"found", "planned"} /\ "card" \notin x.late /\ Live(x.conn) => cards[<<x.conn, x.msg.run>>] = x.seen
  PROVE  HooksSee'
<1> SUFFICES ASSUME NEW g \in Hooks PROVE HookSees(g)'
  BY DEF HooksSee
<1>1. hooks'[h] = x /\ (g # h => hooks'[g] = hooks[g])
  BY DEF IInv, TypeOK
<1>2. CASE g = h
  BY <1>1, <1>2 DEF HookSees, Live
<1>3. CASE g # h
  BY <1>1, <1>3 DEF HooksSee, HookSees, Live
<1> QED BY <1>2, <1>3

LEMMA SeenByOwner ==
  ASSUME IInv, HooksSee, Owner
  PROVE  HooksSee'
<1> SUFFICES ASSUME NEW h \in Hooks, hooks[h].pc \in {"found", "planned"}, "card" \notin hooks[h].late,
                    conns'[hooks[h].conn].state = "live"
             PROVE  cards'[<<hooks[h].conn, hooks[h].msg.run>>] = hooks[h].seen
  <2>1. UNCHANGED hooks
    BY DEF Owner, Create, Rotate, Revoke
  <2> QED BY <2>1 DEF HooksSee, HookSees, Live
<1> DEFINE p == <<hooks[h].conn, hooks[h].msg.run>>
<1>1. hooks[h].conn \in Conns /\ conns[hooks[h].conn].state # "unused" /\ hooks[h].msg.run \in WorkerRuns
  BY MessageTyped DEF IInv, HooksFit, HookFits
<1>2. conns \in [Conns -> Connection] /\ cards \in [Conns \X WorkerRuns -> Card]
  BY DEF IInv, TypeOK
<1>3. PICK c \in Conns : Rotate(c) \/ Revoke(c) \/ \E ws \in Workspaces : Create(c, ws)
  BY DEF Owner
<1>4. Live(hooks[h].conn) /\ cards'[p] = cards[p]
  <2>1. CASE Rotate(c)
    <3>1. conns'[hooks[h].conn].state = conns[hooks[h].conn].state /\ UNCHANGED cards
      BY <1>1, <1>2, <2>1 DEF Rotate, Connection
    <3> QED BY <3>1 DEF Live
  <2>2. CASE Revoke(c)
    <3>1. /\ conns' = [conns EXCEPT ![c].state = "deleted"]
          /\ cards' = [q \in DOMAIN cards |-> IF q[1] = c THEN NoCard ELSE cards[q]]
      BY <2>2 DEF Revoke
    <3>2. hooks[h].conn # c
      BY <1>2, <3>1 DEF Live, Connection
    <3> QED BY <1>1, <1>2, <3>1, <3>2 DEF Live
  <2>3. CASE \E ws \in Workspaces : Create(c, ws)
    <3>1. conns[c].state = "unused" /\ UNCHANGED cards /\ \A d \in Conns \ {c} : conns'[d] = conns[d]
      BY <1>2, <2>3 DEF Create
    <3> QED BY <1>1, <3>1 DEF Live
  <2> QED BY <1>3, <2>1, <2>2, <2>3
<1> QED BY <1>4 DEF HooksSee, HookSees

LEMMA SeenByUpsert ==
  ASSUME ConstantsFit, IInv, HooksSee, NEW h \in Hooks, ApplyUpsert(h), Live(hooks[h].conn)
  PROVE  HooksSee'
<1>1. PICK c \in Conns : hooks[h].conn = c
  BY DEF ApplyUpsert, IInv, HooksFit, HookFits
<1>2. PICK m \in Messages : hooks[h].msg = m
  BY DEF ApplyUpsert, IInv, HooksFit, HookFits
<1>3. /\ UNCHANGED conns /\ cards' = [cards EXCEPT ![<<c, m.run>>] = CardFromMessage(hooks[h].seen, m)]
      /\ hooks' = [g \in Hooks |-> IF g = h THEN Answered("stored", c, m) ELSE Overtaken(hooks[g], c, m.run)]
  BY <1>1, <1>2 DEF ApplyUpsert
<1>4. cards \in [Conns \X WorkerRuns -> Card]
  BY DEF IInv, TypeOK
<1> SUFFICES ASSUME NEW g \in Hooks, hooks'[g].pc \in {"found", "planned"}, "card" \notin hooks'[g].late,
                    Live(hooks'[g].conn)
             PROVE  cards'[<<hooks'[g].conn, hooks'[g].msg.run>>] = hooks'[g].seen
  BY <1>3 DEF HooksSee, HookSees, Live
<1>5. g # h
  BY <1>3, AnsweredTyped
<1>6. hooks[g] \in Hook /\ hooks'[g] = Overtaken(hooks[g], c, m.run)
  BY <1>3, <1>5 DEF IInv, TypeOK
<1> DEFINE more == hooks[g].late
                     \cup (IF hooks[g].pc \in {"found", "planned"} /\ hooks[g].msg.run = m.run THEN {"card"} ELSE {})
                     \cup (IF hooks[g].pc = "planned" THEN {"log"} ELSE {})
<1>7. /\ hooks'[g].pc = hooks[g].pc /\ hooks'[g].conn = hooks[g].conn /\ hooks'[g].msg = hooks[g].msg
      /\ hooks'[g].seen = hooks[g].seen
      /\ hooks'[g].late = IF hooks[g].conn = c THEN more ELSE hooks[g].late
  <2>1. CASE hooks[g].conn = c
    <3>1. hooks'[g] = [hooks[g] EXCEPT !.late = more]
      BY <1>6, <2>1 DEF Overtaken, Hook
    <3> HIDE DEF more
    <3> QED BY <1>6, <2>1, <3>1 DEF Hook
  <2>2. CASE hooks[g].conn # c
    BY <1>6, <2>2 DEF Overtaken
  <2> QED BY <2>1, <2>2
<1>8. hooks[g].conn # c \/ hooks[g].msg.run # m.run
  BY <1>7
<1>9. "card" \notin hooks[g].late
  BY <1>7
<1>10. hooks[g].conn \in Conns /\ hooks[g].msg.run \in WorkerRuns /\ m.run \in WorkerRuns
  BY <1>7, MessageTyped DEF IInv, HooksFit, HookFits
<1>11. cards'[<<hooks[g].conn, hooks[g].msg.run>>] = cards[<<hooks[g].conn, hooks[g].msg.run>>]
  BY <1>3, <1>4, <1>8, <1>10
<1> HIDE DEF more
<1> QED BY <1>7, <1>9, <1>11 DEF HooksSee, HookSees

LEMMA SeenNext == ASSUME ConstantsFit, IInv, HooksSee, [Next]_vars PROVE HooksSee'
<1>1. CASE Owner
  BY <1>1, SeenByOwner
<1>2. CASE Notify
  <2>1. PICK h \in Hooks :
          \/ \E c \in Conns, token \in 0..MaxRotations, m \in Messages : Authenticate(h, c, token, m)
          \/ TurnAway(h) \/ FindRun(h) \/ PlanIngest(h) \/ ApplyUpsert(h) \/ Crash(h)
    BY <1>2 DEF Notify
  <2>2. hooks[h] \in Hook
    BY DEF IInv, TypeOK
  <2>3. ASSUME hooks' = [hooks EXCEPT ![h] = Refused], UNCHANGED <<conns, cards>> PROVE HooksSee'
    BY <2>3, RefusedTyped, SeenByHandler
  <2>4. CASE \E c \in Conns, token \in 0..MaxRotations, m \in Messages : Authenticate(h, c, token, m)
    <3>1. PICK c \in Conns, token \in 0..MaxRotations, m \in Messages : Authenticate(h, c, token, m)
      BY <2>4
    <3> DEFINE x == [hooks[h] EXCEPT !.pc = "read", !.conn = c, !.msg = m]
    <3>2. CASE Live(c) /\ token = conns[c].token
      <4>1. hooks' = [hooks EXCEPT ![h] = x] /\ UNCHANGED <<conns, cards>>
        BY <3>1, <3>2 DEF Authenticate
      <4>2. x.pc = "read"
        BY <2>2 DEF Hook
      <4> HIDE DEF x
      <4> QED BY <4>1, <4>2, SeenByHandler
    <3>3. CASE ~(Live(c) /\ token = conns[c].token)
      BY <2>3, <3>1, <3>3 DEF Authenticate
    <3> QED BY <3>2, <3>3
  <2>5. CASE TurnAway(h) \/ Crash(h)
    BY <2>3, <2>5 DEF TurnAway, Crash
  <2>6. CASE FindRun(h)
    <3> DEFINE x == [hooks[h] EXCEPT !.pc = "found", !.seen = cards[<<hooks[h].conn, hooks[h].msg.run>>]]
    <3>1. hooks' = [hooks EXCEPT ![h] = x] /\ UNCHANGED <<conns, cards>>
      BY <2>6 DEF FindRun
    <3>2. x.conn = hooks[h].conn /\ x.msg = hooks[h].msg /\ x.seen = cards[<<hooks[h].conn, hooks[h].msg.run>>]
      BY <2>2 DEF Hook
    <3> HIDE DEF x
    <3> QED BY <3>1, <3>2, SeenByHandler
  <2>7. CASE PlanIngest(h)
    <3>1. PICK c \in Conns : hooks[h].conn = c
      BY <2>7 DEF PlanIngest, IInv, HooksFit, HookFits
    <3>2. PICK m \in Messages : hooks[h].msg = m
      BY <2>7 DEF PlanIngest, IInv, HooksFit, HookFits
    <3>3. hooks[h].pc = "found" /\ UNCHANGED <<conns, cards>>
      BY <2>7 DEF PlanIngest
    <3>4. CASE ~Allowed(c, m)
      BY <2>3, <2>7, <3>1, <3>2, <3>4 DEF PlanIngest
    <3>5. CASE Allowed(c, m) /\ m.append /\ EventExists(c, m)
      <4>1. hooks' = [hooks EXCEPT ![h] = Answered("duplicate", c, m)]
        BY <2>7, <3>1, <3>2, <3>5 DEF PlanIngest
      <4> QED BY <3>3, <4>1, AnsweredTyped, SeenByHandler
    <3>6. CASE Allowed(c, m) /\ ~(m.append /\ EventExists(c, m))
      <4> DEFINE x == [hooks[h] EXCEPT !.pc = "planned"]
      <4>1. hooks' = [hooks EXCEPT ![h] = x]
        BY <2>7, <3>1, <3>2, <3>6 DEF PlanIngest
      <4>2. x.conn = hooks[h].conn /\ x.msg = hooks[h].msg /\ x.seen = hooks[h].seen /\ x.late = hooks[h].late
        BY <2>2 DEF Hook
      <4>3. HookSees(h)
        BY DEF HooksSee
      <4> HIDE DEF x
      <4> QED BY <3>3, <4>1, <4>2, <4>3, SeenByHandler DEF HookSees
    <3> QED BY <3>4, <3>5, <3>6
  <2>8. CASE ApplyUpsert(h)
    <3>1. CASE Live(hooks[h].conn)
      BY <2>8, <3>1, SeenByUpsert
    <3>2. CASE ~Live(hooks[h].conn)
      BY <2>3, <2>8, <3>2 DEF ApplyUpsert
    <3> QED BY <3>1, <3>2
  <2> QED BY <2>1, <2>4, <2>5, <2>6, <2>7, <2>8
<1>3. CASE UNCHANGED vars
  BY <1>3 DEF vars, HooksSee, HookSees, Live
<1> QED BY <1>1, <1>2, <1>3 DEF Next

LEMMA KeepsCheckpoint == ASSUME ConstantsFit, IInv, HooksSee, Next PROVE CheckpointKeptStep
<1> SUFFICES ASSUME NEW p \in DOMAIN cards, cards[p].checkpoint # 0, cards'[p].checkpoint = 0
             PROVE  \/ ~Live(p[1])'
                    \/ \E h \in Hooks : hooks[h].pc = "planned" /\ hooks'[h].pc = "stored" /\ "card" \in hooks[h].late
  BY DEF CheckpointKeptStep
<1>1. cards \in [Conns \X WorkerRuns -> Card] /\ conns \in [Conns -> Connection] /\ p \in Conns \X WorkerRuns
  BY DEF IInv, TypeOK
<1>2. cards'[p] # cards[p]
  OBVIOUS
<1>3. CASE Owner
  <2>1. PICK c \in Conns : Revoke(c)
    BY <1>2, <1>3 DEF Owner, Create, Rotate
  <2>2. /\ conns' = [conns EXCEPT ![c].state = "deleted"]
        /\ cards' = [q \in DOMAIN cards |-> IF q[1] = c THEN NoCard ELSE cards[q]]
    BY <2>1 DEF Revoke
  <2>3. p[1] = c
    BY <1>2, <2>2
  <2> QED BY <1>1, <2>2, <2>3 DEF Live, Connection
<1>4. CASE Notify
  <2>1. PICK h \in Hooks : ApplyUpsert(h)
    BY <1>2, <1>4 DEF Notify, Authenticate, TurnAway, FindRun, PlanIngest, Crash
  <2>2. PICK c \in Conns : hooks[h].conn = c
    BY <2>1 DEF ApplyUpsert, IInv, HooksFit, HookFits
  <2>3. PICK m \in Messages : hooks[h].msg = m
    BY <2>1 DEF ApplyUpsert, IInv, HooksFit, HookFits
  <2>4. /\ Live(c) /\ hooks[h].pc = "planned" /\ hooks[h] \in Hook /\ hooks \in [Hooks -> Hook]
        /\ cards' = [cards EXCEPT ![<<c, m.run>>] = CardFromMessage(hooks[h].seen, m)]
        /\ hooks' = [g \in Hooks |-> IF g = h THEN Answered("stored", c, m) ELSE Overtaken(hooks[g], c, m.run)]
    BY <1>2, <2>1, <2>2, <2>3 DEF ApplyUpsert, IInv, TypeOK
  <2>5. p = <<c, m.run>> /\ cards'[p] = CardFromMessage(hooks[h].seen, m)
    BY <1>1, <1>2, <2>4
  <2>6. hooks[h].seen.checkpoint = 0
    BY <2>5 DEF CardFromMessage
  <2>7. "card" \in hooks[h].late
    BY <2>2, <2>3, <2>4, <2>5, <2>6 DEF HooksSee, HookSees
  <2>8. hooks'[h].pc = "stored"
    BY <2>4, AnsweredTyped
  <2> QED BY <2>4, <2>7, <2>8
<1> QED BY <1>3, <1>4 DEF Next

\* A notification without a checkpoint erases none, unless that came after it read the card
\* (packet-agent.ts:130-134).
THEOREM CheckpointsAreKept == ASSUME ConstantsFit PROVE Spec => CheckpointKept
<1>1. IInv /\ HooksSee /\ [Next]_vars => HooksSee'
  BY SeenNext
<1>2. IInv /\ HooksSee /\ [Next]_vars => [CheckpointKeptStep]_vars
  BY KeepsCheckpoint
<1> QED BY Invariance, InitHooksSee, <1>1, <1>2, PTL DEF Spec, CheckpointKept
-----------------------------------------------------------------------------
(* The panel of a project.  Every step of it is one of the notifications'  *)
(* store.  While its operations come one after the other, a list that is   *)
(* on its way back is that of the store, and the token on display is the   *)
(* connection's unless a rotation of it has not been answered to the end.  *)

PanelConstantsFit == ConstantsFit /\ MaxRevision \in Nat \ {0} /\ MaxElsewhere \in Nat

CallFits(k) ==
  LET call == calls[k] IN
  /\ call.step = "sent" => call.op \in {"create", "rotate", "revoke", "start"}
  /\ call.step = "sent" /\ call.op = "create" => call.ws \in Workspaces /\ call.token = 0
  /\ call.step = "sent" /\ call.op # "create" => call.conn \in Conns
  /\ call.step \in {"read", "asked"} => call.op = "start" /\ call.conn \in Conns

CallsFit == \A k \in Calls : CallFits(k)

\* The operations whose answer brings a token.
Brings(k) == calls[k].step = "ok" /\ calls[k].op \in {"create", "rotate"}

TokensExist ==
  /\ \A k \in Calls : Brings(k) => calls[k].conn \in Conns /\ conns[calls[k].conn].state # "unused"
  /\ panel.created = NoToken \/ (panel.created.conn \in Conns /\ conns[panel.created.conn].state # "unused")

OneByOne == ~panel.stale => \A j, k \in UnderWay : j = k

Settled == ~panel.stale /\ elsewhere = 0

LiveConns == {c \in Conns : Live(c)}

ListsFit ==
  Settled => /\ \A k \in Calls : calls[k].step = "listed" => calls[k].got = LiveConns
             /\ UnderWay = {} /\ ~panel.error => panel.shown = LiveConns

TokenAccepted ==
  panel.created # NoToken /\ Live(panel.created.conn) /\ ~panel.lost =>
    panel.created.token = conns[panel.created.conn].token

Rotated(k) == calls[k].op = "rotate" /\ calls[k].step \in {"ok", "failed"} /\ calls[k].conn = panel.created.conn

TokensFit ==
  Settled => /\ \A k \in Calls : Brings(k) => conns[calls[k].conn].token = calls[k].token
             /\ TokenAccepted \/ \E k \in Calls : Rotated(k)

PanelInv == PanelTypeOK /\ CallsFit /\ TokensExist /\ OneByOne /\ ListsFit /\ TokensFit

-----------------------------------------------------------------------------
(* The panel's store is the notifications'.                                *)

LEMMA StoreMoves == ASSUME CallsFit, PanelNext PROVE [Next]_vars
<1>1. UNCHANGED store => UNCHANGED vars
  BY DEF store, vars
<1>2. CASE Elsewhere
  BY <1>2 DEF Elsewhere, Next
<1>3. CASE ChooseConnection \/ Dismiss \/ Publish
  BY <1>1, <1>3 DEF ChooseConnection, Dismiss, Publish
<1>4. ASSUME NEW k \in Calls, Click(k) \/ Render(k) PROVE UNCHANGED vars
  BY <1>1, <1>4 DEF Click, Render, CreateConnection, RotateToken, RevokeConnection, StartRun, Retry, Send,
                    Succeeded, Failed, Loaded
<1>5. ASSUME NEW k \in Calls, Route(k) PROVE [Next]_vars
  <2>1. CASE ListConnections(k) \/ ReadConnection(k) \/ LookUpDeployment(k) \/ Activate(k)
    BY <1>1, <2>1 DEF ListConnections, ReadConnection, LookUpDeployment, Activate, Refuse
  <2>2. CASE CreateArrives(k)
    <3>1. CASE UNCHANGED store
      BY <1>1, <3>1
    <3>2. CASE \E c \in Unused : Create(c, calls[k].ws) /\ Answer(k, [calls[k] EXCEPT !.conn = c])
      <4>1. PICK c \in Conns : Create(c, calls[k].ws)
        BY <3>2 DEF Unused
      <4>2. calls[k].ws \in Workspaces
        BY <2>2 DEF CallsFit, CallFits, CreateArrives
      <4> QED BY <4>1, <4>2 DEF Next, Owner
    <3> QED BY <2>2, <3>1, <3>2 DEF CreateArrives, Refuse
  <2>3. CASE RotateArrives(k)
    BY <1>1, <2>3 DEF RotateArrives, Refuse, Next, Owner, CallsFit, CallFits
  <2>4. CASE RevokeArrives(k)
    BY <1>1, <2>4 DEF RevokeArrives, Refuse, Next, Owner, CallsFit, CallFits
  <2> QED BY <1>5, <2>1, <2>2, <2>3, <2>4 DEF Route
<1> QED BY <1>2, <1>3, <1>4, <1>5 DEF PanelNext
-----------------------------------------------------------------------------
(* Calls and states of the panel.                                          *)

LEMMA CallOver ==
  ASSUME PanelConstantsFit
  PROVE  NoCall \in Call /\ NoCall.step = "unused" /\ [NoCall EXCEPT !.step = "over"] \in Call
BY DEF NoCall, Call, PanelConstantsFit, ConstantsFit

LEMMA CallLoading ==
  ASSUME NEW call \in Call, NEW op \in {"load", "retry"}
  PROVE  LET y == [call EXCEPT !.op = op, !.step = "loading"] IN y \in Call /\ y.step = "loading"
BY DEF Call

LEMMA CallStepped ==
  ASSUME NEW call \in Call, NEW step \in {"sent", "read", "asked", "ok", "failed", "loading", "listed", "over"}
  PROVE  LET y == [call EXCEPT !.step = step]
         IN  /\ y \in Call /\ y.step = step /\ y.op = call.op /\ y.conn = call.conn /\ y.ws = call.ws
             /\ y.token = call.token /\ y.revision = call.revision /\ y.got = call.got
BY DEF Call

LEMMA CallGot ==
  ASSUME NEW call \in Call, NEW got \in SUBSET Conns
  PROVE  LET y == [call EXCEPT !.step = "listed", !.got = got]
         IN  y \in Call /\ y.step = "listed" /\ y.op = call.op /\ y.got = got
BY DEF Call

LEMMA CallAsked ==
  ASSUME NEW call \in Call, NEW revision \in 0..MaxRevision
  PROVE  LET y == [call EXCEPT !.step = "asked", !.revision = revision]
         IN  y \in Call /\ y.step = "asked" /\ y.op = call.op /\ y.conn = call.conn /\ y.revision = revision
BY DEF Call

LEMMA CallCreated ==
  ASSUME NEW call \in Call, NEW c \in Conns
  PROVE  LET y == [call EXCEPT !.conn = c]
         IN  y \in Call /\ y.conn = c /\ y.op = call.op /\ y.step = call.step /\ y.token = call.token
BY DEF Call

LEMMA CallRotated ==
  ASSUME NEW call \in Call, NEW token \in 0..MaxRotations
  PROVE  LET y == [call EXCEPT !.token = token]
         IN  y \in Call /\ y.token = token /\ y.op = call.op /\ y.step = call.step /\ y.conn = call.conn
BY DEF Call

LEMMA PanelBegun ==
  ASSUME NEW p \in Panel
  PROVE  LET q == [p EXCEPT !.error = FALSE, !.stale = @ \/ UnderWay # {}]
         IN  /\ q \in Panel /\ q.shown = p.shown /\ q.created = p.created /\ q.lost = p.lost
             /\ ~q.stale => ~p.stale /\ UnderWay = {}
BY DEF Panel

LEMMA PanelBusy ==
  ASSUME NEW p \in Panel, NEW c \in Conns
  PROVE  LET q == [p EXCEPT !.busy = c]
         IN  q \in Panel /\ q.shown = p.shown /\ q.created = p.created /\ q.lost = p.lost /\ q.stale = p.stale
BY DEF Panel

LEMMA PanelCreating ==
  ASSUME NEW p \in Panel
  PROVE  LET q == [p EXCEPT !.creating = TRUE]
         IN  q \in Panel /\ q.shown = p.shown /\ q.created = p.created /\ q.lost = p.lost /\ q.stale = p.stale
BY DEF Panel

LEMMA PanelStarting ==
  ASSUME NEW p \in Panel
  PROVE  LET q == [p EXCEPT !.starting = TRUE]
         IN  q \in Panel /\ q.shown = p.shown /\ q.created = p.created /\ q.lost = p.lost /\ q.stale = p.stale
BY DEF Panel

LEMMA PanelDone ==
  ASSUME NEW p \in Panel, NEW op
  PROVE  /\ Done(p, op) \in Panel
         /\ Done(p, op).shown = p.shown /\ Done(p, op).created = p.created /\ Done(p, op).lost = p.lost
         /\ Done(p, op).stale = p.stale /\ Done(p, op).error = p.error
BY DEF Panel, Done

LEMMA PanelStale ==
  ASSUME NEW p \in Panel
  PROVE  [p EXCEPT !.stale = TRUE] \in Panel /\ [p EXCEPT !.stale = TRUE].stale /\ [p EXCEPT !.stale = TRUE].created = p.created
BY DEF Panel

LEMMA PanelShows ==
  ASSUME NEW p \in Panel, NEW call \in Call, call.step = "ok"
  PROVE  LET q == [Shown(p, call) EXCEPT !.error = FALSE]
         IN  /\ q \in Panel /\ q.shown = p.shown /\ q.stale = p.stale
             /\ call.op \in {"create", "rotate"} =>
                  q.created \in Token /\ q.created.conn = call.conn /\ q.created.token = call.token
             /\ call.op \notin {"create", "rotate"} => q.created = p.created /\ q.lost = p.lost
<1> DEFINE t == [conn |-> call.conn, token |-> call.token]
<1>1. t \in Token /\ t.conn = call.conn /\ t.token = call.token
  BY DEF Call, Token
<1>2. CASE call.op \in {"create", "rotate"}
  <2>1. Shown(p, call) = [p EXCEPT !.created = t, !.lost = FALSE]
    BY <1>2 DEF Shown
  <2> HIDE DEF t
  <2> QED BY <1>1, <1>2, <2>1 DEF Panel
<1>3. CASE call.op \notin {"create", "rotate"}
  BY <1>3 DEF Shown, Panel
<1> QED BY <1>2, <1>3

LEMMA PanelChosen ==
  ASSUME NEW p \in Panel, NEW c \in Conns
  PROVE  LET q == [p EXCEPT !.startWith = c]
         IN  /\ q \in Panel /\ q.shown = p.shown /\ q.created = p.created /\ q.lost = p.lost /\ q.stale = p.stale
             /\ q.error = p.error
BY DEF Panel

LEMMA PanelDismissed ==
  ASSUME PanelConstantsFit, NEW p \in Panel
  PROVE  LET q == [p EXCEPT !.created = NoToken]
         IN  /\ q \in Panel /\ q.shown = p.shown /\ q.created = NoToken /\ q.lost = p.lost /\ q.stale = p.stale
             /\ q.error = p.error
<1>1. NoToken \in Token
  BY DEF NoToken, Token, PanelConstantsFit, ConstantsFit
<1> QED BY <1>1 DEF Panel
-----------------------------------------------------------------------------
(* The operations of the panel.  A step that begins one, a step of a route *)
(* that leaves the store, and a step that ends one.                        *)

LEMMA InitPanelInv == PanelConstantsFit /\ PanelInit => PanelInv
<1> SUFFICES ASSUME PanelConstantsFit, PanelInit PROVE PanelInv
  OBVIOUS
<1>1. PICK k \in Calls :
        calls = [j \in Calls |-> IF j = k THEN [NoCall EXCEPT !.op = "load", !.step = "loading"] ELSE NoCall]
  BY DEF PanelInit
<1> DEFINE y == [NoCall EXCEPT !.op = "load", !.step = "loading"]
<1>2. y \in Call /\ y.step = "loading" /\ NoCall \in Call /\ NoCall.step = "unused"
  BY CallLoading, CallOver
<1> HIDE DEF y
<1>3. calls \in [Calls -> Call] /\ \A j \in Calls : calls[j].step = IF j = k THEN "loading" ELSE "unused"
  BY <1>1, <1>2 DEF y
<1>4. NoToken \in Token
  BY DEF NoToken, Token, PanelConstantsFit, ConstantsFit
<1>5. panel \in Panel /\ panel.created = NoToken
  BY <1>4 DEF PanelInit, Panel
<1>6. PanelTypeOK
  <2>1. TypeOK
    BY InitIInv DEF PanelInit, PanelConstantsFit, IInv
  <2>2. agent \in [revision : 1..MaxRevision, runs : SUBSET (Calls \X (1..MaxRevision))] /\ elsewhere \in 0..MaxElsewhere
    BY DEF PanelInit, PanelConstantsFit
  <2> QED BY <1>3, <1>5, <2>1, <2>2 DEF PanelTypeOK
<1>7. UnderWay = {k}
  BY <1>3 DEF UnderWay
<1>8. CallsFit /\ TokensExist /\ OneByOne
  BY <1>3, <1>5, <1>7 DEF CallsFit, CallFits, TokensExist, Brings, OneByOne
<1>9. ListsFit /\ TokensFit
  BY <1>3, <1>5, <1>7 DEF ListsFit, TokensFit, TokenAccepted, Brings
<1> QED BY <1>6, <1>8, <1>9 DEF PanelInv

\* A call that begins.
LEMMA Begins ==
  ASSUME PanelConstantsFit, PanelInv, NEW k \in Calls, calls[k].step = "unused",
         NEW p \in Panel, p.shown = panel.shown, p.created = panel.created, p.lost = panel.lost, p.stale = panel.stale,
         panel' = [p EXCEPT !.error = FALSE, !.stale = @ \/ UnderWay # {}],
         NEW y \in Call, calls' = [calls EXCEPT ![k] = y],
         \/ y.step = "loading"
         \/ /\ y.step = "sent" /\ y.op \in {"create", "rotate", "revoke", "start"}
            /\ IF y.op = "create" THEN y.ws \in Workspaces /\ y.token = 0 ELSE y.conn \in Conns,
         UNCHANGED <<store, agent, elsewhere>>
  PROVE  PanelInv'
<1>1. /\ panel' \in Panel /\ panel'.shown = panel.shown /\ panel'.created = panel.created /\ panel'.lost = panel.lost
      /\ ~panel'.stale => ~panel.stale /\ UnderWay = {}
  BY PanelBegun
<1>2. calls \in [Calls -> Call] /\ calls'[k] = y /\ \A j \in Calls \ {k} : calls'[j] = calls[j]
  BY DEF PanelInv, PanelTypeOK
<1>3. UNCHANGED <<conns, cards, events, hooks, agent, elsewhere>>
  BY DEF store
<1>4. PanelTypeOK'
  BY <1>1, <1>2, <1>3 DEF PanelInv, PanelTypeOK, TypeOK
<1>5. CallsFit'
  BY <1>2 DEF PanelInv, CallsFit, CallFits
<1>6. TokensExist'
  BY <1>1, <1>2, <1>3 DEF PanelInv, TokensExist, Brings
<1>7. UnderWay' = UnderWay \cup {k}
  BY <1>2 DEF UnderWay
<1>8. OneByOne'
  BY <1>1, <1>7 DEF OneByOne
<1>9. ASSUME Settled'
      PROVE  /\ Settled /\ UnderWay = {} /\ \A j \in Calls : calls'[j].step \in {"unused", "over", "sent", "loading"}
  BY <1>1, <1>2, <1>3, <1>9 DEF Settled, UnderWay
<1>10. ListsFit'
  BY <1>7, <1>9 DEF ListsFit
<1>11. TokensFit'
  BY <1>1, <1>3, <1>9 DEF PanelInv, TokensFit, TokenAccepted, Rotated, Brings, UnderWay, Live
<1> QED BY <1>4, <1>5, <1>6, <1>8, <1>10, <1>11 DEF PanelInv

LEMMA SendStep ==
  ASSUME PanelConstantsFit, PanelInv, NEW k \in Calls,
         NEW p \in Panel, p.shown = panel.shown, p.created = panel.created, p.lost = panel.lost, p.stale = panel.stale,
         NEW op \in {"create", "rotate", "revoke", "start"}, NEW c \in Conns \cup {"none"},
         NEW ws \in Workspaces \cup {"none"}, IF op = "create" THEN ws \in Workspaces ELSE c \in Conns,
         Send(k, p, op, c, ws)
  PROVE  PanelInv'
<1> DEFINE y == [NoCall EXCEPT !.op = op, !.step = "sent", !.conn = c, !.ws = ws]
<1>1. y \in Call /\ y.op = op /\ y.step = "sent" /\ y.conn = c /\ y.ws = ws /\ y.token = 0
  <2>1. NoCall \in Call /\ NoCall.token = 0
    BY CallOver DEF NoCall
  <2> QED BY <2>1 DEF Call
<1>2. /\ calls[k].step = "unused" /\ UNCHANGED <<store, agent, elsewhere>>
      /\ panel' = [p EXCEPT !.error = FALSE, !.stale = @ \/ UnderWay # {}]
      /\ calls' = [calls EXCEPT ![k] = y]
  BY DEF Send
<1> HIDE DEF y
<1> QED BY <1>1, <1>2, Begins

LEMMA ClickStep == ASSUME PanelConstantsFit, PanelInv, NEW k \in Calls, Click(k) PROVE PanelInv'
<1>1. panel \in Panel /\ panel.shown \subseteq Conns /\ panel.startWith \in Conns \cup {"none"}
  BY DEF PanelInv, PanelTypeOK, Panel
<1>2. CASE CreateConnection(k)
  <2> DEFINE p == [panel EXCEPT !.creating = TRUE]
  <2>1. PICK ws \in Workspaces : Send(k, p, "create", "none", ws)
    BY <1>2 DEF CreateConnection
  <2>2. /\ p \in Panel /\ p.shown = panel.shown /\ p.created = panel.created /\ p.lost = panel.lost
        /\ p.stale = panel.stale
    BY <1>1, PanelCreating
  <2> HIDE DEF p
  <2> QED BY <2>1, <2>2, SendStep
<1>3. ASSUME NEW c \in Conns, NEW op \in {"rotate", "revoke"}, Send(k, [panel EXCEPT !.busy = c], op, c, "none")
      PROVE  PanelInv'
  <2> DEFINE p == [panel EXCEPT !.busy = c]
  <2>1. Send(k, p, op, c, "none")
    BY <1>3
  <2>2. /\ p \in Panel /\ p.shown = panel.shown /\ p.created = panel.created /\ p.lost = panel.lost
        /\ p.stale = panel.stale
    BY <1>1, PanelBusy
  <2> HIDE DEF p
  <2> QED BY <2>1, <2>2, SendStep
<1>4. CASE StartRun(k)
  <2> DEFINE p == [panel EXCEPT !.starting = TRUE]
  <2>1. PICK c \in Conns : c = panel.startWith
    BY <1>1, <1>4 DEF StartRun
  <2>2. Send(k, p, "start", c, "none")
    BY <1>4, <2>1 DEF StartRun
  <2>3. /\ p \in Panel /\ p.shown = panel.shown /\ p.created = panel.created /\ p.lost = panel.lost
        /\ p.stale = panel.stale
    BY <1>1, PanelStarting
  <2> HIDE DEF p
  <2> QED BY <2>2, <2>3, SendStep
<1>5. CASE Retry(k)
  <2> DEFINE y == [NoCall EXCEPT !.op = "retry", !.step = "loading"]
  <2>1. y \in Call /\ y.step = "loading"
    BY CallLoading, CallOver
  <2>2. /\ calls' = [calls EXCEPT ![k] = y] /\ panel' = [panel EXCEPT !.error = FALSE, !.stale = @ \/ UnderWay # {}]
        /\ calls[k].step = "unused" /\ UNCHANGED <<store, agent, elsewhere>>
    BY <1>5 DEF Retry
  <2> HIDE DEF y
  <2> QED BY <1>1, <2>1, <2>2, Begins
<1> QED BY <1>2, <1>3, <1>4, <1>5 DEF Click, RotateToken, RevokeConnection

\* A call whose operation ends, or goes on to read the lists; nothing of the store moves.
LEMMA Renders ==
  ASSUME PanelInv, NEW k \in Calls, NEW y \in Call, y.step \in {"loading", "over"},
         calls' = [calls EXCEPT ![k] = y], panel' \in Panel, UNCHANGED <<store, agent, elsewhere>>,
         calls[k].step \in {"ok", "failed", "loading", "listed"},
         ~panel'.stale => ~panel.stale,
         panel'.created = NoToken \/ (panel'.created.conn \in Conns /\ conns[panel'.created.conn].state # "unused"),
         Settled /\ ~panel'.stale =>
           /\ y.step = "over" /\ ~panel'.error => calls[k].step = "listed" /\ panel'.shown = calls[k].got
           /\ \/ panel'.created = panel.created /\ ~Rotated(k) /\ panel'.lost = panel.lost
              \/ panel'.created = NoToken \/ panel'.lost
              \/ Brings(k) /\ panel'.created.conn = calls[k].conn /\ panel'.created.token = calls[k].token
  PROVE  PanelInv'
<1>1. UNCHANGED <<conns, cards, events, hooks, agent, elsewhere>>
  BY DEF store
<1>2. calls \in [Calls -> Call] /\ calls'[k] = y /\ \A j \in Calls \ {k} : calls'[j] = calls[j]
  BY DEF PanelInv, PanelTypeOK
<1>3. PanelTypeOK'
  BY <1>1, <1>2 DEF PanelInv, PanelTypeOK, TypeOK
<1>4. CallsFit'
  BY <1>2 DEF PanelInv, CallsFit, CallFits
<1>5. TokensExist'
  BY <1>1, <1>2 DEF PanelInv, TokensExist, Brings
<1>6. k \in UnderWay /\ UnderWay' \subseteq UnderWay /\ (y.step = "loading" => k \in UnderWay')
  BY <1>2 DEF UnderWay
<1>7. OneByOne'
  BY <1>6 DEF PanelInv, OneByOne
<1>8. ASSUME Settled'
      PROVE  /\ Settled /\ \A j \in Calls \ {k} : calls'[j].step \in {"unused", "over"} /\ calls[j].step \in {"unused", "over"}
  <2>1. Settled
    BY <1>1, <1>8 DEF Settled
  <2> QED BY <1>2, <1>6, <2>1 DEF Settled, PanelInv, OneByOne, UnderWay
<1>9. ListsFit'
  <2> SUFFICES ASSUME Settled'
               PROVE  /\ \A j \in Calls : calls'[j].step = "listed" => calls'[j].got = LiveConns'
                      /\ UnderWay' = {} /\ ~panel'.error => panel'.shown = LiveConns'
    BY DEF ListsFit
  <2>1. LiveConns' = LiveConns
    BY <1>1 DEF LiveConns, Live
  <2>2. ASSUME UnderWay' = {}, ~panel'.error PROVE panel'.shown = LiveConns
    BY <1>6, <1>8, <2>2 DEF PanelInv, ListsFit, Settled
  <2> QED BY <1>2, <1>8, <2>1, <2>2
<1>10. TokensFit'
  <2> SUFFICES ASSUME Settled' PROVE (\A j \in Calls : ~Brings(j)') /\ TokenAccepted'
    BY DEF TokensFit
  <2>1. \A j \in Calls : ~Brings(j)'
    BY <1>2, <1>8 DEF Brings
  <2>2. \A j \in Calls \ {k} : ~Rotated(j)
    BY <1>8 DEF Rotated
  <2>3. ~panel'.stale
    BY DEF Settled
  <2>4. CASE panel'.created = panel.created /\ ~Rotated(k) /\ panel'.lost = panel.lost
    BY <1>1, <1>8, <2>1, <2>2, <2>4 DEF PanelInv, TokensFit, TokenAccepted, Live
  <2>5. CASE panel'.created = NoToken \/ panel'.lost
    BY <2>1, <2>5 DEF TokenAccepted
  <2>6. CASE Brings(k) /\ panel'.created.conn = calls[k].conn /\ panel'.created.token = calls[k].token
    BY <1>1, <1>8, <2>1, <2>6 DEF PanelInv, TokensFit, TokenAccepted
  <2> QED BY <1>8, <2>3, <2>4, <2>5, <2>6
<1> QED BY <1>3, <1>4, <1>5, <1>7, <1>9, <1>10 DEF PanelInv

LEMMA RenderStep == ASSUME PanelConstantsFit, PanelInv, NEW k \in Calls, Render(k) PROVE PanelInv'
<1>1. panel \in Panel /\ calls[k] \in Call
  BY DEF PanelInv, PanelTypeOK
<1> DEFINE over == [NoCall EXCEPT !.step = "over"]
<1>2. over \in Call /\ over.step = "over"
  BY CallOver, CallStepped
<1> HIDE DEF over
<1>3. CASE Succeeded(k)
  <2> DEFINE y == [calls[k] EXCEPT !.step = "loading"]
  <2>1. y \in Call /\ y.step = "loading"
    BY <1>1, CallStepped
  <2>2. /\ panel' = [Shown(panel, calls[k]) EXCEPT !.error = FALSE] /\ calls' = [calls EXCEPT ![k] = y]
        /\ calls[k].step = "ok" /\ UNCHANGED <<store, agent, elsewhere>>
    BY <1>3 DEF Succeeded
  <2>3. /\ panel' \in Panel /\ panel'.stale = panel.stale
        /\ calls[k].op \in {"create", "rotate"} =>
             panel'.created.conn = calls[k].conn /\ panel'.created.token = calls[k].token
        /\ calls[k].op \notin {"create", "rotate"} => panel'.created = panel.created /\ panel'.lost = panel.lost
    BY <1>1, <2>2, PanelShows
  <2>4. calls[k].op \notin {"create", "rotate"} => ~Rotated(k)
    BY DEF Rotated
  <2>5. panel'.created = NoToken \/ (panel'.created.conn \in Conns /\ conns[panel'.created.conn].state # "unused")
    BY <2>2, <2>3 DEF PanelInv, TokensExist, Brings
  <2>6. calls[k].op \in {"create", "rotate"} => Brings(k)
    BY <2>2 DEF Brings
  <2> HIDE DEF y
  <2> QED BY <2>1, <2>2, <2>3, <2>4, <2>5, <2>6, Renders
<1>4. CASE Failed(k)
  <2>1. /\ calls' = [calls EXCEPT ![k] = over] /\ calls[k].step \in {"failed", "loading", "listed"}
        /\ UNCHANGED <<store, agent, elsewhere>>
    BY <1>4 DEF Failed, over
  <2>2. CASE calls[k].op = "retry"
    <3>1. panel' \in Panel /\ panel'.stale /\ panel'.created = panel.created
      BY <1>1, <1>4, <2>2, PanelStale DEF Failed
    <3> QED BY <1>2, <2>1, <3>1, Renders DEF PanelInv, TokensExist
  <2>3. CASE calls[k].op # "retry"
    <3> DEFINE p == Done(panel, calls[k].op)
    <3>1. p \in Panel /\ p.created = panel.created /\ p.lost = panel.lost /\ p.stale = panel.stale
      BY <1>1, PanelDone
    <3>2. panel' = [p EXCEPT !.error = TRUE,
                       !.lost = @ \/ (calls[k].op = "rotate" /\ calls[k].step = "failed" /\ calls[k].conn = panel.created.conn)]
      BY <1>4, <2>3 DEF Failed
    <3> HIDE DEF p
    <3>3. /\ panel' \in Panel /\ panel'.created = panel.created /\ panel'.stale = panel.stale /\ panel'.error
      BY <3>1, <3>2 DEF Panel
    <3>4. panel'.lost \/ (~Rotated(k) /\ panel'.lost = panel.lost)
      BY <1>1, <2>1, <3>1, <3>2 DEF Panel, Rotated
    <3> QED BY <1>2, <2>1, <3>3, <3>4, Renders DEF PanelInv, TokensExist
  <2> QED BY <2>2, <2>3
<1>5. CASE Loaded(k)
  <2>1. /\ calls' = [calls EXCEPT ![k] = over] /\ calls[k].step = "listed" /\ UNCHANGED <<store, agent, elsewhere>>
    BY <1>5 DEF Loaded, over
  <2>2. calls[k].got \in SUBSET Conns
    BY <1>1 DEF Call
  <2>3. panel.startWith \in Conns \cup {"none"}
    BY <1>1 DEF Panel
  <2>4. PICK first \in Conns \cup {"none"} :
          panel' = Done([panel EXCEPT !.shown = calls[k].got, !.startWith = first], calls[k].op)
    BY <1>5, <2>2, <2>3 DEF Loaded
  <2> DEFINE p == [panel EXCEPT !.shown = calls[k].got, !.startWith = first]
  <2>5. p \in Panel /\ p.shown = calls[k].got /\ p.created = panel.created /\ p.lost = panel.lost /\ p.stale = panel.stale
    BY <1>1, <2>2 DEF Panel
  <2> HIDE DEF p
  <2>6. /\ panel' \in Panel /\ panel'.shown = calls[k].got /\ panel'.created = panel.created
        /\ panel'.lost = panel.lost /\ panel'.stale = panel.stale
    BY <2>4, <2>5, PanelDone DEF p
  <2>7. ~Rotated(k)
    BY <2>1 DEF Rotated
  <2> QED BY <1>2, <2>1, <2>6, <2>7, Renders DEF PanelInv, TokensExist
<1> QED BY <1>3, <1>4, <1>5 DEF Render

\* A step of a route: at most one connection changes, the one call k is about, and only a
\* rotation gives a connection that existed another token.
LEMMA Routed ==
  ASSUME PanelInv, TypeOK', NEW k \in Calls, NEW y \in Call, calls' = [calls EXCEPT ![k] = y], y.op = calls[k].op,
         calls[k].step \in {"sent", "read", "asked", "loading"}, y.step \in {"read", "asked", "ok", "failed", "listed"},
         UNCHANGED <<panel, elsewhere>>, agent' \in [revision : 1..MaxRevision, runs : SUBSET (Calls \X (1..MaxRevision))],
         y.step \in {"read", "asked"} => y.op = "start" /\ y.conn \in Conns,
         y.step = "listed" => y.got = LiveConns /\ UNCHANGED conns,
         y.step = "ok" /\ y.op \in {"create", "rotate"} =>
           y.conn \in Conns /\ conns'[y.conn].state # "unused" /\ conns'[y.conn].token = y.token,
         \A c \in Conns : conns[c].state # "unused" =>
           /\ conns'[c].state # "unused"
           /\ conns'[c].state = "live" =>
                /\ conns[c].state = "live"
                /\ conns'[c].token = conns[c].token \/ (y.op = "rotate" /\ y.step \in {"ok", "failed"} /\ y.conn = c)
  PROVE  PanelInv'
<1>1. calls \in [Calls -> Call] /\ calls'[k] = y /\ \A j \in Calls \ {k} : calls'[j] = calls[j]
  BY DEF PanelInv, PanelTypeOK
<1>2. PanelTypeOK'
  BY <1>1 DEF PanelInv, PanelTypeOK
<1>3. CallsFit'
  BY <1>1 DEF PanelInv, CallsFit, CallFits
<1>4. TokensExist'
  BY <1>1 DEF PanelInv, TokensExist, Brings
<1>5. k \in UnderWay /\ UnderWay' = UnderWay
  BY <1>1 DEF UnderWay
<1>6. OneByOne'
  BY <1>5 DEF PanelInv, OneByOne
<1>7. ASSUME Settled'
      PROVE  /\ Settled /\ \A j \in Calls \ {k} : calls'[j].step \in {"unused", "over"} /\ calls[j].step \in {"unused", "over"}
  BY <1>1, <1>5, <1>7 DEF Settled, PanelInv, OneByOne, UnderWay
<1>8. ListsFit'
  <2> SUFFICES ASSUME Settled' PROVE \A j \in Calls : calls'[j].step = "listed" => calls'[j].got = LiveConns'
    BY <1>5 DEF ListsFit
  <2>1. y.step = "listed" => LiveConns' = LiveConns
    BY DEF LiveConns, Live
  <2> QED BY <1>1, <1>7, <2>1
<1>9. TokensFit'
  <2> SUFFICES ASSUME Settled'
               PROVE  /\ \A j \in Calls : Brings(j)' => conns'[calls'[j].conn].token = calls'[j].token
                      /\ TokenAccepted' \/ Rotated(k)'
    BY DEF TokensFit
  <2>1. \A j \in Calls : Brings(j)' => conns'[calls'[j].conn].token = calls'[j].token
    BY <1>1, <1>7 DEF Brings
  <2>2. TokenAccepted
    BY <1>7 DEF PanelInv, TokensFit, Rotated
  <2>3. TokenAccepted' \/ Rotated(k)'
    <3> SUFFICES ASSUME panel.created # NoToken, conns'[panel.created.conn].state = "live", ~panel.lost
                 PROVE  panel.created.token = conns'[panel.created.conn].token \/ Rotated(k)'
      BY DEF TokenAccepted, Live, NoToken
    <3>1. panel.created.conn \in Conns /\ conns[panel.created.conn].state # "unused"
      BY DEF PanelInv, TokensExist
    <3> QED BY <1>1, <2>2, <3>1 DEF TokenAccepted, Live, Rotated
  <2> QED BY <2>1, <2>3
<1> QED BY <1>2, <1>3, <1>4, <1>6, <1>8, <1>9 DEF PanelInv

\* A route that refuses, or goes on, without a change of a connection.
LEMMA RoutedAlone ==
  ASSUME PanelInv, NEW k \in Calls, NEW y \in Call, calls' = [calls EXCEPT ![k] = y], y.op = calls[k].op,
         calls[k].step \in {"sent", "read", "asked", "loading"}, y.step \in {"read", "asked", "ok", "failed", "listed"},
         UNCHANGED <<store, panel, elsewhere>>,
         agent' \in [revision : 1..MaxRevision, runs : SUBSET (Calls \X (1..MaxRevision))],
         y.step \in {"read", "asked"} => y.op = "start" /\ y.conn \in Conns,
         y.step = "listed" => y.got = LiveConns,
         y.step = "ok" => y.op \notin {"create", "rotate"}
  PROVE  PanelInv'
<1>1. UNCHANGED <<conns, cards, events, hooks>>
  BY DEF store
<1>2. TypeOK'
  BY <1>1 DEF PanelInv, PanelTypeOK, TypeOK
<1> QED BY <1>1, <1>2, Routed

LEMMA RefusedCall ==
  ASSUME PanelInv, NEW k \in Calls, calls[k].step \in {"sent", "read", "asked", "loading"}, Refuse(k),
         UNCHANGED <<panel, elsewhere>>
  PROVE  PanelInv'
<1> DEFINE y == [calls[k] EXCEPT !.step = "failed"]
<1>1. calls \in [Calls -> Call] /\ agent \in [revision : 1..MaxRevision, runs : SUBSET (Calls \X (1..MaxRevision))]
  BY DEF PanelInv, PanelTypeOK
<1>2. y \in Call /\ y.step = "failed" /\ y.op = calls[k].op
  BY <1>1, CallStepped
<1>3. calls' = [calls EXCEPT ![k] = y] /\ UNCHANGED <<store, agent>>
  BY <1>1 DEF Refuse
<1> HIDE DEF y
<1> QED BY <1>1, <1>2, <1>3, RoutedAlone

LEMMA ListStep == ASSUME PanelInv, NEW k \in Calls, ListConnections(k) PROVE PanelInv'
<1> DEFINE y == [calls[k] EXCEPT !.step = "listed", !.got = LiveConns]
<1>1. calls \in [Calls -> Call] /\ agent \in [revision : 1..MaxRevision, runs : SUBSET (Calls \X (1..MaxRevision))]
  BY DEF PanelInv, PanelTypeOK
<1>2. y \in Call /\ y.step = "listed" /\ y.op = calls[k].op /\ y.got = LiveConns
  BY <1>1, CallGot DEF LiveConns
<1>3. calls' = [calls EXCEPT ![k] = y] /\ calls[k].step = "loading" /\ UNCHANGED <<store, panel, agent, elsewhere>>
  BY <1>1 DEF ListConnections, LiveConns
<1> HIDE DEF y
<1> QED BY <1>1, <1>2, <1>3, RoutedAlone

LEMMA CreateArrivesStep == ASSUME PanelInv, TypeOK', NEW k \in Calls, CreateArrives(k) PROVE PanelInv'
<1>1. /\ calls \in [Calls -> Call] /\ agent \in [revision : 1..MaxRevision, runs : SUBSET (Calls \X (1..MaxRevision))]
      /\ conns \in [Conns -> Connection]
  BY DEF PanelInv, PanelTypeOK, TypeOK
<1>2. /\ calls[k].step = "sent" /\ calls[k].op = "create" /\ UNCHANGED <<panel, agent, elsewhere>>
  BY DEF CreateArrives
<1>3. CASE Refuse(k)
  BY <1>2, <1>3, RefusedCall
<1>4. CASE \E c \in Unused : Create(c, calls[k].ws) /\ Answer(k, [calls[k] EXCEPT !.conn = c])
  <2>1. PICK c \in Conns : Create(c, calls[k].ws) /\ Answer(k, [calls[k] EXCEPT !.conn = c])
    BY <1>4 DEF Unused
  <2>2. conns[c].state = "unused" /\ conns' = [conns EXCEPT ![c] = [state |-> "live", ws |-> calls[k].ws, token |-> 0]]
    BY <2>1 DEF Create
  <2>3. conns'[c].state = "live" /\ conns'[c].token = 0 /\ \A d \in Conns \ {c} : conns'[d] = conns[d]
    BY <1>1, <2>2
  <2> DEFINE x == [calls[k] EXCEPT !.conn = c]
             made == [x EXCEPT !.step = "ok"]
             failed == [calls[k] EXCEPT !.step = "failed"]
  <2>4. x \in Call /\ x.conn = c /\ x.op = "create" /\ x.token = calls[k].token
    BY <1>1, <1>2, CallCreated
  <2>5. calls' = [calls EXCEPT ![k] = made] \/ calls' = [calls EXCEPT ![k] = failed]
    BY <1>1, <2>1 DEF Answer
  <2> HIDE DEF x
  <2>6. made \in Call /\ made.step = "ok" /\ made.conn = c /\ made.op = "create" /\ made.token = calls[k].token
    BY <2>4, CallStepped
  <2>7. failed \in Call /\ failed.step = "failed" /\ failed.op = "create"
    <3>1. calls[k] \in Call
      BY <1>1
    <3> QED BY <1>2, <3>1, CallStepped
  <2>8. calls[k].token = 0
    BY <1>2 DEF PanelInv, CallsFit, CallFits
  <2> HIDE DEF made, failed
  <2>9. CASE calls' = [calls EXCEPT ![k] = made]
    BY <1>1, <1>2, <2>2, <2>3, <2>6, <2>8, <2>9, Routed
  <2>10. CASE calls' = [calls EXCEPT ![k] = failed]
    BY <1>1, <1>2, <2>2, <2>3, <2>7, <2>10, Routed
  <2> QED BY <2>5, <2>9, <2>10
<1> QED BY <1>3, <1>4 DEF CreateArrives

LEMMA RotateArrivesStep == ASSUME PanelInv, TypeOK', NEW k \in Calls, RotateArrives(k) PROVE PanelInv'
<1>1. /\ calls[k] \in Call /\ agent \in [revision : 1..MaxRevision, runs : SUBSET (Calls \X (1..MaxRevision))]
      /\ conns \in [Conns -> Connection] /\ conns' \in [Conns -> Connection]
  BY DEF PanelInv, PanelTypeOK, TypeOK
<1>2. /\ calls[k].step = "sent" /\ calls[k].op = "rotate" /\ UNCHANGED <<panel, agent, elsewhere>>
  BY DEF RotateArrives
<1>3. PICK c \in Conns : c = calls[k].conn
  BY <1>2 DEF PanelInv, CallsFit, CallFits
<1>4. CASE Refuse(k)
  BY <1>2, <1>4, RefusedCall
<1>5. CASE Rotate(c) /\ Answer(k, [calls[k] EXCEPT !.token = conns'[c].token])
  <2>1. conns[c].state = "live" /\ conns' = [conns EXCEPT ![c].token = @ + 1]
    BY <1>5 DEF Rotate, Live
  <2>2. conns'[c].state = "live" /\ \A d \in Conns \ {c} : conns'[d] = conns[d]
    BY <1>1, <2>1 DEF Connection
  <2>3. conns'[c].token \in 0..MaxRotations
    BY <1>1 DEF Connection
  <2> DEFINE x == [calls[k] EXCEPT !.token = conns'[c].token]
             rotated == [x EXCEPT !.step = "ok"]
             failed == [calls[k] EXCEPT !.step = "failed"]
  <2>4. x \in Call /\ x.conn = c /\ x.op = "rotate" /\ x.token = conns'[c].token
    BY <1>1, <1>2, <1>3, <2>3, CallRotated
  <2>5. calls' = [calls EXCEPT ![k] = rotated] \/ calls' = [calls EXCEPT ![k] = failed]
    BY <1>1, <1>5 DEF Answer
  <2> HIDE DEF x
  <2>6. rotated \in Call /\ rotated.step = "ok" /\ rotated.conn = c /\ rotated.op = "rotate" /\ rotated.token = conns'[c].token
    BY <2>4, CallStepped
  <2>7. failed \in Call /\ failed.step = "failed" /\ failed.op = "rotate" /\ failed.conn = c
    BY <1>1, <1>2, <1>3, CallStepped
  <2> HIDE DEF rotated, failed
  <2>8. \A d \in Conns : conns[d].state # "unused" =>
          /\ conns'[d].state # "unused"
          /\ conns'[d].state = "live" => conns[d].state = "live" /\ (conns'[d].token = conns[d].token \/ d = c)
    BY <2>1, <2>2
  <2>9. CASE calls' = [calls EXCEPT ![k] = rotated]
    <3>1. conns'[rotated.conn].state # "unused" /\ conns'[rotated.conn].token = rotated.token
      BY <2>2, <2>6
    <3> QED BY <1>1, <1>2, <2>6, <2>8, <2>9, <3>1, Routed
  <2>10. CASE calls' = [calls EXCEPT ![k] = failed]
    BY <1>1, <1>2, <2>7, <2>8, <2>10, Routed
  <2> QED BY <2>5, <2>9, <2>10
<1> QED BY <1>3, <1>4, <1>5 DEF RotateArrives

LEMMA RevokeArrivesStep == ASSUME PanelInv, TypeOK', NEW k \in Calls, RevokeArrives(k) PROVE PanelInv'
<1>1. /\ calls[k] \in Call /\ agent \in [revision : 1..MaxRevision, runs : SUBSET (Calls \X (1..MaxRevision))]
      /\ conns \in [Conns -> Connection]
  BY DEF PanelInv, PanelTypeOK, TypeOK
<1>2. /\ calls[k].step = "sent" /\ calls[k].op = "revoke" /\ UNCHANGED <<panel, agent, elsewhere>>
  BY DEF RevokeArrives
<1>3. PICK c \in Conns : c = calls[k].conn
  BY <1>2 DEF PanelInv, CallsFit, CallFits
<1>4. CASE Refuse(k)
  BY <1>2, <1>4, RefusedCall
<1>5. CASE Revoke(c) /\ Answer(k, calls[k])
  <2>1. conns[c].state = "live" /\ conns' = [conns EXCEPT ![c].state = "deleted"]
    BY <1>5 DEF Revoke, Live
  <2>2. conns'[c].state = "deleted" /\ \A d \in Conns \ {c} : conns'[d] = conns[d]
    BY <1>1, <2>1 DEF Connection
  <2>3. PICK s \in {"ok", "failed"} : calls' = [calls EXCEPT ![k] = [calls[k] EXCEPT !.step = s]]
    BY <1>5 DEF Answer
  <2> DEFINE y == [calls[k] EXCEPT !.step = s]
  <2>4. y \in Call /\ y.step = s /\ y.op = "revoke"
    BY <1>1, <1>2 DEF Call
  <2>5. calls' = [calls EXCEPT ![k] = y]
    BY <2>3
  <2> HIDE DEF y
  <2> QED BY <1>1, <1>2, <2>1, <2>2, <2>4, <2>5, Routed
<1> QED BY <1>3, <1>4, <1>5 DEF RevokeArrives

\* POST .../runs, one request to the deployment after another.
LEMMA RunRouteStep ==
  ASSUME PanelConstantsFit, PanelInv, NEW k \in Calls, ReadConnection(k) \/ LookUpDeployment(k) \/ Activate(k)
  PROVE  PanelInv'
<1>1. calls[k] \in Call /\ agent \in [revision : 1..MaxRevision, runs : SUBSET (Calls \X (1..MaxRevision))]
  BY DEF PanelInv, PanelTypeOK
<1>2. calls[k].step \in {"sent", "read", "asked"} /\ UNCHANGED <<store, panel, elsewhere>>
  BY DEF ReadConnection, LookUpDeployment, Activate, Refuse
<1>3. calls[k].op = "start" /\ calls[k].conn \in Conns
  BY DEF ReadConnection, LookUpDeployment, Activate, PanelInv, CallsFit, CallFits
<1>4. CASE Refuse(k)
  BY <1>2, <1>4, RefusedCall
<1>5. ASSUME NEW s \in {"read", "ok", "failed"}, calls' = [calls EXCEPT ![k].step = s],
             agent' \in [revision : 1..MaxRevision, runs : SUBSET (Calls \X (1..MaxRevision))]
      PROVE  PanelInv'
  <2> DEFINE y == [calls[k] EXCEPT !.step = s]
  <2>1. y \in Call /\ y.step = s /\ y.op = "start" /\ y.conn \in Conns
    BY <1>1, <1>3 DEF Call
  <2>2. calls' = [calls EXCEPT ![k] = y]
    BY <1>5 DEF PanelInv, PanelTypeOK
  <2> HIDE DEF y
  <2> QED BY <1>2, <1>3, <1>5, <2>1, <2>2, RoutedAlone
<1>6. CASE ReadConnection(k)
  BY <1>1, <1>4, <1>5, <1>6 DEF ReadConnection
<1>7. CASE LookUpDeployment(k)
  <2>1. CASE calls' = [calls EXCEPT ![k].step = "asked", ![k].revision = agent.revision] /\ UNCHANGED <<store, agent>>
    <3> DEFINE y == [calls[k] EXCEPT !.step = "asked", !.revision = agent.revision]
    <3>1. agent.revision \in 0..MaxRevision
      BY <1>1 DEF PanelConstantsFit
    <3>2. y \in Call /\ y.step = "asked" /\ y.op = "start" /\ y.conn \in Conns
      BY <1>1, <1>3, <3>1, CallAsked
    <3>3. calls' = [calls EXCEPT ![k] = y]
      BY <2>1 DEF PanelInv, PanelTypeOK
    <3> HIDE DEF y
    <3> QED BY <1>1, <1>2, <1>3, <2>1, <3>2, <3>3, RoutedAlone
  <2> QED BY <1>4, <1>7, <2>1 DEF LookUpDeployment
<1>8. CASE Activate(k)
  <2>1. CASE agent' = [agent EXCEPT !.runs = @ \cup {<<k, agent.revision>>}] /\ Answer(k, calls[k])
    <3>1. agent' \in [revision : 1..MaxRevision, runs : SUBSET (Calls \X (1..MaxRevision))]
      BY <1>1, <2>1
    <3>2. calls' = [calls EXCEPT ![k].step = "ok"] \/ calls' = [calls EXCEPT ![k].step = "failed"]
      BY <2>1 DEF Answer, PanelInv, PanelTypeOK
    <3> QED BY <1>5, <3>1, <3>2
  <2> QED BY <1>4, <1>8, <2>1 DEF Activate
<1> QED BY <1>6, <1>7, <1>8

\* What leaves the operations and the store as they are.
LEMMA ElseStep ==
  ASSUME PanelConstantsFit, PanelInv, TypeOK', ChooseConnection \/ Dismiss \/ Publish \/ Elsewhere
  PROVE  PanelInv'
<1>1. /\ panel \in Panel /\ panel.shown \subseteq Conns
      /\ agent \in [revision : 1..MaxRevision, runs : SUBSET (Calls \X (1..MaxRevision))]
      /\ conns \in [Conns -> Connection] /\ elsewhere \in 0..MaxElsewhere
  BY DEF PanelInv, PanelTypeOK, TypeOK, Panel
<1>2. UNCHANGED calls
  BY DEF ChooseConnection, Dismiss, Publish, Elsewhere
<1>3. UnderWay' = UnderWay
  BY <1>2 DEF UnderWay
<1>4. CallsFit'
  BY <1>2 DEF PanelInv, CallsFit, CallFits
<1>5. CASE Elsewhere
  <2>1. Owner /\ elsewhere' = elsewhere + 1 /\ elsewhere < MaxElsewhere /\ UNCHANGED <<panel, agent>>
    BY <1>5 DEF Elsewhere
  <2>2. \A c \in Conns : conns[c].state # "unused" => conns'[c].state # "unused"
    <3>1. PICK c \in Conns : Rotate(c) \/ Revoke(c) \/ \E ws \in Workspaces : Create(c, ws)
      BY <2>1 DEF Owner
    <3>2. CASE Rotate(c)
      BY <1>1, <3>2 DEF Rotate, Connection
    <3>3. CASE Revoke(c)
      BY <1>1, <3>3 DEF Revoke, Connection
    <3>4. CASE \E ws \in Workspaces : Create(c, ws)
      BY <1>1, <3>4 DEF Create
    <3> QED BY <3>1, <3>2, <3>3, <3>4
  <2>3. ~Settled'
    BY <1>1, <2>1 DEF Settled
  <2>4. elsewhere' \in 0..MaxElsewhere
    BY <1>1, <2>1 DEF PanelConstantsFit
  <2>5. PanelTypeOK'
    BY <1>2, <2>1, <2>4 DEF PanelInv, PanelTypeOK
  <2>6. TokensExist' /\ OneByOne'
    BY <1>2, <1>3, <2>1, <2>2 DEF PanelInv, TokensExist, OneByOne, Brings
  <2> QED BY <1>4, <2>3, <2>5, <2>6 DEF PanelInv, ListsFit, TokensFit
<1>6. ASSUME UNCHANGED <<store, elsewhere>>, panel' \in Panel,
             agent' \in [revision : 1..MaxRevision, runs : SUBSET (Calls \X (1..MaxRevision))],
             panel'.shown = panel.shown, panel'.stale = panel.stale, panel'.error = panel.error, panel'.lost = panel.lost,
             panel'.created \in {panel.created, NoToken}
      PROVE  PanelInv'
  <2>1. UNCHANGED <<conns, cards, events, hooks>>
    BY <1>6 DEF store
  <2>2. PanelTypeOK'
    BY <1>2, <1>6, <2>1 DEF PanelInv, PanelTypeOK
  <2>3. TokensExist' /\ OneByOne'
    BY <1>2, <1>3, <1>6, <2>1 DEF PanelInv, TokensExist, OneByOne, Brings
  <2>4. Settled' = Settled /\ LiveConns' = LiveConns
    BY <1>6, <2>1 DEF Settled, LiveConns, Live
  <2>5. ListsFit'
    BY <1>2, <1>3, <1>6, <2>4 DEF PanelInv, ListsFit
  <2>6. TokensFit'
    <3>1. CASE panel'.created = panel.created
      <4>1. TokenAccepted' = TokenAccepted /\ \A k \in Calls : Rotated(k)' = Rotated(k) /\ Brings(k)' = Brings(k)
        BY <1>2, <1>6, <2>1, <3>1 DEF TokenAccepted, Rotated, Brings, Live
      <4> QED BY <1>2, <2>1, <2>4, <4>1 DEF PanelInv, TokensFit
    <3>2. CASE panel'.created = NoToken
      <4>1. TokenAccepted' /\ \A k \in Calls : Brings(k)' = Brings(k)
        BY <1>2, <3>2 DEF TokenAccepted, Brings
      <4> QED BY <1>2, <2>1, <2>4, <4>1 DEF PanelInv, TokensFit
    <3> QED BY <1>6, <3>1, <3>2
  <2> QED BY <1>4, <2>2, <2>3, <2>5, <2>6 DEF PanelInv
<1>7. CASE ChooseConnection
  <2>1. PICK c \in Conns : panel' = [panel EXCEPT !.startWith = c]
    BY <1>1, <1>7 DEF ChooseConnection
  <2>2. /\ panel' \in Panel /\ panel'.shown = panel.shown /\ panel'.created = panel.created /\ panel'.lost = panel.lost
        /\ panel'.stale = panel.stale /\ panel'.error = panel.error
    BY <1>1, <2>1, PanelChosen
  <2> QED BY <1>1, <1>6, <1>7, <2>2 DEF ChooseConnection
<1>8. CASE Dismiss
  <2>1. /\ panel' \in Panel /\ panel'.shown = panel.shown /\ panel'.created = NoToken /\ panel'.lost = panel.lost
        /\ panel'.stale = panel.stale /\ panel'.error = panel.error
    BY <1>1, <1>8, PanelDismissed DEF Dismiss
  <2> QED BY <1>1, <1>6, <1>8, <2>1 DEF Dismiss
<1>9. CASE Publish
  <2>1. agent' \in [revision : 1..MaxRevision, runs : SUBSET (Calls \X (1..MaxRevision))]
    BY <1>1, <1>9 DEF Publish, PanelConstantsFit
  <2> QED BY <1>1, <1>6, <1>9, <2>1 DEF Publish
<1> QED BY <1>5, <1>7, <1>8, <1>9

-----------------------------------------------------------------------------
LEMMA PanelInvNext == PanelConstantsFit /\ IInv /\ PanelInv /\ [PanelNext]_panelVars => IInv' /\ PanelInv'
<1> SUFFICES ASSUME PanelConstantsFit, IInv, PanelInv, [PanelNext]_panelVars PROVE IInv' /\ PanelInv'
  OBVIOUS
<1>1. CASE PanelNext
  <2>1. IInv' /\ TypeOK'
    BY <1>1, StoreMoves, IInvNext DEF PanelInv, PanelConstantsFit, IInv
  <2>2. ASSUME NEW k \in Calls, Click(k) \/ Render(k) \/ Route(k) PROVE PanelInv'
    BY <2>1, <2>2, ClickStep, RenderStep, ListStep, CreateArrivesStep, RotateArrivesStep, RevokeArrivesStep, RunRouteStep
       DEF Route
  <2> QED BY <1>1, <2>1, <2>2, ElseStep DEF PanelNext
<1>2. CASE UNCHANGED panelVars
  <2>1. UNCHANGED vars /\ UNCHANGED <<conns, panel, calls, agent, elsewhere>>
    BY <1>2 DEF panelVars, vars
  <2>2. IInv'
    BY <2>1, IInvNext DEF PanelConstantsFit
  <2>3. PanelTypeOK' /\ CallsFit' /\ TokensExist' /\ OneByOne'
    BY <2>1, <2>2 DEF PanelInv, PanelTypeOK, IInv, CallsFit, CallFits, TokensExist, Brings, OneByOne, UnderWay
  <2>4. ListsFit' /\ TokensFit'
    BY <2>1 DEF PanelInv, ListsFit, TokensFit, TokenAccepted, Rotated, Brings, Settled, LiveConns, Live, UnderWay
  <2> QED BY <2>2, <2>3, <2>4 DEF PanelInv
<1> QED BY <1>1, <1>2

LEMMA PanelInvariance == ASSUME PanelConstantsFit PROVE PanelSpec => [](IInv /\ PanelInv)
<1>1. PanelInit => IInv /\ PanelInv
  BY InitIInv, InitPanelInv DEF PanelInit, PanelConstantsFit
<1> QED BY <1>1, PanelInvNext, PTL DEF PanelSpec

\* What the panel and its routes do to connections is what owners may do: its behaviours are
\* behaviours of the notifications' store.
THEOREM PanelUsesTheStore == ASSUME PanelConstantsFit PROVE PanelSpec => Spec
<1>1. PanelInit => Init
  BY DEF PanelInit
<1>2. PanelInv /\ [PanelNext]_panelVars => [Next]_vars
  BY StoreMoves DEF PanelInv, panelVars, vars
<1> QED BY PanelInvariance, <1>1, <1>2, PTL DEF PanelSpec, Spec

\* Every state of the panel is well typed.
THEOREM PanelTypeCorrect == ASSUME PanelConstantsFit PROVE PanelSpec => []PanelTypeOK
<1>1. PanelInv => PanelTypeOK
  BY DEF PanelInv
<1> QED BY PanelInvariance, <1>1, PTL

LEMMA ShowsCurrent == PanelInv => PanelIsCurrent
BY DEF PanelInv, PanelIsCurrent, Quiet, Settled, ListsFit, TokensFit, TokenAccepted, LiveConns, Rotated, UnderWay

LEMMA StartsAsRead == ASSUME PanelInv, PanelNext PROVE StartsWhatWasReadStep
<1> SUFFICES ASSUME NEW p \in agent'.runs \ agent.runs
             PROVE  calls[p[1]].op = "start" /\ p[2] = calls[p[1]].revision
  BY DEF StartsWhatWasReadStep
<1>1. PICK k \in Calls : Activate(k)
  <2>1. agent' # agent
    OBVIOUS
  <2>2. ~(ChooseConnection \/ Dismiss \/ Elsewhere)
    BY <2>1 DEF ChooseConnection, Dismiss, Elsewhere
  <2>3. ~Publish
    BY DEF Publish, PanelInv, PanelTypeOK
  <2>4. PICK k \in Calls : Click(k) \/ Render(k) \/ Route(k)
    BY <2>2, <2>3 DEF PanelNext
  <2>5. ~Click(k) /\ ~Render(k)
    BY <2>1 DEF Click, Render, CreateConnection, RotateToken, RevokeConnection, StartRun, Retry, Send, Succeeded, Failed, Loaded
  <2>6. ~(ListConnections(k) \/ CreateArrives(k) \/ RotateArrives(k) \/ RevokeArrives(k))
    BY <2>1 DEF ListConnections, CreateArrives, RotateArrives, RevokeArrives
  <2>7. ~(ReadConnection(k) \/ LookUpDeployment(k))
    BY <2>1 DEF ReadConnection, LookUpDeployment, Refuse
  <2> QED BY <2>4, <2>5, <2>6, <2>7 DEF Route
<1>2. calls[k].op = "start"
  BY <1>1 DEF Activate, PanelInv, CallsFit, CallFits
<1>3. p = <<k, agent.revision>> /\ calls[k].revision = agent.revision
  BY <1>1 DEF Activate, Refuse, PanelInv, PanelTypeOK
<1> QED BY <1>2, <1>3

\* After operations that did not overlap, without an error and without another tab, the panel
\* lists the project's connections and shows a token that its connection accepts, unless a
\* rotation of it failed (PacketAgentPanel.tsx:83-161).
THEOREM PanelStaysCurrent == ASSUME PanelConstantsFit PROVE PanelSpec => []PanelIsCurrent
BY PanelInvariance, ShowsCurrent, PTL

\* A run starts on the revision that was read for it (runs/route.ts:83-85).
THEOREM RunsStartAsRead == ASSUME PanelConstantsFit PROVE PanelSpec => StartsWhatWasRead
<1>1. PanelInv /\ [PanelNext]_panelVars => [StartsWhatWasReadStep]_panelVars
  BY StartsAsRead
<1> QED BY PanelInvariance, <1>1, PTL DEF PanelSpec, StartsWhatWasRead
=============================================================================
