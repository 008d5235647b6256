--------------------------- MODULE SessionsProofs ---------------------------
(***************************************************************************)
(* Theorems about Sessions, for any number of tabs, sessions and refreshes.*)
(*                                                                         *)
(* OneChild and OneLiveToken are not inductive.  What makes them true is   *)
(* the row lock: a transaction that rotates a token holds its row from the *)
(* moment it found it live (Rotations), every pending token belongs to     *)
(* such a transaction (PendingOwned), and a token with a committed         *)
(* successor is spent (ParentsSpent), so a second transaction that finds   *)
(* the token live knows there is no successor.                             *)
(*                                                                         *)
(* CookieIsCurrent rests on who knows of a new token: from its insert to   *)
(* the delivery of its response it is named by one request, nobody has     *)
(* presented it, and it has not been used (Issues).  RotationEndsWithLogout*)
(* rests on the two locks of a logout: it holds the session's row, so no   *)
(* rotation can commit a token its update did not list (Holds), and what   *)
(* it listed it waits for (Covers).  Steps that leave sessions and tokens  *)
(* as they are share one summary, Tame.                                    *)
(*                                                                         *)
(* The theorems about Workbench, at the end, follow from those about its   *)
(* components: part never changes, the component it names takes its steps, *)
(* and its invariant is kept as if it were alone.                          *)
(***************************************************************************)
EXTENDS Sessions, Workbench, TLAPS

LEMMA FreeIsNoSlot == Free \notin Slots
BY DEF Free, Slots

-----------------------------------------------------------------------------
(* The inductive invariant.                                                *)

\* A refresh presents a token.
RefreshesPresent ==
  \A r \in Slots :
    requests[r].kind = "refresh" /\ requests[r].pc = "sent" => requests[r].tok \in Tid

\* The token a transaction has selected is in the database, in its session.
Selections ==
  \A r \in Slots : requests[r].pc = "selected" =>
    /\ requests[r].tok \in Tid
    /\ Committed(requests[r].tok)
    /\ tokens[requests[r].tok].sid = requests[r].sid

\* A transaction that rotates holds the row of a live token and its successor.
Rotations ==
  \A r \in Slots : requests[r].pc = "rotating" =>
    /\ requests[r].tok \in Tid /\ requests[r].new \in Tid
    /\ tokenLock[requests[r].tok] = r
    /\ tokens[requests[r].tok].state = "live"
    /\ tokens[requests[r].tok].sid = requests[r].sid
    /\ tokens[requests[r].new].state = "pending"
    /\ tokens[requests[r].new].sid = requests[r].sid
    /\ tokens[requests[r].new].parent = requests[r].tok

PendingOwned ==
  \A j \in Tid : tokens[j].state = "pending" =>
    \E r \in Slots : requests[r].pc = "rotating" /\ requests[r].new = j

\* Whatever else names a new token names a committed one.
NewCommitted ==
  \A r \in Slots : requests[r].new # None /\ requests[r].pc # "rotating" =>
    requests[r].new \in Tid /\ Committed(requests[r].new)

ParentsSpent ==
  \A j \in Tid : tokens[j].parent # None =>
    /\ tokens[j].parent \in Tid
    /\ tokens[j].state = "pending" \/ tokens[tokens[j].parent].state = "spent"

AbsentBlank == \A j \in Tid : tokens[j].state = "absent" => tokens[j] = NoToken

\* Tokens belong to sessions; a login between its two inserts has a session of its
\* own with no token yet.
TokensOwned ==
  \A j \in Tid : tokens[j].sid # None => sessions[tokens[j].sid] # "absent"

LoginsAlone ==
  \A r \in Slots : requests[r].pc = "inserted" =>
    /\ requests[r].sid \in Sid
    /\ sessions[requests[r].sid] # "absent"
    /\ \A j \in Tid : tokens[j].sid # requests[r].sid
    /\ \A q \in Slots : requests[q].pc = "inserted" /\ requests[q].sid = requests[r].sid
                          => q = r

Core ==
  /\ RefreshesPresent /\ Selections /\ Rotations /\ PendingOwned /\ NewCommitted
  /\ ParentsSpent /\ AbsentBlank /\ TokensOwned /\ LoginsAlone
  /\ OneChild /\ OneLiveToken

IInv == TypeOK /\ Core

LEMMA InitIInv == Init => IInv
<1>1. 1 \in Sid /\ 1 \in Tid
  BY SessionsAssumption, RefreshesAssumption DEF Sid, Tid
<1>2. Init => TypeOK
  BY <1>1, IncidentsAssumption, RefreshesAssumption, FreeIsNoSlot
     DEF Init, TypeOK, NoToken, NoRequest, ClosedTab, Token, Request, Tab, None
<1>3. Init => Core
  BY <1>1 DEF Init, Core, RefreshesPresent, Selections, Rotations, PendingOwned,
     NewCommitted, ParentsSpent, AbsentBlank, TokensOwned, LoginsAlone, OneChild,
     OneLiveToken, NoToken, NoRequest, Committed, None
<1> QED BY <1>2, <1>3 DEF IInv

-----------------------------------------------------------------------------
(* Types.                                                                  *)

LEMMA SlotTyped == \A t \in Tabs : <<t, "refresh">> \in Slots /\ <<t, "user">> \in Slots
BY DEF Slots

LEMMA SignedOutTyped ==
  [status |-> "anonymous", mem |-> None, stale |-> FALSE, load |-> FALSE, me |-> None] \in Tab
BY DEF Tab

LEMMA SentTyped ==
  \A kind \in {"refresh", "login", "logout"}, tok \in Tid \cup {None}, sid \in Sid \cup {None} :
    [kind |-> kind, pc |-> "sent", tok |-> tok, sid |-> sid, new |-> None,
     todo |-> {}, res |-> "none"] \in Request
BY DEF Request

LEMMA SettledTyped ==
  ASSUME requests \in [Slots -> Request], NEW r \in Slots, Settled(r)
  PROVE  requests' \in [Slots -> Request]
BY DEF Settled, NoRequest, Request, None

LEMMA TypeStep == IInv /\ [Next]_vars => TypeOK'
<1> SUFFICES ASSUME IInv, [Next]_vars PROVE TypeOK'
  OBVIOUS
<1> USE DEF IInv
<1>1. ASSUME NEW r \in Slots, LoginSession(r) PROVE TypeOK'
  BY <1>1 DEF LoginSession, Move, TypeOK, Request, browser
<1>2. ASSUME NEW r \in Slots, LoginToken(r) PROVE TypeOK'
  BY <1>2 DEF LoginToken, TypeOK, Request, Token, browser
<1>3. ASSUME NEW r \in Slots, RotateRead(r) PROVE TypeOK'
  <2>1. requests[r].tok \in Tid
    BY <1>3 DEF RotateRead, Core, RefreshesPresent
  <2>2. tokens[requests[r].tok].sid \in Sid \cup {None}
    BY <2>1 DEF TypeOK, Token
  <2>3. requests' \in [Slots -> Request]
    <3>1. CASE Move(r, "selected", tokens[requests[r].tok].sid, None, {})
      BY <2>2, <3>1 DEF Move, TypeOK, Request
    <3>2. CASE Reply(r, "no")
      BY <3>2 DEF Reply, TypeOK, Request
    <3> QED BY <1>3, <3>1, <3>2 DEF RotateRead
  <2> QED BY <1>3, <2>3 DEF RotateRead, TypeOK, browser, database
<1>4. ASSUME NEW r \in Slots, RotateReuse(r) PROVE TypeOK'
  BY <1>4 DEF RotateReuse, Goto, Move, TypeOK, Request, browser
<1>5. ASSUME NEW r \in Slots, RotateRevoked(r) PROVE TypeOK'
  BY <1>5 DEF RotateRevoked, Reply, TypeOK, Request, browser, database
<1>6. ASSUME NEW r \in Slots, RotateInsert(r) PROVE TypeOK'
  BY <1>6 DEF RotateInsert, Core, Selections, Move, TypeOK, Request, Token, browser
<1>7. ASSUME NEW r \in Slots, RotateCommit(r) PROVE TypeOK'
  BY <1>7 DEF RotateCommit, Release, Released, Reply, TypeOK, Request, Token, browser
<1>8. ASSUME NEW r \in Slots, LogoutRead(r) PROVE TypeOK'
  BY <1>8 DEF LogoutRead, Move, Reply, TypeOK, Request, Token, browser, database
<1>9. ASSUME NEW r \in Slots, LogoutLock(r) PROVE TypeOK'
  BY <1>9 DEF LogoutLock, Goto, Move, TypeOK, Request, browser
<1>10. ASSUME NEW r \in Slots, SweepStart(r) PROVE TypeOK'
  BY <1>10 DEF SweepStart, RowsToRevoke, Move, TypeOK, Request, browser, database
<1>11. ASSUME NEW r \in Slots, SweepRow(r) PROVE TypeOK'
  BY <1>11 DEF SweepRow, Move, TypeOK, Request, browser
<1>12. ASSUME NEW r \in Slots, SweepCommit(r) PROVE TypeOK'
  BY <1>12 DEF SweepCommit, Swept, Release, Released, Reply, TypeOK, Request, Token, browser
<1>13. ASSUME NEW r \in Slots, RollBack(r), incidents' \in 0..MaxIncidents PROVE TypeOK'
  BY <1>13 DEF RollBack, Release, Released, Reply, TypeOK, Request, Token, NoToken, browser, None
<1>14. ASSUME Incident PROVE incidents' \in 0..MaxIncidents
  BY <1>14, IncidentsAssumption DEF Incident, TypeOK
<1>15. ASSUME NEW r \in Slots, Fail(r) PROVE TypeOK'
  BY <1>15, <1>13, <1>14 DEF Fail
<1>16. ASSUME NEW r \in Slots, DeadlockAbort(r) PROVE TypeOK'
  BY <1>16, <1>13 DEF DeadlockAbort, TypeOK
<1>17. ASSUME NEW r \in Slots, Lose(r) PROVE TypeOK'
  BY <1>17, <1>14 DEF Lose, TypeOK, Request, database
<1>18. ASSUME NEW s, RevokeSessions(s) PROVE TypeOK'
  BY <1>18, <1>14 DEF RevokeSessions, TypeOK, browser
<1>19. \A t \in Tabs : tab[t].mem \in Sid \cup {None} /\ tab[t].me \in Sid \cup {None}
                      /\ tab[t].stale \in BOOLEAN /\ tab[t].load \in BOOLEAN
  BY DEF TypeOK, Tab
<1>20. ASSUME NEW t \in Tabs, Open(t) PROVE TypeOK'
  <2>1. tab' \in [Tabs -> Tab]
    <3>1. [status |-> "loading", mem |-> None, stale |-> FALSE, load |-> TRUE, me |-> None] \in Tab
      BY DEF Tab
    <3> QED BY <1>20, <3>1 DEF Open, Show, TypeOK
  <2>2. requests' \in [Slots -> Request]
    BY <1>20, SlotTyped, SentTyped DEF Open, Send, TypeOK
  <2> QED BY <1>20, <2>1, <2>2, RefreshesAssumption DEF Open, TypeOK, database
<1>21. ASSUME NEW t \in Tabs, OpenSignedOut(t) PROVE TypeOK'
  BY <1>21 DEF OpenSignedOut, Show, TypeOK, Tab, database, None
<1>22. ASSUME NEW t \in Tabs, Close(t) PROVE TypeOK'
  BY <1>22, <1>14 DEF Close, ClosedTab, TypeOK, Tab, database, None
<1>23. ASSUME NEW t \in Tabs, MeAccepted(t) PROVE TypeOK'
  BY <1>23 DEF MeAccepted, Show, TypeOK, Tab, database, None
<1>24. ASSUME NEW t \in Tabs, MeRetried(t) PROVE TypeOK'
  <2>1. tab' \in [Tabs -> Tab]
    <3>1. CASE Accepted(t)
      <4>1. [status |-> "authenticated", mem |-> tab[t].mem, stale |-> FALSE, load |-> FALSE,
             me |-> None] \in Tab
        BY <1>19 DEF Tab
      <4> QED BY <1>24, <3>1, <4>1 DEF MeRetried, Show, TypeOK
    <3>2. CASE ~Accepted(t)
      BY <1>24, <3>2, SignedOutTyped DEF MeRetried, Show, TypeOK
    <3> QED BY <3>1, <3>2
  <2> QED BY <1>24, <2>1 DEF MeRetried, TypeOK, database
<1>25. ASSUME NEW t \in Tabs, FetchRejected(t) PROVE TypeOK'
  BY <1>25 DEF FetchRejected, Show, TypeOK, Tab, database, None
<1>26. ASSUME NEW t \in Tabs, FetchRefresh(t) PROVE TypeOK'
  <2>2. tab' \in [Tabs -> Tab]
    BY <1>26, <1>19 DEF FetchRefresh, Show, TypeOK, Tab, None
  <2>3. requests' \in [Slots -> Request]
    BY <1>26, SlotTyped, SentTyped DEF FetchRefresh, Send, TypeOK
  <2> QED BY <1>26, <2>2, <2>3, RefreshesAssumption DEF FetchRefresh, TypeOK, database
<1>27. ASSUME NEW t \in Tabs, FetchRefused(t) PROVE TypeOK'
  BY <1>27 DEF FetchRefused, Show, TypeOK, Tab, database, None
<1>28. ASSUME NEW t \in Tabs, Expire(t) PROVE TypeOK'
  BY <1>28, <1>14 DEF Expire, Show, TypeOK, Tab, database
<1>29. ASSUME NEW t \in Tabs, Login(t) PROVE TypeOK'
  BY <1>29, SlotTyped DEF Login, Send, TypeOK, Request, database, browser, None
<1>30. ASSUME NEW t \in Tabs, Logout(t) PROVE TypeOK'
  BY <1>30, SlotTyped DEF Logout, Send, TypeOK, Request, Tab, database, browser, None
<1>31. ASSUME NEW r \in Slots PROVE CookieAfter(r) \in Tid \cup {None}
  BY DEF CookieAfter, TypeOK, Request
<1>32. ASSUME NEW t \in Tabs, DeliverRefresh(t) PROVE TypeOK'
  <2>1. requests[<<t, "refresh">>].sid \in Sid \cup {None}
    BY SlotTyped DEF TypeOK, Request
  <2>2. tab' \in [Tabs -> Tab]
    <3>1. CASE requests[<<t, "refresh">>].res = "ok"
      <4>1. \A m \in Sid \cup {None} :
              [status |-> tab[t].status, mem |-> requests[<<t, "refresh">>].sid,
               stale |-> FALSE, load |-> tab[t].load, me |-> m] \in Tab
        BY <2>1 DEF TypeOK, Tab
      <4>2. CASE tab[t].load
        BY <1>32, <2>1, <3>1, <4>1, <4>2 DEF DeliverRefresh, Show, TypeOK
      <4>3. CASE ~tab[t].load
        BY <1>32, <1>19, <3>1, <4>1, <4>3 DEF DeliverRefresh, Show, TypeOK
      <4> QED BY <4>2, <4>3
    <3>2. CASE requests[<<t, "refresh">>].res # "ok"
      BY <1>32, <3>2, SignedOutTyped DEF DeliverRefresh, Show, TypeOK
    <3> QED BY <3>1, <3>2
  <2>3. requests' \in [Slots -> Request]
    BY <1>32, SlotTyped, SettledTyped DEF DeliverRefresh, TypeOK
  <2> QED BY <1>32, <2>2, <2>3, <1>31, SlotTyped DEF DeliverRefresh, TypeOK, database
<1>33. ASSUME NEW t \in Tabs, DeliverLogin(t) PROVE TypeOK'
  <2>1. requests[<<t, "user">>].sid \in Sid \cup {None}
    BY SlotTyped DEF TypeOK, Request
  <2>2. tab' \in [Tabs -> Tab]
    <3>1. CASE requests[<<t, "user">>].res = "ok"
      <4>1. [status |-> "authenticated", mem |-> requests[<<t, "user">>].sid, stale |-> FALSE,
             load |-> tab[t].load, me |-> tab[t].me] \in Tab
        BY <2>1, <1>19 DEF Tab
      <4> QED BY <1>33, <3>1, <4>1 DEF DeliverLogin, Show, TypeOK
    <3>2. CASE requests[<<t, "user">>].res # "ok"
      BY <1>33, <3>2 DEF DeliverLogin, TypeOK
    <3> QED BY <3>1, <3>2
  <2>3. requests' \in [Slots -> Request]
    BY <1>33, SlotTyped, SettledTyped DEF DeliverLogin, TypeOK
  <2> QED BY <1>33, <2>2, <2>3, <1>31, SlotTyped DEF DeliverLogin, TypeOK, database
<1>34. ASSUME NEW t \in Tabs, DeliverLogout(t) PROVE TypeOK'
  <2>1. requests[<<t, "user">>].sid \in Sid \cup {None}
    BY SlotTyped DEF TypeOK, Request
  <2>2. tab' \in [Tabs -> Tab]
    BY <1>34, <2>1, <1>19 DEF DeliverLogout, Show, TypeOK, Tab, None
  <2>3. requests' \in [Slots -> Request]
    BY <1>34, SlotTyped, SettledTyped DEF DeliverLogout, TypeOK
  <2> QED BY <1>34, <2>2, <2>3, <1>31, SlotTyped DEF DeliverLogout, TypeOK, database
<1>35. ASSUME NEW t \in Tabs, NEW k \in {"refresh", "user"}, Abandoned(t, k) PROVE TypeOK'
  BY <1>35, SlotTyped, <1>31 DEF Abandoned, Settled, NoRequest, TypeOK, Request, database, None
<1>36. ASSUME UNCHANGED vars PROVE TypeOK'
  BY <1>36 DEF vars, database, browser, TypeOK
<1>37. ASSUME NEW r \in Slots, Serve(r) PROVE TypeOK'
  BY <1>37, <1>1, <1>2, <1>3, <1>4, <1>5, <1>6, <1>7, <1>8, <1>9, <1>10, <1>11, <1>12 DEF Serve
<1>38. ASSUME NEW t \in Tabs, Deliver(t) \/ Browse(t) PROVE TypeOK'
  BY <1>38, <1>23, <1>24, <1>25, <1>26, <1>27, <1>32, <1>33, <1>34, <1>35 DEF Deliver, Browse
<1>39. ASSUME NEW t \in Tabs, LoadProfile(t) PROVE TypeOK'
  <2>1. tab' \in [Tabs -> Tab]
    <3>1. [status |-> "anonymous", mem |-> None, stale |-> FALSE, load |-> TRUE, me |-> None] \in Tab
      BY DEF Tab
    <3> QED BY <1>39, <3>1 DEF LoadProfile, Show, TypeOK
  <2>2. requests' \in [Slots -> Request]
    BY <1>39, SlotTyped, SentTyped DEF LoadProfile, Send, TypeOK
  <2> QED BY <1>39, <2>1, <2>2, RefreshesAssumption DEF LoadProfile, TypeOK, database
<1>40. ASSUME NEW t \in Tabs, ClearBrowser(t) PROVE TypeOK'
  BY <1>40, <1>14, SlotTyped DEF ClearBrowser, Send, TypeOK, Request, Tab, database, browser, None
<1> QED
  BY <1>15, <1>16, <1>17, <1>18, <1>20, <1>21, <1>22, <1>28, <1>29, <1>30, <1>36, <1>37, <1>38,
     <1>39, <1>40
     DEF Next, Progress, PasswordReset, PasswordChange

-----------------------------------------------------------------------------
(* Steps that leave the rows alone: one request moves on, and no row that  *)
(* another request holds changes hands.                                    *)

LEMMA QuietStep ==
  ASSUME IInv, TypeOK', NEW r \in Slots,
         UNCHANGED <<sessions, tokens>>,
         \A p \in Slots \ {r} : requests'[p] = requests[p],
         requests[r].pc # "rotating",
         requests'[r].pc \notin {"rotating", "inserted"},
         requests'[r].kind = "refresh" /\ requests'[r].pc = "sent" => requests'[r].tok \in Tid,
         requests'[r].pc = "selected" =>
           /\ requests'[r].tok \in Tid /\ Committed(requests'[r].tok)
           /\ tokens[requests'[r].tok].sid = requests'[r].sid,
         requests'[r].new \in {None, requests[r].new},
         \A i \in Tid : tokenLock[i] \in Slots \ {r} => tokenLock'[i] = tokenLock[i]
  PROVE  Core'
<1> USE DEF IInv, Core
<1>1. RefreshesPresent'
  BY DEF RefreshesPresent
<1>2. Selections'
  BY DEF Selections, Committed
<1>3. Rotations'
  BY DEF Rotations
<1>4. PendingOwned'
  BY DEF PendingOwned
<1>5. NewCommitted'
  BY DEF NewCommitted, Committed
<1>6. ParentsSpent' /\ AbsentBlank' /\ TokensOwned' /\ OneChild' /\ OneLiveToken'
  BY DEF ParentsSpent, AbsentBlank, TokensOwned, OneChild, OneLiveToken
<1>7. LoginsAlone'
  BY DEF LoginsAlone
<1> QED BY <1>1, <1>2, <1>3, <1>4, <1>5, <1>6, <1>7

\* The response reaches the browser.
LEMMA SettledStep ==
  ASSUME IInv, TypeOK', NEW r \in Slots, requests[r].pc = "reply", Settled(r),
         UNCHANGED <<sessions, tokens, tokenLock>>
  PROVE  Core'
<1>1. requests \in [Slots -> Request]
  BY DEF IInv, TypeOK
<1>2. requests'[r] = NoRequest /\ \A p \in Slots \ {r} : requests'[p] = requests[p]
  BY <1>1 DEF Settled
<1>3. /\ requests'[r].kind = "none" /\ requests'[r].pc = "idle"
      /\ requests'[r].new = None
  BY <1>2 DEF NoRequest
<1> QED BY <1>2, <1>3, QuietStep

\* The browser sends a request.
LEMMA SendStep ==
  ASSUME IInv, TypeOK', NEW r \in Slots, NEW kind, NEW tok, NEW sid,
         requests[r].pc # "rotating", Send(r, kind, tok, sid),
         kind = "refresh" => tok \in Tid,
         UNCHANGED <<sessions, tokens, tokenLock>>
  PROVE  Core'
<1>1. requests \in [Slots -> Request]
  BY DEF IInv, TypeOK
<1>2. /\ requests'[r].kind = kind /\ requests'[r].pc = "sent"
      /\ requests'[r].tok = tok /\ requests'[r].new = None
      /\ \A p \in Slots \ {r} : requests'[p] = requests[p]
  BY <1>1 DEF Send
<1> QED BY <1>2, QuietStep

LEMMA UnchangedStep ==
  ASSUME IInv, UNCHANGED <<sessions, tokens, tokenLock, requests>>
  PROVE  Core'
BY DEF IInv, Core, RefreshesPresent, Selections, Rotations, PendingOwned, NewCommitted, ParentsSpent,
   AbsentBlank, TokensOwned, LoginsAlone, OneChild, OneLiveToken, Committed

-----------------------------------------------------------------------------
(* Steps that write rows.                                                  *)

LEMMA LoginSessionStep ==
  ASSUME IInv, TypeOK', NEW r \in Slots, LoginSession(r)
  PROVE  Core'
<1> USE DEF IInv, Core
<1>1. PICK s \in Sid : /\ sessions[s] = "absent"
                       /\ sessions' = [sessions EXCEPT ![s] = "live"]
                       /\ Move(r, "inserted", s, None, {})
  BY DEF LoginSession, NextSession
<1>2. /\ UNCHANGED <<tokens, tokenLock>>
      /\ requests[r].pc = "sent"
      /\ requests'[r].pc = "inserted" /\ requests'[r].sid = s /\ requests'[r].new = None
      /\ \A p \in Slots \ {r} : requests'[p] = requests[p]
  BY <1>1 DEF LoginSession, Move, TypeOK
<1>3. \A p \in Sid : p # s => sessions'[p] = sessions[p]
  BY <1>1 DEF TypeOK
<1>4. sessions'[s] = "live"
  BY <1>1 DEF TypeOK
<1>5. RefreshesPresent' /\ Selections' /\ Rotations' /\ PendingOwned' /\ NewCommitted'
  BY <1>2 DEF RefreshesPresent, Selections, Rotations, PendingOwned, NewCommitted, Committed
<1>6. ParentsSpent' /\ AbsentBlank' /\ OneChild' /\ OneLiveToken'
  BY <1>2 DEF ParentsSpent, AbsentBlank, OneChild, OneLiveToken
<1>7. TokensOwned'
  BY <1>2, <1>3, <1>4 DEF TokensOwned, TypeOK, Token
<1>8. \A j \in Tid : tokens[j].sid # s
  BY <1>1 DEF TokensOwned, None, Sid
<1>9. \A q \in Slots : requests[q].pc = "inserted" => requests[q].sid # s
  BY <1>1 DEF LoginsAlone
<1>10. LoginsAlone'
  BY <1>1, <1>2, <1>3, <1>4, <1>8, <1>9 DEF LoginsAlone
<1> QED BY <1>5, <1>6, <1>7, <1>10

LEMMA LoginTokenStep ==
  ASSUME IInv, TypeOK', NEW r \in Slots, LoginToken(r)
  PROVE  Core'
<1> USE DEF IInv, Core
<1>1. PICK i \in Tid : /\ tokens[i].state = "absent"
                       /\ tokens' = [tokens EXCEPT ![i] =
                            [state |-> "live", sid |-> requests[r].sid, parent |-> None]]
                       /\ requests' = [requests EXCEPT ![r] =
                            [kind |-> @.kind, pc |-> "reply", tok |-> None, sid |-> @.sid,
                             new |-> i, todo |-> {}, res |-> "ok"]]
  BY DEF LoginToken, NextToken
<1>2. /\ UNCHANGED <<sessions, tokenLock>>
      /\ requests[r].pc = "inserted"
      /\ requests'[r].pc = "reply" /\ requests'[r].new = i
      /\ \A p \in Slots \ {r} : requests'[p] = requests[p]
  BY <1>1 DEF LoginToken, TypeOK
<1>3. /\ tokens'[i] = [state |-> "live", sid |-> requests[r].sid, parent |-> None]
      /\ \A j \in Tid \ {i} : tokens'[j] = tokens[j]
  BY <1>1 DEF TypeOK
<1>4. RefreshesPresent'
  BY <1>2 DEF RefreshesPresent
<1>5. Selections'
  BY <1>1, <1>2, <1>3 DEF Selections, Committed
<1>6. Rotations'
  BY <1>1, <1>2, <1>3 DEF Rotations
<1>7. PendingOwned'
  BY <1>2, <1>3 DEF PendingOwned
<1>8. NewCommitted'
  BY <1>1, <1>2, <1>3 DEF NewCommitted, Committed
<1>9. ParentsSpent' /\ AbsentBlank' /\ OneChild'
  BY <1>1, <1>3 DEF ParentsSpent, AbsentBlank, OneChild
<1>10. TokensOwned'
  BY <1>2, <1>3 DEF TokensOwned, LoginsAlone
<1>11. OneLiveToken'
  BY <1>2, <1>3 DEF OneLiveToken, LoginsAlone
<1>12. LoginsAlone'
  BY <1>2, <1>3 DEF LoginsAlone
<1> QED BY <1>4, <1>5, <1>6, <1>7, <1>8, <1>9, <1>10, <1>11, <1>12

LEMMA RotateInsertStep ==
  ASSUME IInv, TypeOK', NEW r \in Slots, RotateInsert(r)
  PROVE  Core'
<1> USE DEF IInv, Core
<1> DEFINE i == requests[r].tok
<1>1. PICK j \in Tid : /\ tokens[j].state = "absent"
                       /\ tokens' = [tokens EXCEPT ![j] =
                            [state |-> "pending", sid |-> requests[r].sid, parent |-> i]]
                       /\ Move(r, "rotating", requests[r].sid, j, {})
  BY DEF RotateInsert, NextToken
<1>2. /\ UNCHANGED sessions
      /\ requests[r].pc = "selected"
      /\ tokens[i].state = "live"
      /\ tokenLock[i] \in {Free, r}
      /\ tokenLock' = [tokenLock EXCEPT ![i] = r]
  BY DEF RotateInsert, Available
<1>3. /\ requests'[r].pc = "rotating" /\ requests'[r].new = j /\ requests'[r].tok = i
      /\ requests'[r].sid = requests[r].sid
      /\ \A p \in Slots \ {r} : requests'[p] = requests[p]
  BY <1>1 DEF Move, TypeOK
<1>4. /\ i \in Tid /\ i # j
      /\ tokens[i].sid = requests[r].sid
  BY <1>1, <1>2 DEF Selections
<1>5. /\ tokens'[j] = [state |-> "pending", sid |-> requests[r].sid, parent |-> i]
      /\ \A k \in Tid \ {j} : tokens'[k] = tokens[k]
  BY <1>1 DEF TypeOK
<1>6. /\ tokenLock'[i] = r
      /\ \A k \in Tid \ {i} : tokenLock'[k] = tokenLock[k]
  BY <1>2, <1>4 DEF TypeOK
<1>7. \A p \in Slots : requests[p].pc = "rotating" => requests[p].tok # i /\ requests[p].new # j
  <2> SUFFICES ASSUME NEW p \in Slots, requests[p].pc = "rotating"
               PROVE  requests[p].tok # i /\ requests[p].new # j
    OBVIOUS
  <2>1. p # r
    BY <1>2
  <2>2. tokenLock[requests[p].tok] = p /\ tokens[requests[p].new].state = "pending"
    BY DEF Rotations
  <2>3. requests[p].tok # i
    BY <1>2, <2>1, <2>2, FreeIsNoSlot
  <2>4. requests[p].new # j
    BY <1>1, <2>2
  <2> QED BY <2>3, <2>4
<1>8. \A k \in Tid : tokens[k].parent # i
  <2>1. \A k \in Tid : tokens[k].state = "pending" => tokens[k].parent # i
    <3> SUFFICES ASSUME NEW k \in Tid, tokens[k].state = "pending"
                 PROVE  tokens[k].parent # i
      OBVIOUS
    <3>1. PICK p \in Slots : requests[p].pc = "rotating" /\ requests[p].new = k
      BY DEF PendingOwned
    <3>2. tokens[k].parent = requests[p].tok
      BY <3>1 DEF Rotations
    <3> QED BY <1>7, <3>1, <3>2
  <2> QED BY <2>1, <1>2, <1>4 DEF ParentsSpent, None, Tid
<1>9. RefreshesPresent'
  BY <1>3 DEF RefreshesPresent
<1>10. Selections'
  BY <1>1, <1>3, <1>5 DEF Selections, Committed
<1>11. Rotations'
  BY <1>1, <1>2, <1>3, <1>4, <1>5, <1>6, <1>7 DEF Rotations
<1>12. PendingOwned'
  BY <1>2, <1>3, <1>5 DEF PendingOwned
<1>13. NewCommitted'
  BY <1>1, <1>3, <1>5 DEF NewCommitted, Committed
<1>14. ParentsSpent'
  BY <1>1, <1>4, <1>5 DEF ParentsSpent
<1>15. AbsentBlank'
  BY <1>5 DEF AbsentBlank
<1>16. OneChild'
  BY <1>5, <1>8 DEF OneChild
<1>17. OneLiveToken'
  BY <1>5 DEF OneLiveToken
<1>18. TokensOwned'
  BY <1>2, <1>4, <1>5 DEF TokensOwned
<1>19. LoginsAlone'
  BY <1>2, <1>3, <1>4, <1>5 DEF LoginsAlone
<1> QED BY <1>9, <1>10, <1>11, <1>12, <1>13, <1>14, <1>15, <1>16, <1>17, <1>18, <1>19

LEMMA RotateCommitStep ==
  ASSUME IInv, TypeOK', NEW r \in Slots, RotateCommit(r)
  PROVE  Core'
<1> USE DEF IInv, Core
<1> DEFINE i == requests[r].tok
           j == requests[r].new
<1>1. /\ requests[r].pc = "rotating" /\ i \in Tid /\ j \in Tid
      /\ tokenLock[i] = r
      /\ tokens[i].state = "live" /\ tokens[i].sid = requests[r].sid
      /\ tokens[j].state = "pending" /\ tokens[j].sid = requests[r].sid
      /\ tokens[j].parent = i
  BY DEF RotateCommit, Rotations
<1>2. i # j
  BY <1>1
<1>3. /\ tokens'[i] = [state |-> "spent", sid |-> tokens[i].sid, parent |-> tokens[i].parent]
      /\ tokens'[j] = [state |-> "live", sid |-> tokens[j].sid, parent |-> tokens[j].parent]
      /\ \A k \in Tid \ {i, j} : tokens'[k] = tokens[k]
  BY <1>1, <1>2 DEF RotateCommit, TypeOK
<1>4. /\ UNCHANGED sessions
      /\ requests'[r].pc = "reply" /\ requests'[r].new = j
      /\ \A p \in Slots \ {r} : requests'[p] = requests[p]
  BY DEF RotateCommit, Reply, TypeOK
<1>5. \A k \in Tid : tokenLock[k] # r => tokenLock'[k] = tokenLock[k]
  BY DEF RotateCommit, Release, Released, TypeOK
<1>6. \A p \in Slots \ {r} : requests[p].pc = "rotating"
                               => /\ requests[p].tok \notin {i, j}
                                  /\ requests[p].new \notin {i, j}
  <2> SUFFICES ASSUME NEW p \in Slots \ {r}, requests[p].pc = "rotating"
               PROVE  requests[p].tok \notin {i, j} /\ requests[p].new \notin {i, j}
    OBVIOUS
  <2>1. /\ tokenLock[requests[p].tok] = p /\ tokens[requests[p].tok].state = "live"
        /\ tokens[requests[p].new].state = "pending"
        /\ tokens[requests[p].new].parent = requests[p].tok
    BY DEF Rotations
  <2>2. requests[p].tok # i
    BY <1>1, <2>1
  <2>3. requests[p].tok # j /\ requests[p].new # i
    BY <1>1, <2>1
  <2>4. requests[p].new # j
    BY <1>1, <2>1, <2>2
  <2> QED BY <2>2, <2>3, <2>4
<1>7. RefreshesPresent'
  BY <1>4 DEF RefreshesPresent
<1>8. Selections'
  BY <1>1, <1>3, <1>4 DEF Selections, Committed
<1>9. Rotations'
  <2> SUFFICES ASSUME NEW p \in Slots, requests'[p].pc = "rotating"
               PROVE  /\ requests[p].tok \in Tid /\ requests[p].new \in Tid
                      /\ tokenLock'[requests[p].tok] = p
                      /\ tokens'[requests[p].tok].state = "live"
                      /\ tokens'[requests[p].tok].sid = requests[p].sid
                      /\ tokens'[requests[p].new].state = "pending"
                      /\ tokens'[requests[p].new].sid = requests[p].sid
                      /\ tokens'[requests[p].new].parent = requests[p].tok
                      /\ requests'[p] = requests[p]
    BY DEF Rotations
  <2>1. p # r /\ requests'[p] = requests[p]
    BY <1>4
  <2>2. /\ requests[p].tok \in Tid \ {i, j} /\ requests[p].new \in Tid \ {i, j}
        /\ tokenLock[requests[p].tok] = p
    BY <1>6, <2>1 DEF Rotations
  <2> QED BY <1>3, <1>5, <2>1, <2>2 DEF Rotations
<1>10. PendingOwned'
  BY <1>1, <1>3, <1>4 DEF PendingOwned
<1>11. NewCommitted'
  BY <1>1, <1>3, <1>4 DEF NewCommitted, Committed
<1>12. \A k \in Tid : tokens'[k].parent = tokens[k].parent /\ tokens'[k].sid = tokens[k].sid
  BY <1>1, <1>3
<1>13. ParentsSpent'
  <2>1. \A k \in Tid : tokens[k].state = "spent" => tokens'[k].state = "spent"
    BY <1>1, <1>3
  <2>2. \A k \in Tid \ {j} : tokens'[k].state = "pending" <=> tokens[k].state = "pending"
    BY <1>1, <1>3
  <2> QED BY <1>1, <1>3, <1>12, <2>1, <2>2 DEF ParentsSpent
<1>14. AbsentBlank'
  BY <1>3 DEF AbsentBlank
<1>15. OneChild'
  BY <1>12 DEF OneChild
<1>16. OneLiveToken'
  BY <1>1, <1>3 DEF OneLiveToken
<1>17. TokensOwned' /\ LoginsAlone'
  BY <1>4, <1>12 DEF TokensOwned, LoginsAlone
<1> QED BY <1>7, <1>8, <1>9, <1>10, <1>11, <1>13, <1>14, <1>15, <1>16, <1>17

LEMMA SweepCommitStep ==
  ASSUME IInv, TypeOK', NEW r \in Slots, SweepCommit(r)
  PROVE  Core'
<1> USE DEF IInv, Core
<1>1. /\ requests[r].pc = "sweeping"
      /\ requests'[r].pc = "reply" /\ requests'[r].new \in {None, requests[r].new}
      /\ \A p \in Slots \ {r} : requests'[p] = requests[p]
  BY DEF SweepCommit, Reply, TypeOK
<1>2. \A k \in Tid : /\ tokens'[k].parent = tokens[k].parent /\ tokens'[k].sid = tokens[k].sid
                     /\ tokenLock[k] = r /\ tokens[k].state = "live"
                          => tokens'[k].state = "revoked"
                     /\ ~(tokenLock[k] = r /\ tokens[k].state = "live")
                          => tokens'[k] = tokens[k]
  BY DEF SweepCommit, Swept
<1>3. \A s \in Sid : sessions[s] # "absent" => sessions'[s] # "absent"
  BY DEF SweepCommit, TypeOK
<1>4. \A k \in Tid : tokenLock[k] # r => tokenLock'[k] = tokenLock[k]
  BY DEF SweepCommit, Release, Released, TypeOK
<1>5. RefreshesPresent'
  BY <1>1 DEF RefreshesPresent
<1>6. Selections'
  BY <1>1, <1>2 DEF Selections, Committed
<1>7. Rotations'
  <2> SUFFICES ASSUME NEW p \in Slots, requests'[p].pc = "rotating"
               PROVE  /\ requests[p].tok \in Tid /\ requests[p].new \in Tid
                      /\ tokenLock'[requests[p].tok] = p
                      /\ tokens'[requests[p].tok].state = "live"
                      /\ tokens'[requests[p].tok].sid = requests[p].sid
                      /\ tokens'[requests[p].new].state = "pending"
                      /\ tokens'[requests[p].new].sid = requests[p].sid
                      /\ tokens'[requests[p].new].parent = requests[p].tok
                      /\ requests'[p] = requests[p]
    BY DEF Rotations
  <2>1. p # r /\ requests'[p] = requests[p]
    BY <1>1
  <2>2. /\ requests[p].tok \in Tid /\ requests[p].new \in Tid
        /\ tokenLock[requests[p].tok] = p
        /\ tokens[requests[p].new].state = "pending"
    BY <2>1 DEF Rotations
  <2> QED BY <1>2, <1>4, <2>1, <2>2 DEF Rotations
<1>8. PendingOwned'
  BY <1>1, <1>2 DEF PendingOwned
<1>9. NewCommitted'
  BY <1>1, <1>2 DEF NewCommitted, Committed
<1>10. ParentsSpent' /\ AbsentBlank' /\ OneChild' /\ OneLiveToken'
  BY <1>2 DEF ParentsSpent, AbsentBlank, OneChild, OneLiveToken
<1>11. TokensOwned'
  BY <1>2, <1>3 DEF TokensOwned, TypeOK, Token
<1>12. LoginsAlone'
  BY <1>1, <1>2, <1>3 DEF LoginsAlone
<1> QED BY <1>5, <1>6, <1>7, <1>8, <1>9, <1>10, <1>11, <1>12

LEMMA RollBackStep ==
  ASSUME IInv, TypeOK', NEW r \in Slots, RollBack(r)
  PROVE  Core'
<1> USE DEF IInv, Core
<1>1. /\ UNCHANGED sessions
      /\ requests'[r].pc = "reply" /\ requests'[r].new = None
      /\ \A p \in Slots \ {r} : requests'[p] = requests[p]
  BY DEF RollBack, Reply, TypeOK
<1>2. \A k \in Tid : /\ tokens[k].state = "pending" /\ requests[r].new = k => tokens'[k] = NoToken
                     /\ ~(tokens[k].state = "pending" /\ requests[r].new = k)
                          => tokens'[k] = tokens[k]
  BY DEF RollBack
<1>3. \A k \in Tid : tokenLock[k] # r => tokenLock'[k] = tokenLock[k]
  BY DEF RollBack, Release, Released, TypeOK
<1>4. \A k \in Tid : tokens[k].state = "pending" /\ requests[r].new = k
                       => requests[r].pc = "rotating"
  BY DEF NewCommitted, Committed, None, Tid
<1>5. RefreshesPresent'
  BY <1>1 DEF RefreshesPresent
<1>6. Selections'
  BY <1>1, <1>2 DEF Selections, Committed
<1>7. \A p \in Slots \ {r} : requests[p].pc = "rotating" /\ requests[r].pc = "rotating"
                               => requests[p].new # requests[r].new
  BY DEF Rotations
<1>8. Rotations'
  <2> SUFFICES ASSUME NEW p \in Slots, requests'[p].pc = "rotating"
               PROVE  /\ requests[p].tok \in Tid /\ requests[p].new \in Tid
                      /\ tokenLock'[requests[p].tok] = p
                      /\ tokens'[requests[p].tok].state = "live"
                      /\ tokens'[requests[p].tok].sid = requests[p].sid
                      /\ tokens'[requests[p].new].state = "pending"
                      /\ tokens'[requests[p].new].sid = requests[p].sid
                      /\ tokens'[requests[p].new].parent = requests[p].tok
                      /\ requests'[p] = requests[p]
    BY DEF Rotations
  <2>1. p # r /\ requests'[p] = requests[p]
    BY <1>1
  <2>2. /\ requests[p].tok \in Tid /\ requests[p].new \in Tid
        /\ tokenLock[requests[p].tok] = p
        /\ tokens[requests[p].tok].state = "live"
        /\ tokens[requests[p].new].state = "pending"
    BY <2>1 DEF Rotations
  <2>3. requests[p].new # requests[r].new
    BY <1>4, <1>7, <2>1, <2>2
  <2> QED BY <1>2, <1>3, <2>1, <2>2, <2>3 DEF Rotations
<1>9. PendingOwned'
  <2> SUFFICES ASSUME NEW k \in Tid, tokens'[k].state = "pending"
               PROVE  \E p \in Slots : requests'[p].pc = "rotating" /\ requests'[p].new = k
    BY DEF PendingOwned
  <2>1. tokens[k].state = "pending" /\ requests[r].new # k
    BY <1>2 DEF NoToken
  <2>2. PICK p \in Slots : requests[p].pc = "rotating" /\ requests[p].new = k
    BY <2>1 DEF PendingOwned
  <2> QED BY <1>1, <2>1, <2>2
<1>10. NewCommitted'
  BY <1>1, <1>2 DEF NewCommitted, Committed
<1>11. ParentsSpent' /\ AbsentBlank' /\ OneChild' /\ OneLiveToken'
  BY <1>2 DEF ParentsSpent, AbsentBlank, OneChild, OneLiveToken, NoToken, None
<1>12. TokensOwned'
  BY <1>1, <1>2 DEF TokensOwned, NoToken
<1>13. LoginsAlone'
  BY <1>1, <1>2 DEF LoginsAlone, NoToken, None, Sid
<1> QED BY <1>5, <1>6, <1>8, <1>9, <1>10, <1>11, <1>12, <1>13

LEMMA RevokeSessionsStep ==
  ASSUME IInv, TypeOK', NEW s, RevokeSessions(s)
  PROVE  Core'
<1> USE DEF IInv, Core
<1>1. UNCHANGED <<tokens, tokenLock, requests>>
  BY DEF RevokeSessions
<1>2. \A p \in Sid : sessions[p] # "absent" => sessions'[p] # "absent"
  BY DEF RevokeSessions
<1>3. TokensOwned' /\ LoginsAlone'
  BY <1>1, <1>2 DEF TokensOwned, LoginsAlone, TypeOK, Token
<1> QED
  BY <1>1, <1>3 DEF RefreshesPresent, Selections, Rotations, PendingOwned, NewCommitted,
     ParentsSpent, AbsentBlank, OneChild, OneLiveToken, Committed

-----------------------------------------------------------------------------
LEMMA CoreStep == IInv /\ [Next]_vars => Core'
<1> SUFFICES ASSUME IInv, [Next]_vars PROVE Core'
  OBVIOUS
<1>1. TypeOK'
  BY TypeStep
<1>2. TypeOK /\ Core
  BY DEF IInv
<1>3. ASSUME NEW r \in Slots, RotateRead(r) PROVE Core'
  BY <1>1, <1>2, <1>3, QuietStep DEF RotateRead, Move, Reply, TypeOK, database, Core, RefreshesPresent
<1>4. ASSUME NEW r \in Slots, RotateReuse(r) PROVE Core'
  <2>1. /\ requests[r].pc = "selected" /\ UNCHANGED <<sessions, tokens>>
        /\ requests'[r].pc = "revoking" /\ requests'[r].new = requests[r].new
        /\ \A p \in Slots \ {r} : requests'[p] = requests[p]
    BY <1>2, <1>4 DEF RotateReuse, Goto, Move, TypeOK
  <2>2. \A i \in Tid : tokenLock[i] \in Slots \ {r} => tokenLock'[i] = tokenLock[i]
    BY <1>2, <1>4, FreeIsNoSlot DEF RotateReuse, Available, TypeOK
  <2> QED BY <1>1, <2>1, <2>2, QuietStep
<1>5. ASSUME NEW r \in Slots, RotateRevoked(r) PROVE Core'
  BY <1>1, <1>2, <1>5, QuietStep DEF RotateRevoked, Reply, TypeOK, database
<1>6. ASSUME NEW r \in Slots, LogoutRead(r) PROVE Core'
  BY <1>1, <1>2, <1>6, QuietStep DEF LogoutRead, Move, Reply, TypeOK, database
<1>7. ASSUME NEW r \in Slots, LogoutLock(r) PROVE Core'
  BY <1>1, <1>2, <1>7, QuietStep DEF LogoutLock, Goto, Move, TypeOK
<1>8. ASSUME NEW r \in Slots, SweepStart(r) PROVE Core'
  BY <1>1, <1>2, <1>8, QuietStep DEF SweepStart, Move, TypeOK, database
<1>9. ASSUME NEW r \in Slots, SweepRow(r) PROVE Core'
  BY <1>1, <1>2, <1>9, QuietStep, FreeIsNoSlot DEF SweepRow, Move, Available, TypeOK
<1>10. ASSUME NEW r \in Slots, Lose(r) PROVE Core'
  BY <1>1, <1>2, <1>10, QuietStep DEF Lose, TypeOK, database
<1>11. ASSUME NEW t \in Tabs, Open(t) PROVE Core'
  BY <1>1, <1>2, <1>11, SlotTyped, QuietStep DEF Open, Quiet, Send, TypeOK, database
<1>12. ASSUME NEW t \in Tabs, FetchRefresh(t) PROVE Core'
  BY <1>1, <1>2, <1>12, SlotTyped, QuietStep DEF FetchRefresh, Tokenless, Send, TypeOK, database
<1>13. ASSUME NEW t \in Tabs, Login(t) \/ Logout(t) \/ ClearBrowser(t) PROVE Core'
  <2>1. UNCHANGED <<sessions, tokens, tokenLock>>
    BY <1>13 DEF Login, Logout, ClearBrowser, database
  <2>2. PICK r \in Slots, kind \in {"login", "logout"} :
          requests[r].pc = "idle" /\ \E tok, sid : Send(r, kind, tok, sid)
    BY <1>13, SlotTyped DEF Login, Logout, ClearBrowser
  <2>3. requests[r].pc # "rotating" /\ kind # "refresh"
    BY <2>2
  <2> QED BY <1>1, <2>1, <2>2, <2>3, SendStep
<1>14. ASSUME NEW t \in Tabs, Deliver(t) PROVE Core'
  <2>1. UNCHANGED database
    BY <1>14 DEF Deliver, DeliverRefresh, DeliverLogin, DeliverLogout, Abandoned
  <2>2. PICK r \in Slots : requests[r].pc = "reply" /\ Settled(r)
    BY <1>14, SlotTyped DEF Deliver, DeliverRefresh, DeliverLogin, DeliverLogout, Abandoned
  <2> QED BY <1>1, <2>1, <2>2, SettledStep DEF database
<1>15. ASSUME NEW t \in Tabs,
              \/ OpenSignedOut(t) \/ Close(t) \/ Expire(t)
              \/ MeAccepted(t) \/ MeRetried(t) \/ FetchRejected(t) \/ FetchRefused(t)
       PROVE  Core'
  BY <1>15, UnchangedStep DEF OpenSignedOut, Close, Expire, MeAccepted, MeRetried, FetchRejected,
     FetchRefused, database
<1>16. ASSUME NEW r \in Slots, Fail(r) \/ DeadlockAbort(r) PROVE Core'
  BY <1>1, <1>16, RollBackStep DEF Fail, DeadlockAbort
<1>17. ASSUME NEW t \in Tabs, PasswordChange(t) PROVE Core'
  BY <1>1, <1>17, RevokeSessionsStep DEF PasswordChange
<1>18. ASSUME PasswordReset PROVE Core'
  BY <1>1, <1>18, RevokeSessionsStep DEF PasswordReset
<1>19. ASSUME NEW r \in Slots, Serve(r) PROVE Core'
  BY <1>1, <1>3, <1>4, <1>5, <1>6, <1>7, <1>8, <1>9, <1>19, LoginSessionStep, LoginTokenStep,
     RotateInsertStep, RotateCommitStep, SweepCommitStep DEF Serve
<1>20. ASSUME UNCHANGED vars PROVE Core'
  BY <1>20, UnchangedStep DEF vars, database
<1>21. ASSUME NEW t \in Tabs, LoadProfile(t) PROVE Core'
  <2>1. requests[<<t, "refresh">>].pc # "rotating" /\ cookie \in Tid
    BY <1>2, <1>21 DEF LoadProfile, TypeOK
  <2> QED BY <1>1, <1>21, <2>1, SlotTyped, SendStep DEF LoadProfile, database
<1> QED
  BY <1>10, <1>11, <1>12, <1>13, <1>14, <1>15, <1>16, <1>17, <1>18, <1>19, <1>20,
     <1>21 DEF Next, Progress, Browse

\* Every variable keeps its type, whatever the requests of any number of tabs do.
THEOREM TypeCorrect == Spec => []TypeOK
<1>1. IInv /\ [Next]_vars => IInv'
  BY TypeStep, CoreStep DEF IInv
<1>2. IInv => TypeOK
  BY DEF IInv
<1> QED BY InitIInv, <1>1, <1>2, PTL DEF Spec

\* rotateRefreshToken rotates a token at most once, however many requests present it
\* and in whatever order their transactions run.
THEOREM TokensRotateOnce == Spec => []OneChild
<1>1. IInv /\ [Next]_vars => IInv'
  BY TypeStep, CoreStep DEF IInv
<1>2. IInv => OneChild
  BY DEF IInv, Core
<1> QED BY InitIInv, <1>1, <1>2, PTL DEF Spec

\* A session never has two refresh tokens that are neither used nor revoked.
THEOREM SessionsHaveOneToken == Spec => []OneLiveToken
<1>1. IInv /\ [Next]_vars => IInv'
  BY TypeStep, CoreStep DEF IInv
<1>2. IInv => OneLiveToken
  BY DEF IInv, Core
<1> QED BY InitIInv, <1>1, <1>2, PTL DEF Spec

-----------------------------------------------------------------------------
(* The cookie and the logout.                                              *)
(*                                                                         *)
(* A token is named by one response until that is delivered or lost, and   *)
(* the browser presents it only then: so no older response can bring back  *)
(* a token that was used.  A logout holds its session's row, or finds the  *)
(* session revoked, and the rows it has locked or listed are all a rotation*)
(* of that session can still start from.                                   *)

CookieKnown == cookie # None => cookie \in Tid /\ Committed(cookie)

PresentedKnown == \A r \in Slots : requests[r].tok # None => Committed(requests[r].tok)

\* A token on its way to the browser: nobody else names it, has presented it, or used it.
Issues(r) == requests[r].new # None =>
  /\ requests[r].pc \in {"rotating", "reply"}
  /\ requests[r].pc = "reply" => requests[r].res = "ok" /\ requests[r].kind # "logout"
  /\ \A q \in Slots : /\ requests[q].tok # requests[r].new
                      /\ requests[q].new = requests[r].new => q = r
  /\ cookie # requests[r].new
  /\ tokens[requests[r].new].state # "spent"
  /\ \A i \in Tid : tokens[i].parent # requests[r].new

TokensHaveSessions == \A i \in Tid : tokens[i].state # "absent" => tokens[i].sid \in Sid

RevokedEnded ==
  \A i \in Tid : tokens[i].state = "revoked" => sessions[tokens[i].sid] = "revoked"

\* Who holds or is about to lock a row is about its session.
LocksOwned ==
  \A i \in Tid, r \in Slots : tokenLock[i] = r =>
    /\ requests[r].pc \in {"rotating", "revoking", "sweeping"}
    /\ Committed(i) /\ tokens[i].sid = requests[r].sid

TodoOwned ==
  \A r \in Slots : \A i \in requests[r].todo :
    Committed(i) /\ tokens[i].sid = requests[r].sid /\ requests[r].pc = "sweeping"

CookieInv ==
  /\ CookieKnown /\ PresentedKnown /\ TokensHaveSessions /\ RevokedEnded
  /\ LocksOwned /\ TodoOwned /\ CookieIsCurrent
  /\ \A r \in Slots : Issues(r)

HasToken(s) == \E i \in Tid : Committed(i) /\ tokens[i].sid = s

\* A session that somebody knows of has a token, unless its login is not over or failed.
MemKnown(t) == tab[t].mem # None => HasToken(tab[t].mem)

SidKnown(r) ==
  /\ requests[r].sid # None
  /\ requests[r].pc # "inserted"
  /\ requests[r].pc = "reply" => requests[r].res = "ok"
  => HasToken(requests[r].sid)

Kinds(r) ==
  /\ requests[r].pc \in {"selected", "rotating"} => requests[r].kind = "refresh"
  /\ requests[r].pc = "inserted" => requests[r].kind = "login"
  /\ requests[r].pc = "ending" => /\ requests[r].sid \in Sid
                                  /\ sessions[requests[r].sid] # "absent"

Ending(q) == requests[q].kind = "logout" /\ requests[q].pc \in {"revoking", "sweeping"}

Holds(q) == Ending(q) =>
  /\ requests[q].sid \in Sid
  /\ \/ sessionLock[requests[q].sid] = q /\ sessions[requests[q].sid] = "live"
     \/ sessions[requests[q].sid] = "revoked"

Rotates(r, i) == requests[r].pc \in {"selected", "rotating"} /\ requests[r].tok = i

Covers(q) == Ending(q) /\ requests[q].pc = "sweeping" =>
  \A i \in Tid :
    /\ tokens[i].state = "live" /\ tokens[i].sid = requests[q].sid
    /\ sessions[tokens[i].sid] = "live" \/ \E r \in Slots : Rotates(r, i)
    => i \in requests[q].todo \/ tokenLock[i] = q

\* Once a logout has committed, nothing in flight can rotate a token of its session.
Over(q) ==
  requests[q].kind = "logout" /\ requests[q].pc = "reply" /\ requests[q].res = "ok" =>
    /\ requests[q].sid \in Sid /\ sessions[requests[q].sid] = "revoked"
    /\ \A r \in Slots, i \in Tid :
         Rotates(r, i) /\ requests[r].sid = requests[q].sid => tokens[i].state # "live"

LogoutInv ==
  /\ \A t \in Tabs : MemKnown(t)
  /\ \A r \in Slots : SidKnown(r) /\ Kinds(r) /\ Holds(r) /\ Covers(r) /\ Over(r)

-----------------------------------------------------------------------------
(* What the helpers of the actions do to the requests.                     *)

LEMMA MoveFields ==
  ASSUME requests \in [Slots -> Request], NEW r \in Slots, NEW pc, NEW sid, NEW new, NEW todo,
         Move(r, pc, sid, new, todo)
  PROVE  /\ requests'[r].kind = requests[r].kind
         /\ requests'[r].pc = pc /\ requests'[r].sid = sid
         /\ requests'[r].new = new /\ requests'[r].todo = todo /\ requests'[r].res = "none"
         /\ requests'[r].tok = IF pc \in {"selected", "rotating"} THEN requests[r].tok ELSE None
         /\ \A q \in Slots \ {r} : requests'[q] = requests[q]
BY DEF Move

LEMMA ReplyFields ==
  ASSUME requests \in [Slots -> Request], NEW r \in Slots, NEW res, Reply(r, res)
  PROVE  /\ requests'[r].kind = requests[r].kind
         /\ requests'[r].pc = "reply" /\ requests'[r].sid = requests[r].sid
         /\ requests'[r].new = IF res = "ok" THEN requests[r].new ELSE None
         /\ requests'[r].todo = {} /\ requests'[r].res = res /\ requests'[r].tok = None
         /\ \A q \in Slots \ {r} : requests'[q] = requests[q]
BY DEF Reply

LEMMA SendFields ==
  ASSUME requests \in [Slots -> Request], NEW r \in Slots, NEW kind, NEW tok, NEW sid,
         Send(r, kind, tok, sid)
  PROVE  /\ requests'[r].kind = kind
         /\ requests'[r].pc = "sent" /\ requests'[r].sid = sid
         /\ requests'[r].new = None /\ requests'[r].todo = {} /\ requests'[r].tok = tok
         /\ \A q \in Slots \ {r} : requests'[q] = requests[q]
BY DEF Send

LEMMA SettledFields ==
  ASSUME requests \in [Slots -> Request], NEW r \in Slots, Settled(r)
  PROVE  /\ requests'[r].kind = "none"
         /\ requests'[r].pc = "idle" /\ requests'[r].sid = None
         /\ requests'[r].new = None /\ requests'[r].todo = {} /\ requests'[r].tok = None
         /\ \A q \in Slots \ {r} : requests'[q] = requests[q]
BY DEF Settled, NoRequest

-----------------------------------------------------------------------------
(* Steps that leave the sessions and the tokens as they are.               *)

Tame(r) ==
  /\ UNCHANGED <<sessions, tokens>>
  /\ \A q \in Slots \ {r} : requests'[q] = requests[q]
  /\ requests[r].pc # "rotating" /\ requests'[r].pc \notin {"rotating", "inserted"}
  /\ requests'[r].tok \in {None, cookie, requests[r].tok}
  /\ requests'[r].new = None
  /\ requests'[r].pc = "reply" => requests'[r].res # "ok"
  /\ undelivered \subseteq undelivered'
  /\ cookie' \in {cookie, None, requests[r].new}
  /\ requests[r].new # None => requests[r].new = cookie' \/ requests[r].new \in undelivered'
  /\ \A i \in Tid : \/ tokenLock'[i] = tokenLock[i]
                    \/ tokenLock[i] = Free /\ tokenLock'[i] = r
  /\ \A i \in Tid : tokenLock'[i] = r =>
       /\ requests'[r].pc \in {"revoking", "sweeping"}
       /\ Committed(i) /\ tokens[i].sid = requests'[r].sid
  /\ \A i \in requests'[r].todo :
       Committed(i) /\ tokens[i].sid = requests'[r].sid /\ requests'[r].pc = "sweeping"
  /\ \A s \in Sid : \/ sessionLock'[s] = sessionLock[s]
                    \/ sessionLock[s] = Free /\ sessionLock'[s] = r
  /\ \A t \in Tabs : tab'[t].mem \in {None, tab[t].mem} \/ HasToken(tab'[t].mem)
  /\ requests'[r].pc = "selected" =>
       /\ requests'[r].tok \in Tid /\ sessions[requests'[r].sid] = "live"
       /\ tokens[requests'[r].tok].sid = requests'[r].sid
  /\ SidKnown(r)' /\ Kinds(r)' /\ Holds(r)' /\ Covers(r)'

LEMMA TameCookie ==
  ASSUME IInv, TypeOK', CookieInv, NEW r \in Slots, Tame(r)
  PROVE  CookieInv'
<1>0. \A q \in Slots : requests[q].new = None \/ requests[q].new \in Tid
  BY DEF IInv, TypeOK, Request
<1>1. CookieKnown'
  BY DEF Tame, CookieInv, CookieKnown, Committed, IInv, Core, NewCommitted
<1>2. PresentedKnown'
  BY DEF Tame, CookieInv, PresentedKnown, CookieKnown, Committed
<1>3. TokensHaveSessions' /\ RevokedEnded'
  BY DEF Tame, CookieInv, TokensHaveSessions, RevokedEnded
<1>4. LocksOwned'
  BY FreeIsNoSlot DEF Tame, CookieInv, LocksOwned, Committed
<1>5. TodoOwned'
  BY DEF Tame, CookieInv, TodoOwned, Committed
<1>6. ASSUME NEW q \in Slots
      PROVE  Issues(q)'
  <2>1. CASE q = r
    BY <2>1 DEF Tame, Issues
  <2>2. CASE q # r
    <3>1. requests'[q] = requests[q] /\ Issues(q) /\ UNCHANGED tokens
      BY <2>2 DEF Tame, CookieInv
    <3>2. SUFFICES ASSUME requests[q].new # None
                   PROVE  Issues(q)'
      BY <3>1 DEF Issues
    <3>3. cookie' # requests[q].new
      BY <2>2, <3>1, <3>2 DEF Tame, Issues
    <3>4. \A p \in Slots : /\ requests'[p].tok # requests[q].new
                           /\ requests'[p].new = requests[q].new => p = q
      BY <3>1, <3>2 DEF Tame, Issues
    <3> QED
      BY <3>1, <3>2, <3>3, <3>4 DEF Issues
  <2> QED
    BY <2>1, <2>2
<1>7. CookieIsCurrent'
  <2> SUFFICES ASSUME cookie' # None, sessions[tokens[cookie'].sid] = "live",
                      tokens[cookie'].state # "live"
               PROVE  \E i \in Tid :
                        /\ tokens[i].parent = cookie'
                        /\ i \in undelivered' \/ \E q \in Slots : requests'[q].new = i
    BY DEF CookieIsCurrent, Tame
  <2>1. CASE cookie' = cookie
    <3>1. PICK i \in Tid : /\ tokens[i].parent = cookie
                           /\ i \in undelivered \/ \E q \in Slots : requests[q].new = i
      BY <2>1 DEF CookieInv, CookieIsCurrent
    <3>2. CASE i \in undelivered
      BY <2>1, <3>1, <3>2 DEF Tame
    <3>3. ASSUME NEW q \in Slots, requests[q].new = i
          PROVE  i \in undelivered' \/ \E p \in Slots : requests'[p].new = i
      <4>1. CASE q = r
        BY <2>1, <3>3, <4>1, <1>0 DEF Tame, CookieInv, Issues, Tid, None
      <4>2. CASE q # r
        BY <3>3, <4>2 DEF Tame
      <4> QED
        BY <4>1, <4>2
    <3> QED
      BY <2>1, <3>1, <3>2, <3>3
  <2>2. CASE cookie' = requests[r].new
    <3>1. Committed(cookie') /\ cookie' \in Tid
      BY <2>2 DEF Tame, IInv, Core, NewCommitted
    <3>2. tokens[cookie'].state # "spent"
      BY <2>2 DEF CookieInv, Issues
    <3>3. tokens[cookie'].state = "revoked"
      BY <3>1, <3>2 DEF Committed, IInv, TypeOK, Token
    <3> QED
      BY <3>1, <3>3 DEF CookieInv, RevokedEnded
  <2> QED
    BY <2>1, <2>2 DEF Tame
<1> QED
  BY <1>1, <1>2, <1>3, <1>4, <1>5, <1>6, <1>7 DEF CookieInv

LEMMA TameLogout ==
  ASSUME IInv, TypeOK', CookieInv, LogoutInv, NEW r \in Slots, Tame(r)
  PROVE  LogoutInv'
<1>0. \A s : HasToken(s)' = HasToken(s)
  BY DEF Tame, HasToken, Committed
<1>1. ASSUME NEW t \in Tabs
      PROVE  MemKnown(t)'
  BY <1>0 DEF Tame, LogoutInv, MemKnown
<1>2. ASSUME NEW q \in Slots, q # r
      PROVE  SidKnown(q)' /\ Kinds(q)' /\ Holds(q)' /\ Covers(q)' /\ Over(q)'
  <2>0. /\ requests'[q] = requests[q] /\ UNCHANGED <<sessions, tokens>>
        /\ SidKnown(q) /\ Kinds(q) /\ Holds(q) /\ Covers(q) /\ Over(q)
    BY <1>2 DEF Tame, LogoutInv
  <2>1. SidKnown(q)' /\ Kinds(q)'
    BY <1>0, <2>0 DEF SidKnown, Kinds
  <2>2. Holds(q)'
    BY <1>2, <2>0, FreeIsNoSlot DEF Tame, Holds, Ending
  <2>3. \A p \in Slots, i \in Tid :
          Rotates(p, i)' => Rotates(p, i) \/ sessions[tokens[i].sid] = "live"
    BY DEF Tame, Rotates
  <2>4. Covers(q)'
    <3>1. \A i \in Tid : tokenLock[i] = q => tokenLock'[i] = q
      BY FreeIsNoSlot DEF Tame
    <3> QED
      BY <2>0, <2>3, <3>1 DEF Covers, Ending
  <2>5. Over(q)'
    <3>1. \A p \in Slots, i \in Tid :
            Rotates(p, i)' => \/ Rotates(p, i) /\ requests'[p].sid = requests[p].sid
                              \/ sessions[requests'[p].sid] = "live"
      BY DEF Tame, Rotates
    <3> QED
      BY <2>0, <3>1 DEF Over
  <2> QED
    BY <2>1, <2>2, <2>4, <2>5
<1>3. SidKnown(r)' /\ Kinds(r)' /\ Holds(r)' /\ Covers(r)' /\ Over(r)'
  BY DEF Tame, Over
<1> QED
  BY <1>1, <1>2, <1>3 DEF LogoutInv

LEMMA TameTyped ==
  ASSUME IInv, CookieInv, NEW r \in Slots
  PROVE  /\ requests \in [Slots -> Request]
         /\ \A i \in Tid : tokenLock[i] = r => requests[r].pc \in {"rotating", "revoking", "sweeping"}
         /\ requests[r].new # None => requests[r].pc \in {"rotating", "reply"}
         /\ requests[r].pc = "reply" /\ requests[r].new # None =>
              requests[r].res = "ok" /\ requests[r].kind # "logout"
BY DEF IInv, TypeOK, CookieInv, LocksOwned, Issues

LEMMA SendTame ==
  ASSUME IInv, CookieInv, LogoutInv, NEW r \in Slots, requests[r].pc = "idle",
         NEW kind, NEW tok \in {None, cookie}, NEW sid, Send(r, kind, tok, sid),
         sid # None => HasToken(sid),
         UNCHANGED <<database, cookie, undelivered>>,
         \A t \in Tabs : tab'[t].mem \in {None, tab[t].mem}
  PROVE  Tame(r)
<1>1. /\ requests'[r].pc = "sent" /\ requests'[r].sid = sid
      /\ requests'[r].new = None /\ requests'[r].todo = {} /\ requests'[r].tok = tok
      /\ \A q \in Slots \ {r} : requests'[q] = requests[q]
  BY TameTyped, SendFields
<1>2. SidKnown(r)'
  BY <1>1 DEF SidKnown, HasToken, Committed, database
<1>3. Kinds(r)' /\ Holds(r)' /\ Covers(r)'
  BY <1>1 DEF Kinds, Holds, Covers, Ending
<1> QED
  BY <1>1, <1>2, <1>3, TameTyped DEF Tame, database

\* A response is delivered: the cookie and the token in memory are its own or none.
LEMMA SettledTame ==
  ASSUME IInv, CookieInv, LogoutInv, NEW r \in Slots, requests[r].pc = "reply", Settled(r),
         UNCHANGED <<database, undelivered>>, cookie' = CookieAfter(r),
         \A t \in Tabs : \/ tab'[t].mem \in {None, tab[t].mem}
                         \/ requests[r].res = "ok" /\ tab'[t].mem = requests[r].sid
  PROVE  Tame(r)
<1>1. /\ requests'[r].pc = "idle" /\ requests'[r].sid = None
      /\ requests'[r].new = None /\ requests'[r].todo = {} /\ requests'[r].tok = None
      /\ \A q \in Slots \ {r} : requests'[q] = requests[q]
  BY TameTyped, SettledFields
<1>2. /\ cookie' \in {cookie, None, requests[r].new}
      /\ requests[r].new # None => cookie' = requests[r].new
  BY TameTyped DEF CookieAfter
<1>3. \A t \in Tabs : tab'[t].mem \in {None, tab[t].mem} \/ HasToken(tab'[t].mem)
  BY DEF LogoutInv, SidKnown
<1>4. SidKnown(r)' /\ Kinds(r)' /\ Holds(r)' /\ Covers(r)'
  BY <1>1 DEF SidKnown, Kinds, Holds, Covers, Ending
<1> QED
  BY <1>1, <1>2, <1>3, <1>4, TameTyped DEF Tame, database

LEMMA DeliverTame ==
  ASSUME IInv, CookieInv, LogoutInv, NEW t \in Tabs, Deliver(t)
  PROVE  \E r \in Slots : Tame(r)
<1>0. tab \in [Tabs -> Tab] /\ <<t, "refresh">> \in Slots /\ <<t, "user">> \in Slots
  BY SlotTyped DEF IInv, TypeOK
<1>1. CASE DeliverRefresh(t)
  BY <1>0, <1>1, SettledTame DEF DeliverRefresh, Show
<1>2. CASE DeliverLogin(t)
  BY <1>0, <1>2, SettledTame DEF DeliverLogin, Show
<1>3. CASE DeliverLogout(t)
  BY <1>0, <1>3, SettledTame DEF DeliverLogout, Show
<1>4. ASSUME NEW k \in {"refresh", "user"}, Abandoned(t, k)
      PROVE  \E r \in Slots : Tame(r)
  BY <1>0, <1>4, SettledTame DEF Abandoned
<1> QED
  BY <1>1, <1>2, <1>3, <1>4 DEF Deliver

LEMMA BrowserSendTame ==
  ASSUME IInv, CookieInv, LogoutInv, NEW t \in Tabs,
         \/ Open(t) \/ LoadProfile(t) \/ FetchRefresh(t)
         \/ Login(t) \/ Logout(t) \/ ClearBrowser(t)
  PROVE  \E r \in Slots : Tame(r)
<1>0. tab \in [Tabs -> Tab] /\ <<t, "refresh">> \in Slots /\ <<t, "user">> \in Slots
  BY SlotTyped DEF IInv, TypeOK
<1>1. CASE Open(t) \/ LoadProfile(t) \/ FetchRefresh(t)
  <2>1. /\ requests[<<t, "refresh">>].pc = "idle"
        /\ Send(<<t, "refresh">>, "refresh", cookie, None)
        /\ UNCHANGED <<database, cookie, undelivered>>
    BY <1>1 DEF Open, LoadProfile, FetchRefresh, Tokenless, Quiet
  <2>2. \A u \in Tabs : tab'[u].mem \in {None, tab[u].mem}
    BY <1>0, <1>1 DEF Open, LoadProfile, FetchRefresh, Show
  <2> QED
    BY <1>0, <2>1, <2>2, SendTame
<1>2. CASE Login(t)
  <2>1. /\ requests[<<t, "user">>].pc = "idle"
        /\ Send(<<t, "user">>, "login", None, None)
        /\ UNCHANGED <<database, browser>>
    BY <1>2 DEF Login
  <2> QED
    BY <1>0, <2>1, SendTame DEF browser
<1>3. CASE Logout(t) \/ ClearBrowser(t)
  <2> DEFINE m == IF tab[t].stale THEN None ELSE tab[t].mem
  <2>1. /\ requests[<<t, "user">>].pc = "idle"
        /\ Send(<<t, "user">>, "logout", cookie, m)
        /\ UNCHANGED <<database, browser>>
    BY <1>3 DEF Logout, ClearBrowser
  <2>2. m # None => HasToken(m)
    BY DEF LogoutInv, MemKnown
  <2> HIDE DEF m
  <2> QED
    BY <1>0, <2>1, <2>2, SendTame DEF browser
<1> QED
  BY <1>1, <1>2, <1>3

LEMMA ReplyTame ==
  ASSUME IInv, CookieInv, LogoutInv, NEW r \in Slots, Reply(r, "no"),
         requests[r].pc \in {"sent", "selected"}, UNCHANGED <<database, browser>>
  PROVE  Tame(r)
<1>1. /\ requests'[r].pc = "reply" /\ requests'[r].res = "no"
      /\ requests'[r].new = None /\ requests'[r].todo = {} /\ requests'[r].tok = None
      /\ \A q \in Slots \ {r} : requests'[q] = requests[q]
  BY TameTyped, ReplyFields
<1>2. SidKnown(r)' /\ Kinds(r)' /\ Holds(r)' /\ Covers(r)'
  BY <1>1 DEF SidKnown, Kinds, Holds, Covers, Ending
<1> QED
  BY <1>1, <1>2, TameTyped DEF Tame, database, browser

LEMMA LoseTame ==
  ASSUME IInv, CookieInv, LogoutInv, NEW r \in Slots, Lose(r)
  PROVE  Tame(r)
<1>1. /\ requests'[r].pc = "reply" /\ requests'[r].res = "lost"
      /\ requests'[r].new = None /\ requests'[r].todo = {} /\ requests'[r].tok = None
      /\ \A q \in Slots \ {r} : requests'[q] = requests[q]
  BY TameTyped DEF Lose
<1>2. SidKnown(r)' /\ Kinds(r)' /\ Holds(r)' /\ Covers(r)'
  BY <1>1 DEF SidKnown, Kinds, Holds, Covers, Ending
<1> QED
  BY <1>1, <1>2, TameTyped DEF Lose, Tame, database, browser

LEMMA RotateReadTame ==
  ASSUME IInv, CookieInv, LogoutInv, NEW r \in Slots, RotateRead(r)
  PROVE  Tame(r)
<1> DEFINE i == requests[r].tok
<1>0. i \in Tid /\ requests[r].kind = "refresh" /\ requests[r].pc = "sent"
  BY DEF RotateRead, IInv, Core, RefreshesPresent
<1>1. CASE Reply(r, "no")
  BY <1>0, <1>1, ReplyTame DEF RotateRead
<1>2. CASE Move(r, "selected", tokens[i].sid, None, {}) /\ Committed(i)
           /\ sessions[tokens[i].sid] = "live"
  <2>1. /\ requests'[r].kind = "refresh"
        /\ requests'[r].pc = "selected" /\ requests'[r].sid = tokens[i].sid
        /\ requests'[r].new = None /\ requests'[r].todo = {} /\ requests'[r].tok = i
        /\ \A q \in Slots \ {r} : requests'[q] = requests[q]
    BY <1>0, <1>2, TameTyped, MoveFields
  <2>2. UNCHANGED <<database, browser>>
    BY DEF RotateRead
  <2>3. SidKnown(r)'
    BY <1>0, <1>2, <2>1, <2>2 DEF SidKnown, HasToken, Committed, database
  <2>4. Kinds(r)' /\ Holds(r)' /\ Covers(r)'
    BY <2>1 DEF Kinds, Holds, Covers, Ending
  <2> QED
    BY <1>0, <1>2, <2>1, <2>2, <2>3, <2>4, TameTyped DEF Tame, database, browser
<1> QED
  BY <1>1, <1>2 DEF RotateRead

LEMMA RotateReuseTame ==
  ASSUME IInv, CookieInv, LogoutInv, NEW r \in Slots, RotateReuse(r)
  PROVE  Tame(r)
<1> DEFINE i == requests[r].tok
<1>0. /\ i \in Tid /\ Committed(i) /\ tokens[i].sid = requests[r].sid
      /\ requests[r].kind = "refresh" /\ requests[r].pc = "selected"
  BY DEF RotateReuse, IInv, Core, Selections, LogoutInv, Kinds
<1>1. /\ requests'[r].kind = "refresh"
      /\ requests'[r].pc = "revoking" /\ requests'[r].sid = requests[r].sid
      /\ requests'[r].new = None /\ requests'[r].todo = requests[r].todo /\ requests'[r].tok = None
      /\ \A q \in Slots \ {r} : requests'[q] = requests[q]
  BY <1>0, TameTyped, MoveFields DEF RotateReuse, Goto
<1>2. /\ UNCHANGED <<sessions, tokens, sessionLock, browser>>
      /\ tokenLock[i] \in {Free, r} /\ tokenLock'[i] = r
      /\ \A j \in Tid \ {i} : tokenLock'[j] = tokenLock[j]
  BY <1>0 DEF RotateReuse, Available, IInv, TypeOK
<1>3. SidKnown(r)'
  BY <1>0, <1>1, <1>2 DEF SidKnown, HasToken, Committed
<1>4. Kinds(r)' /\ Holds(r)' /\ Covers(r)'
  BY <1>1 DEF Kinds, Holds, Covers, Ending
<1>5. requests'[r].todo = {}
  BY <1>0, <1>1 DEF CookieInv, TodoOwned
<1> QED
  BY <1>0, <1>1, <1>2, <1>3, <1>4, <1>5, TameTyped DEF Tame, browser

LEMMA RotateRevokedTame ==
  ASSUME IInv, CookieInv, LogoutInv, NEW r \in Slots, RotateRevoked(r)
  PROVE  Tame(r)
BY ReplyTame DEF RotateRevoked

\* A token of a request or of the browser belongs to a session there is.
LEMMA PresentedOwned ==
  ASSUME IInv, CookieInv, NEW r \in Slots, requests[r].tok # None
  PROVE  /\ requests[r].tok \in Tid /\ Committed(requests[r].tok)
         /\ tokens[requests[r].tok].sid \in Sid
         /\ sessions[tokens[requests[r].tok].sid] # "absent"
<1>1. requests[r].tok \in Tid /\ Committed(requests[r].tok)
  BY DEF IInv, TypeOK, Request, CookieInv, PresentedKnown
<1> QED
  BY <1>1 DEF CookieInv, TokensHaveSessions, Committed, IInv, Core, TokensOwned, Sid, None

LEMMA LogoutReadTame ==
  ASSUME IInv, CookieInv, LogoutInv, NEW r \in Slots, LogoutRead(r)
  PROVE  Tame(r)
<1> DEFINE i == requests[r].tok
           m == requests[r].sid
           s == IF m # None /\ sessions[m] = "live" THEN m ELSE tokens[i].sid
<1>0. requests[r].kind = "logout" /\ requests[r].pc = "sent" /\ UNCHANGED <<database, browser>>
  BY DEF LogoutRead
<1>1. CASE i = None
  BY <1>0, <1>1, ReplyTame DEF LogoutRead
<1>2. CASE i # None
  <2>1. s \in Sid /\ sessions[s] # "absent" /\ HasToken(s)
    BY <1>0, <1>2, PresentedOwned DEF LogoutInv, SidKnown, HasToken, IInv, TypeOK, Request
  <2>2. Move(r, "ending", s, None, {})
    BY <1>2 DEF LogoutRead
  <2> HIDE DEF s
  <2>3. /\ requests'[r].pc = "ending" /\ requests'[r].sid = s
        /\ requests'[r].new = None /\ requests'[r].todo = {} /\ requests'[r].tok = None
        /\ \A q \in Slots \ {r} : requests'[q] = requests[q]
    BY <2>2, TameTyped, MoveFields
  <2>4. SidKnown(r)'
    BY <1>0, <2>1, <2>3 DEF SidKnown, HasToken, Committed, database
  <2>5. Kinds(r)' /\ Holds(r)' /\ Covers(r)'
    BY <1>0, <2>1, <2>3 DEF Kinds, Holds, Covers, Ending, database
  <2> QED
    BY <1>0, <2>3, <2>4, <2>5, TameTyped DEF Tame, database, browser
<1> QED
  BY <1>1, <1>2

LEMMA LogoutLockTame ==
  ASSUME IInv, CookieInv, LogoutInv, NEW r \in Slots, LogoutLock(r)
  PROVE  Tame(r)
<1> DEFINE s == requests[r].sid
<1>0. /\ requests[r].pc = "ending" /\ s \in Sid /\ sessions[s] \in {"live", "revoked"}
      /\ UNCHANGED <<sessions, tokens, tokenLock, browser>>
  BY DEF LogoutLock, LogoutInv, Kinds, IInv, TypeOK
<1>1. /\ requests'[r].pc = "revoking" /\ requests'[r].sid = s
      /\ requests'[r].new = requests[r].new /\ requests'[r].todo = requests[r].todo
      /\ requests'[r].tok = None
      /\ \A q \in Slots \ {r} : requests'[q] = requests[q]
  BY TameTyped, MoveFields DEF LogoutLock, Goto
<1>2. requests'[r].todo = {} /\ requests'[r].new = None
  BY <1>0, <1>1, TameTyped DEF CookieInv, TodoOwned
<1>3. /\ sessions[s] = "live" => sessionLock[s] \in {Free, r} /\ sessionLock'[s] = r
      /\ sessions[s] = "revoked" => UNCHANGED sessionLock
      /\ \A p \in Sid \ {s} : sessionLock'[p] = sessionLock[p]
  BY <1>0 DEF LogoutLock, Available, IInv, TypeOK
<1>4. SidKnown(r)'
  BY <1>0, <1>1 DEF SidKnown, HasToken, Committed, LogoutInv
<1>5. Kinds(r)' /\ Holds(r)' /\ Covers(r)'
  BY <1>0, <1>1, <1>3 DEF Kinds, Holds, Covers, Ending
<1> QED
  BY <1>0, <1>1, <1>2, <1>3, <1>4, <1>5, TameTyped DEF Tame, browser

LEMMA SweepStartTame ==
  ASSUME IInv, CookieInv, LogoutInv, NEW r \in Slots, SweepStart(r)
  PROVE  Tame(r)
<1> DEFINE s == requests[r].sid
<1>0. requests[r].pc = "revoking" /\ UNCHANGED <<database, browser>>
  BY DEF SweepStart
<1>1. /\ requests'[r].kind = requests[r].kind /\ requests'[r].pc = "sweeping"
      /\ requests'[r].sid = s /\ requests'[r].new = None
      /\ requests'[r].todo = RowsToRevoke(r) /\ requests'[r].tok = None
      /\ \A q \in Slots \ {r} : requests'[q] = requests[q]
  BY TameTyped, MoveFields DEF SweepStart
<1>2. SidKnown(r)'
  BY <1>0, <1>1 DEF SidKnown, HasToken, Committed, LogoutInv, database
<1>3. Kinds(r)' /\ Holds(r)'
  BY <1>0, <1>1 DEF Kinds, Holds, Ending, LogoutInv, database
<1>4. Covers(r)'
  BY <1>0, <1>1 DEF Covers, Ending, RowsToRevoke, Committed, database
<1>5. \A i \in requests'[r].todo : Committed(i) /\ tokens[i].sid = s
  BY <1>1 DEF RowsToRevoke
<1>6. \A i \in Tid : tokenLock[i] = r => Committed(i) /\ tokens[i].sid = s
  BY DEF CookieInv, LocksOwned
<1> QED
  BY <1>0, <1>1, <1>2, <1>3, <1>4, <1>5, <1>6, TameTyped DEF Tame, database, browser

LEMMA SweepRowTame ==
  ASSUME IInv, CookieInv, LogoutInv, NEW r \in Slots, SweepRow(r)
  PROVE  Tame(r)
<1> DEFINE s == requests[r].sid
<1>0. requests[r].pc = "sweeping" /\ UNCHANGED <<sessions, tokens, sessionLock, browser>>
  BY DEF SweepRow
<1>1. PICK k \in requests[r].todo :
        /\ Available(tokenLock, k, r)
        /\ tokenLock' = [tokenLock EXCEPT ![k] = r]
        /\ Move(r, "sweeping", s, None, requests[r].todo \ {k})
  BY DEF SweepRow
<1>2. k \in Tid /\ Committed(k) /\ tokens[k].sid = s
  BY DEF CookieInv, TodoOwned, IInv, TypeOK, Request
<1>3. /\ requests'[r].kind = requests[r].kind /\ requests'[r].pc = "sweeping"
      /\ requests'[r].sid = s /\ requests'[r].new = None
      /\ requests'[r].todo = requests[r].todo \ {k} /\ requests'[r].tok = None
      /\ \A q \in Slots \ {r} : requests'[q] = requests[q]
  BY <1>1, TameTyped, MoveFields
<1>4. /\ tokenLock[k] \in {Free, r} /\ tokenLock'[k] = r
      /\ \A j \in Tid \ {k} : tokenLock'[j] = tokenLock[j]
  BY <1>1, <1>2 DEF Available, IInv, TypeOK
<1>5. SidKnown(r)'
  BY <1>0, <1>3 DEF SidKnown, HasToken, Committed, LogoutInv
<1>6. Kinds(r)' /\ Holds(r)'
  <2>1. Kinds(r)'
    BY <1>3 DEF Kinds
  <2>2. Holds(r)
    BY DEF LogoutInv
  <2>3. Holds(r)'
    BY <1>0, <1>3, <2>2 DEF Holds, Ending
  <2> QED BY <2>1, <2>3
<1>7. Covers(r)'
  <2>1. \A q \in Slots, i \in Tid : Rotates(q, i)' => Rotates(q, i)
    BY <1>3 DEF Rotates
  <2>2. Covers(r)
    BY DEF LogoutInv
  <2> QED
    BY <1>0, <1>3, <1>4, <2>1, <2>2 DEF Covers, Ending
<1>8. \A i \in requests'[r].todo : Committed(i) /\ tokens[i].sid = s
  BY <1>3 DEF CookieInv, TodoOwned
<1>9. \A i \in Tid : tokenLock'[i] = r => Committed(i) /\ tokens[i].sid = s
  BY <1>2, <1>4 DEF CookieInv, LocksOwned
<1> QED
  BY <1>0, <1>3, <1>4, <1>5, <1>6, <1>7, <1>8, <1>9, TameTyped DEF Tame, browser

LEMMA TabStep ==
  ASSUME CookieInv, LogoutInv, UNCHANGED <<database, requests, cookie, undelivered>>,
         \A t \in Tabs : tab'[t].mem \in {None, tab[t].mem}
  PROVE  CookieInv' /\ LogoutInv'
<1>1. UNCHANGED <<sessions, tokens, sessionLock, tokenLock>>
  BY DEF database
<1>2. CookieInv'
  BY <1>1 DEF CookieInv, CookieKnown, PresentedKnown, TokensHaveSessions, RevokedEnded, LocksOwned,
     TodoOwned, CookieIsCurrent, Issues, Committed
<1>3. \A s : HasToken(s)' = HasToken(s)
  BY <1>1 DEF HasToken, Committed
<1>4. \A t \in Tabs : MemKnown(t)'
  BY <1>3 DEF LogoutInv, MemKnown
<1>5. \A r \in Slots : SidKnown(r)' /\ Kinds(r)' /\ Holds(r)' /\ Covers(r)' /\ Over(r)'
  BY <1>1, <1>3 DEF LogoutInv, SidKnown, Kinds, Holds, Covers, Over, Ending, Rotates
<1> QED
  BY <1>2, <1>4, <1>5 DEF LogoutInv

\* A login's first insert: no token is of the new session.
LEMMA LoginSessionCInv ==
  ASSUME IInv, CookieInv, LogoutInv, NEW r \in Slots, LoginSession(r)
  PROVE  CookieInv' /\ LogoutInv'
<1>1. PICK s \in Sid : /\ sessions[s] = "absent"
                       /\ sessions' = [sessions EXCEPT ![s] = "live"]
                       /\ Move(r, "inserted", s, None, {})
  BY DEF LoginSession, NextSession
<1>2. /\ requests[r].kind = "login" /\ requests[r].pc = "sent"
      /\ UNCHANGED <<tokens, sessionLock, tokenLock, cookie, tab, undelivered>>
  BY DEF LoginSession, browser
<1>3. /\ requests'[r].kind = "login" /\ requests'[r].pc = "inserted" /\ requests'[r].sid = s
      /\ requests'[r].new = None /\ requests'[r].todo = {} /\ requests'[r].tok = None
      /\ \A q \in Slots \ {r} : requests'[q] = requests[q]
  BY <1>1, <1>2, TameTyped, MoveFields
<1>4. /\ sessions'[s] = "live" /\ \A p : p # s => sessions'[p] = sessions[p]
      /\ \A i \in Tid : tokens[i].sid # s
  BY <1>1 DEF IInv, TypeOK, Core, TokensOwned, None, Sid
<1>5. requests[r].new = None /\ \A i \in Tid : tokenLock[i] # r
  BY <1>2, TameTyped
<1>6. CookieKnown' /\ PresentedKnown' /\ TokensHaveSessions'
  BY <1>2, <1>3 DEF CookieInv, CookieKnown, PresentedKnown, TokensHaveSessions, Committed
<1>7. RevokedEnded' /\ CookieIsCurrent'
  <2>1. RevokedEnded'
    BY <1>2, <1>4 DEF CookieInv, RevokedEnded
  <2>2. CookieIsCurrent'
    BY <1>2, <1>3, <1>4, <1>5 DEF CookieInv, CookieIsCurrent, CookieKnown, Tid, None
  <2> QED
    BY <2>1, <2>2
<1>8. LocksOwned' /\ TodoOwned'
  BY <1>2, <1>3, <1>5 DEF CookieInv, LocksOwned, TodoOwned, Committed
<1>9. \A q \in Slots : Issues(q)'
  BY <1>2, <1>3 DEF CookieInv, Issues
<1>10. \A p : HasToken(p)' = HasToken(p)
  BY <1>2 DEF HasToken, Committed
<1>11. \A t \in Tabs : MemKnown(t)'
  BY <1>2, <1>10 DEF LogoutInv, MemKnown
<1>12. \A q \in Slots : SidKnown(q)' /\ Kinds(q)' /\ Holds(q)'
  BY <1>1, <1>2, <1>3, <1>4, <1>10 DEF LogoutInv, SidKnown, Kinds, Holds, Ending
<1>13. \A q \in Slots, i \in Tid : Rotates(q, i)' => Rotates(q, i) /\ requests'[q] = requests[q]
  BY <1>3 DEF Rotates
<1>14. \A q \in Slots : Covers(q)'
  BY <1>2, <1>3, <1>4, <1>13 DEF LogoutInv, Covers, Ending
<1>15. \A q \in Slots : Over(q)'
  BY <1>1, <1>2, <1>3, <1>4, <1>13 DEF LogoutInv, Over
<1> QED
  BY <1>6, <1>7, <1>8, <1>9, <1>11, <1>12, <1>14, <1>15 DEF CookieInv, LogoutInv

\* A token that is not in the database is known to nobody.
LEMMA AbsentUnknown ==
  ASSUME IInv, CookieInv, NEW i \in Tid, tokens[i].state = "absent"
  PROVE  /\ cookie # i
         /\ \A q \in Slots : /\ requests[q].tok # i /\ requests[q].new # i
                             /\ i \notin requests[q].todo /\ tokenLock[i] # q
         /\ \A k \in Tid : tokens[k].parent # i
         /\ tokens[i].parent = None
<1>1. i # None /\ ~Committed(i)
  BY DEF Tid, None, Committed
<1>2. cookie # i /\ \A q \in Slots : requests[q].tok # i
  BY <1>1 DEF CookieInv, CookieKnown, PresentedKnown
<1>3. \A q \in Slots : requests[q].new # i
  BY <1>1 DEF IInv, Core, NewCommitted, Rotations
<1>4. \A q \in Slots : i \notin requests[q].todo /\ tokenLock[i] # q
  BY <1>1 DEF CookieInv, TodoOwned, LocksOwned
<1>5. \A k \in Tid : tokens[k].parent # i
  <2> SUFFICES ASSUME NEW k \in Tid, tokens[k].parent = i PROVE FALSE
    OBVIOUS
  <2>1. tokens[k].state = "pending"
    BY <1>1 DEF IInv, Core, ParentsSpent
  <2>2. PICK q \in Slots : requests[q].pc = "rotating" /\ requests[q].new = k
    BY <2>1 DEF IInv, Core, PendingOwned
  <2> QED
    BY <2>2 DEF IInv, Core, Rotations
<1>6. tokens[i].parent = None
  BY DEF IInv, Core, AbsentBlank, NoToken
<1> QED
  BY <1>2, <1>3, <1>4, <1>5, <1>6

\* Nothing is lost on its way to the browser.
LEMMA CurrentStep ==
  ASSUME CookieInv, UNCHANGED <<cookie, undelivered>>,
         cookie # None =>
           /\ sessions'[tokens'[cookie].sid] = "live" => sessions[tokens[cookie].sid] = "live"
           /\ sessions'[tokens'[cookie].sid] = "live" /\ tokens[cookie].state = "live"
                => tokens'[cookie].state = "live",
         \A k \in Tid : tokens'[k].parent = tokens[k].parent \/ tokens[k].parent = None,
         \A q \in Slots : requests[q].new # None => requests'[q].new = requests[q].new
  PROVE  CookieIsCurrent'
<1> SUFFICES ASSUME cookie # None, sessions'[tokens'[cookie].sid] = "live",
                    tokens'[cookie].state # "live"
             PROVE  \E k \in Tid :
                      /\ tokens'[k].parent = cookie
                      /\ k \in undelivered \/ \E q \in Slots : requests'[q].new = k
  BY DEF CookieIsCurrent
<1>1. PICK k \in Tid : /\ tokens[k].parent = cookie
                       /\ k \in undelivered \/ \E q \in Slots : requests[q].new = k
  BY DEF CookieInv, CookieIsCurrent
<1>2. tokens'[k].parent = cookie /\ k # None
  BY <1>1 DEF Tid, None
<1> QED
  BY <1>1, <1>2

LEMMA LoginTokenCInv ==
  ASSUME IInv, CookieInv, LogoutInv, NEW r \in Slots, LoginToken(r)
  PROVE  CookieInv' /\ LogoutInv'
<1> DEFINE s == requests[r].sid
<1>1. PICK i \in Tid : /\ tokens[i].state = "absent"
                       /\ tokens' = [tokens EXCEPT ![i] =
                            [state |-> "live", sid |-> s, parent |-> None]]
                       /\ requests' = [requests EXCEPT ![r] =
                            [kind |-> @.kind, pc |-> "reply", tok |-> None, sid |-> @.sid,
                             new |-> i, todo |-> {}, res |-> "ok"]]
  BY DEF LoginToken, NextToken
<1>2. /\ requests[r].pc = "inserted" /\ requests[r].kind = "login"
      /\ s \in Sid /\ sessions[s] # "absent"
      /\ \A k \in Tid : tokens[k].sid # s
      /\ UNCHANGED <<sessions, sessionLock, tokenLock, cookie, tab, undelivered>>
  BY DEF LoginToken, browser, LogoutInv, Kinds, IInv, Core, LoginsAlone
<1>3. /\ requests'[r].kind = "login" /\ requests'[r].pc = "reply" /\ requests'[r].sid = s
      /\ requests'[r].new = i /\ requests'[r].todo = {} /\ requests'[r].tok = None
      /\ requests'[r].res = "ok"
      /\ \A q \in Slots \ {r} : requests'[q] = requests[q]
  BY <1>1, <1>2, TameTyped
<1>4. /\ tokens'[i].state = "live" /\ tokens'[i].sid = s /\ tokens'[i].parent = None
      /\ \A k \in Tid \ {i} : tokens'[k] = tokens[k]
  BY <1>1 DEF IInv, TypeOK
<1>5. requests[r].new = None /\ \A k \in Tid : tokenLock[k] # r
  BY <1>2, TameTyped
<1>6. /\ cookie # i
      /\ \A q \in Slots : /\ requests[q].tok # i /\ requests[q].new # i
                          /\ i \notin requests[q].todo /\ tokenLock[i] # q
      /\ \A k \in Tid : tokens[k].parent # i
      /\ tokens[i].parent = None
  BY <1>1, AbsentUnknown
<1>7. CookieKnown' /\ PresentedKnown' /\ TokensHaveSessions' /\ RevokedEnded'
  BY <1>1, <1>2, <1>3, <1>4 DEF CookieInv, CookieKnown, PresentedKnown, TokensHaveSessions,
     RevokedEnded, Committed
<1>8. LocksOwned' /\ TodoOwned'
  BY <1>1, <1>2, <1>3, <1>4, <1>5, <1>6 DEF CookieInv, LocksOwned, TodoOwned, Committed
<1>9. \A q \in Slots : Issues(q)'
  <2>1. Issues(r)'
    BY <1>2, <1>3, <1>4, <1>6 DEF Issues, Tid, None
  <2>2. \A q \in Slots \ {r} : Issues(q)'
    BY <1>1, <1>2, <1>3, <1>4, <1>6 DEF CookieInv, Issues, IInv, TypeOK, Request
  <2> QED
    BY <2>1, <2>2
<1>10. CookieIsCurrent'
  <2>1. cookie # None => cookie \in Tid \ {i}
    BY <1>6 DEF CookieInv, CookieKnown
  <2> QED
    BY <1>2, <1>3, <1>4, <1>5, <1>6, <2>1, CurrentStep
<1>11. HasToken(s)' /\ \A p : HasToken(p) => HasToken(p)'
  BY <1>1, <1>4 DEF HasToken, Committed
<1>12. \A t \in Tabs : MemKnown(t)'
  BY <1>2, <1>11 DEF LogoutInv, MemKnown
<1>13. \A q \in Slots : SidKnown(q)' /\ Kinds(q)' /\ Holds(q)'
  BY <1>2, <1>3, <1>11 DEF LogoutInv, SidKnown, Kinds, Holds, Ending
<1>14. \A q \in Slots, k \in Tid : Rotates(q, k)' =>
         /\ q # r /\ k # i /\ Rotates(q, k) /\ requests'[q] = requests[q]
  BY <1>3, <1>6 DEF Rotates
<1>15. \A q \in Slots : Covers(q)'
  <2> SUFFICES ASSUME NEW q \in Slots, Ending(q)', requests'[q].pc = "sweeping"
               PROVE  Covers(q)'
    BY DEF Covers
  <2>1. q # r /\ requests'[q] = requests[q] /\ Ending(q)
    BY <1>3 DEF Ending
  <2>2. requests[q].sid # s
    BY <1>2, <2>1, SessionsAssumption DEF LogoutInv, SidKnown, Holds, HasToken, Ending, Sid, None
  <2> QED
    BY <1>2, <1>4, <1>14, <2>1, <2>2 DEF LogoutInv, Covers
<1>16. \A q \in Slots : Over(q)'
  BY <1>2, <1>3, <1>4, <1>14 DEF LogoutInv, Over
<1> QED
  BY <1>7, <1>8, <1>9, <1>10, <1>12, <1>13, <1>15, <1>16 DEF CookieInv, LogoutInv

LEMMA RotateInsertCInv ==
  ASSUME IInv, CookieInv, LogoutInv, NEW r \in Slots, RotateInsert(r)
  PROVE  CookieInv' /\ LogoutInv'
<1> DEFINE i == requests[r].tok
           s == requests[r].sid
<1>1. PICK j \in Tid : /\ tokens[j].state = "absent"
                       /\ tokens' = [tokens EXCEPT ![j] =
                            [state |-> "pending", sid |-> s, parent |-> i]]
                       /\ Move(r, "rotating", s, j, {})
  BY DEF RotateInsert, NextToken
<1>2. /\ requests[r].pc = "selected" /\ requests[r].kind = "refresh"
      /\ i \in Tid /\ Committed(i) /\ tokens[i].sid = s /\ tokens[i].state = "live"
      /\ tokenLock[i] \in {Free, r} /\ tokenLock' = [tokenLock EXCEPT ![i] = r]
      /\ UNCHANGED <<sessions, sessionLock, cookie, tab, undelivered>>
  BY DEF RotateInsert, Available, browser, LogoutInv, Kinds, IInv, Core, Selections
<1>3. /\ requests'[r].kind = "refresh" /\ requests'[r].pc = "rotating" /\ requests'[r].sid = s
      /\ requests'[r].new = j /\ requests'[r].todo = {} /\ requests'[r].tok = i
      /\ \A q \in Slots \ {r} : requests'[q] = requests[q]
  BY <1>1, <1>2, TameTyped, MoveFields
<1>4. /\ tokens'[j].state = "pending" /\ tokens'[j].sid = s /\ tokens'[j].parent = i
      /\ \A k \in Tid \ {j} : tokens'[k] = tokens[k]
  BY <1>1 DEF IInv, TypeOK
<1>5. requests[r].new = None
  BY <1>2, TameTyped
<1>6. /\ cookie # j
      /\ \A q \in Slots : /\ requests[q].tok # j /\ requests[q].new # j
                          /\ j \notin requests[q].todo /\ tokenLock[j] # q
      /\ \A k \in Tid : tokens[k].parent # j
      /\ tokens[j].parent = None
  BY <1>1, AbsentUnknown
<1>7. /\ tokenLock'[i] = r
      /\ \A k \in Tid \ {i} : tokenLock'[k] = tokenLock[k]
      /\ \A k \in Tid, q \in Slots : tokenLock[k] = q => tokenLock'[k] = q
  BY <1>2, FreeIsNoSlot DEF IInv, TypeOK
<1>8. s \in Sid
  BY <1>2 DEF CookieInv, TokensHaveSessions
<1>9. CookieKnown' /\ PresentedKnown' /\ TokensHaveSessions' /\ RevokedEnded'
  BY <1>1, <1>2, <1>3, <1>4, <1>8 DEF CookieInv, CookieKnown, PresentedKnown,
     TokensHaveSessions, RevokedEnded, Committed
<1>10. LocksOwned' /\ TodoOwned'
  BY <1>1, <1>2, <1>3, <1>4, <1>6, <1>7 DEF CookieInv, LocksOwned, TodoOwned, Committed
<1>11. \A q \in Slots : Issues(q)'
  BY <1>1, <1>2, <1>3, <1>4, <1>6 DEF CookieInv, Issues
<1>12. CookieIsCurrent'
  <2>1. cookie # None => cookie \in Tid \ {j}
    BY <1>6 DEF CookieInv, CookieKnown
  <2> QED
    BY <1>2, <1>3, <1>4, <1>5, <1>6, <2>1, CurrentStep
<1>13. \A p : HasToken(p) => HasToken(p)'
  BY <1>1, <1>4 DEF HasToken, Committed
<1>14. \A t \in Tabs : MemKnown(t)'
  BY <1>2, <1>13 DEF LogoutInv, MemKnown
<1>15. \A q \in Slots : SidKnown(q)' /\ Kinds(q)' /\ Holds(q)'
  BY <1>2, <1>3, <1>13 DEF LogoutInv, SidKnown, Kinds, Holds, Ending
<1>16. \A q \in Slots, k \in Tid : Rotates(q, k)' =>
         k # j /\ Rotates(q, k) /\ requests'[q].sid = requests[q].sid
  BY <1>2, <1>3, <1>4, <1>1, <1>6 DEF Rotates
<1>17. \A q \in Slots : Covers(q)'
  BY <1>2, <1>3, <1>4, <1>7, <1>16 DEF LogoutInv, Covers, Ending
<1>18. \A q \in Slots : Over(q)'
  BY <1>2, <1>3, <1>4, <1>16 DEF LogoutInv, Over
<1> QED
  BY <1>9, <1>10, <1>11, <1>12, <1>14, <1>15, <1>17, <1>18 DEF CookieInv, LogoutInv

\* What a commit or a rollback does with the locks.
LEMMA Releases ==
  ASSUME IInv, NEW r \in Slots, Release(r)
  PROVE  /\ \A k \in Tid, q \in Slots : tokenLock'[k] = q <=> q # r /\ tokenLock[k] = q
         /\ \A p \in Sid, q \in Slots : sessionLock'[p] = q <=> q # r /\ sessionLock[p] = q
<1>1. /\ \A k \in Tid : tokenLock'[k] = IF tokenLock[k] = r THEN Free ELSE tokenLock[k]
      /\ \A p \in Sid : sessionLock'[p] = IF sessionLock[p] = r THEN Free ELSE sessionLock[p]
  BY DEF IInv, TypeOK, Release, Released
<1> QED
  BY <1>1, FreeIsNoSlot

LEMMA RotateCommitCInv ==
  ASSUME IInv, CookieInv, LogoutInv, NEW r \in Slots, RotateCommit(r)
  PROVE  CookieInv' /\ LogoutInv'
<1> DEFINE i == requests[r].tok
           j == requests[r].new
           s == requests[r].sid
<1>1. /\ requests[r].pc = "rotating" /\ requests[r].kind = "refresh"
      /\ i \in Tid /\ j \in Tid /\ i # j
      /\ tokens[i].state = "live" /\ tokens[i].sid = s
      /\ tokens[j].state = "pending" /\ tokens[j].sid = s /\ tokens[j].parent = i
  BY DEF RotateCommit, IInv, Core, Rotations, LogoutInv, Kinds
<1>2. /\ tokens'[i].state = "spent" /\ tokens'[j].state = "live"
      /\ \A k \in Tid \ {i, j} : tokens'[k] = tokens[k]
      /\ \A k \in Tid : tokens'[k].sid = tokens[k].sid /\ tokens'[k].parent = tokens[k].parent
  <2>1. /\ tokens'[i] = [state |-> "spent", sid |-> tokens[i].sid, parent |-> tokens[i].parent]
        /\ tokens'[j] = [state |-> "live", sid |-> tokens[j].sid, parent |-> tokens[j].parent]
        /\ \A k \in Tid \ {i, j} : tokens'[k] = tokens[k]
    BY <1>1 DEF RotateCommit, IInv, TypeOK
  <2> QED
    BY <1>1, <2>1
<1>3. /\ UNCHANGED <<sessions, cookie, tab, undelivered>>
      /\ Release(r) /\ Reply(r, "ok") /\ sessionLock[s] \in {Free, r}
  BY DEF RotateCommit, browser, Available
<1>4. /\ requests'[r].kind = "refresh" /\ requests'[r].pc = "reply" /\ requests'[r].sid = s
      /\ requests'[r].new = j /\ requests'[r].todo = {} /\ requests'[r].res = "ok"
      /\ requests'[r].tok = None
      /\ \A q \in Slots \ {r} : requests'[q] = requests[q]
  BY <1>1, <1>3, TameTyped, ReplyFields
<1>5. /\ \A k \in Tid, q \in Slots : tokenLock'[k] = q <=> q # r /\ tokenLock[k] = q
      /\ \A p \in Sid, q \in Slots : sessionLock'[p] = q <=> q # r /\ sessionLock[p] = q
  BY <1>3, Releases
<1>6. /\ cookie # j
      /\ \A q \in Slots : requests[q].tok # j /\ requests[q].new # i
      /\ \A q \in Slots \ {r} : requests[q].new # j
      /\ \A k \in Tid : tokens[k].parent # j
  BY <1>1 DEF CookieInv, Issues, Tid, None
<1>7. \A k \in Tid : Committed(k) => Committed(k)'
  BY <1>1, <1>2 DEF Committed
<1>8. CookieKnown' /\ PresentedKnown' /\ TokensHaveSessions' /\ RevokedEnded'
  <2>1. CookieKnown' /\ PresentedKnown'
    BY <1>3, <1>4, <1>7 DEF CookieInv, CookieKnown, PresentedKnown, IInv, TypeOK, Request
  <2>2. TokensHaveSessions' /\ RevokedEnded'
    BY <1>1, <1>2, <1>3 DEF CookieInv, TokensHaveSessions, RevokedEnded
  <2> QED
    BY <2>1, <2>2
<1>9. LocksOwned' /\ TodoOwned'
  <2>1. LocksOwned'
    BY <1>2, <1>4, <1>5, <1>7 DEF CookieInv, LocksOwned
  <2>2. TodoOwned'
    BY <1>2, <1>4, <1>7 DEF CookieInv, TodoOwned, IInv, TypeOK, Request
  <2> QED
    BY <2>1, <2>2
<1>10. \A q \in Slots : Issues(q)'
  <2>1. Issues(r)'
    BY <1>1, <1>2, <1>3, <1>4, <1>6 DEF Issues, Tid, None
  <2>2. \A q \in Slots \ {r} : Issues(q)'
    BY <1>2, <1>3, <1>4, <1>6 DEF CookieInv, Issues, IInv, TypeOK, Request
  <2> QED
    BY <2>1, <2>2
<1>11. CookieIsCurrent'
  <2>1. CASE cookie = i
    BY <1>1, <1>2, <1>3, <1>4, <2>1 DEF CookieIsCurrent
  <2>2. CASE cookie # i
    <3>1. cookie # None => cookie \in Tid \ {i, j}
      BY <1>6, <2>2 DEF CookieInv, CookieKnown
    <3>2. \A q \in Slots : requests'[q].new = requests[q].new
      BY <1>4
    <3> QED
      BY <1>2, <1>3, <3>1, <3>2 DEF CookieInv, CookieIsCurrent
  <2> QED
    BY <2>1, <2>2
<1>12. \A p : HasToken(p) => HasToken(p)'
  BY <1>2, <1>7 DEF HasToken
<1>13. \A t \in Tabs : MemKnown(t)'
  BY <1>3, <1>12 DEF LogoutInv, MemKnown
<1>14. \A q \in Slots : SidKnown(q)' /\ Kinds(q)'
  BY <1>1, <1>3, <1>4, <1>12 DEF LogoutInv, SidKnown, Kinds
<1>15. \A q \in Slots : Holds(q)'
  BY <1>3, <1>4, <1>5 DEF LogoutInv, Holds, Ending
<1>16. \A q \in Slots, k \in Tid : Rotates(q, k)' =>
         k # j /\ q # r /\ Rotates(q, k) /\ requests'[q] = requests[q]
  BY <1>4, <1>6 DEF Rotates
<1>17. \A q \in Slots : Covers(q)'
  <2> SUFFICES ASSUME NEW q \in Slots, Ending(q)', requests'[q].pc = "sweeping",
                      NEW k \in Tid, tokens'[k].state = "live",
                      tokens'[k].sid = requests'[q].sid,
                      \/ sessions'[tokens'[k].sid] = "live"
                      \/ \E p \in Slots : Rotates(p, k)'
               PROVE  k \in requests'[q].todo \/ tokenLock'[k] = q
    BY DEF Covers
  <2>1. q # r /\ requests'[q] = requests[q] /\ Ending(q)
    BY <1>4 DEF Ending
  <2>2. k # j
    <3> SUFFICES ASSUME k = j PROVE FALSE
      OBVIOUS
    <3>1. s = requests[q].sid /\ sessions[s] = "live"
      BY <1>1, <1>2, <1>3, <1>16, <2>1
    <3>2. sessionLock[s] = q
      BY <2>1, <3>1 DEF LogoutInv, Holds
    <3> QED
      BY <1>3, <2>1, <3>2, FreeIsNoSlot
  <2>3. tokens[k].state = "live"
    BY <1>2, <2>2
  <2> QED
    BY <1>2, <1>3, <1>5, <1>16, <2>1, <2>3 DEF LogoutInv, Covers
<1>18. \A q \in Slots : Over(q)'
  <2>1. \A k \in Tid : tokens'[k].state = "live" /\ k # j => tokens[k].state = "live"
    BY <1>2
  <2> QED
    BY <1>3, <1>4, <1>16, <2>1 DEF LogoutInv, Over
<1> QED
  BY <1>8, <1>9, <1>10, <1>11, <1>13, <1>14, <1>15, <1>17, <1>18 DEF CookieInv, LogoutInv

LEMMA SweepCommitCInv ==
  ASSUME IInv, CookieInv, LogoutInv, NEW r \in Slots, SweepCommit(r)
  PROVE  CookieInv' /\ LogoutInv'
<1> DEFINE s == requests[r].sid
           res == IF requests[r].kind = "logout" THEN "ok" ELSE "no"
<1>1. /\ requests[r].pc = "sweeping" /\ requests[r].todo = {} /\ requests[r].new = None
      /\ sessions' = [sessions EXCEPT ![s] = "revoked"]
      /\ Release(r) /\ Reply(r, res) /\ UNCHANGED <<cookie, tab, undelivered>>
  BY TameTyped DEF SweepCommit, browser
<1> HIDE DEF res
<1>2. /\ requests'[r].kind = requests[r].kind /\ requests'[r].pc = "reply"
      /\ requests'[r].sid = s /\ requests'[r].new = None /\ requests'[r].todo = {}
      /\ requests'[r].res = res /\ requests'[r].tok = None
      /\ \A q \in Slots \ {r} : requests'[q] = requests[q]
  BY <1>1, TameTyped, ReplyFields
<1>3. \A k \in Tid : /\ tokens'[k].parent = tokens[k].parent /\ tokens'[k].sid = tokens[k].sid
                     /\ tokenLock[k] = r /\ tokens[k].state = "live"
                          => tokens'[k].state = "revoked"
                     /\ ~(tokenLock[k] = r /\ tokens[k].state = "live")
                          => tokens'[k] = tokens[k]
  BY DEF SweepCommit, Swept
<1>4. /\ s \in Sid => sessions'[s] = "revoked"
      /\ \A p : p # s => sessions'[p] = sessions[p]
      /\ \A p \in Sid : sessions'[p] \in {sessions[p], "revoked"}
  BY <1>1 DEF IInv, TypeOK
<1>5. /\ \A k \in Tid, q \in Slots : tokenLock'[k] = q <=> q # r /\ tokenLock[k] = q
      /\ \A p \in Sid, q \in Slots : sessionLock'[p] = q <=> q # r /\ sessionLock[p] = q
  BY <1>1, Releases
<1>6. \A k \in Tid : tokenLock[k] = r => tokens[k].sid = s /\ Committed(k) /\ s \in Sid
  BY DEF CookieInv, LocksOwned, TokensHaveSessions, Committed
<1>7. \A k \in Tid : /\ Committed(k) => Committed(k)'
                     /\ tokens'[k].state # "revoked" => tokens'[k] = tokens[k]
  BY <1>3 DEF Committed
<1>8. CookieKnown' /\ PresentedKnown'
  BY <1>1, <1>2, <1>7 DEF CookieInv, CookieKnown, PresentedKnown, IInv, TypeOK, Request
<1>9. TokensHaveSessions' /\ RevokedEnded'
  <2>1. TokensHaveSessions'
    BY <1>3, <1>6 DEF CookieInv, TokensHaveSessions
  <2>2. RevokedEnded'
    BY <1>3, <1>4, <1>6 DEF CookieInv, RevokedEnded, TokensHaveSessions
  <2> QED
    BY <2>1, <2>2
<1>10. LocksOwned'
  BY <1>2, <1>3, <1>5, <1>7 DEF CookieInv, LocksOwned
<1>11. TodoOwned'
  BY <1>2, <1>3, <1>7 DEF CookieInv, TodoOwned, IInv, TypeOK, Request
<1>12. \A q \in Slots : Issues(q)'
  <2>1. Issues(r)'
    BY <1>2 DEF Issues
  <2>2. \A q \in Slots \ {r} : Issues(q)'
    BY <1>1, <1>2, <1>3 DEF CookieInv, Issues, IInv, TypeOK, Request
  <2> QED
    BY <2>1, <2>2
<1>13. CookieIsCurrent'
  <2>1. ASSUME cookie # None, sessions'[tokens'[cookie].sid] = "live"
        PROVE  /\ sessions[tokens[cookie].sid] = "live"
               /\ tokens[cookie].state = "live" => tokens'[cookie].state = "live"
    <3>1. cookie \in Tid /\ tokens[cookie].sid \in Sid
      BY <2>1 DEF CookieInv, CookieKnown, TokensHaveSessions, Committed
    <3> QED
      BY <1>3, <1>4, <1>6, <2>1, <3>1
  <2> QED
    BY <1>1, <1>2, <1>3, <2>1, CurrentStep
<1>14. \A p : HasToken(p) => HasToken(p)'
  BY <1>3, <1>7 DEF HasToken
<1>15. \A t \in Tabs : MemKnown(t)'
  BY <1>1, <1>14 DEF LogoutInv, MemKnown
<1>16. \A q \in Slots : SidKnown(q)'
  BY <1>1, <1>2, <1>14 DEF LogoutInv, SidKnown
<1>17. \A q \in Slots : Kinds(q)'
  BY <1>2, <1>4 DEF LogoutInv, Kinds
<1>18. \A q \in Slots : Holds(q)'
  BY <1>2, <1>4, <1>5 DEF LogoutInv, Holds, Ending
<1>19. \A q \in Slots, k \in Tid : Rotates(q, k)' =>
         q # r /\ Rotates(q, k) /\ requests'[q] = requests[q]
  BY <1>2 DEF Rotates
<1>20. \A q \in Slots : Covers(q)'
  <2> SUFFICES ASSUME NEW q \in Slots, Ending(q)', requests'[q].pc = "sweeping",
                      NEW k \in Tid, tokens'[k].state = "live",
                      tokens'[k].sid = requests'[q].sid,
                      \/ sessions'[tokens'[k].sid] = "live"
                      \/ \E p \in Slots : Rotates(p, k)'
               PROVE  k \in requests'[q].todo \/ tokenLock'[k] = q
    BY DEF Covers
  <2>1. q # r /\ requests'[q] = requests[q] /\ Ending(q)
    BY <1>2 DEF Ending
  <2>2. tokens'[k] = tokens[k] /\ tokens[k].sid \in Sid
    BY <1>7 DEF CookieInv, TokensHaveSessions
  <2>3. sessions'[tokens[k].sid] = "live" => sessions[tokens[k].sid] = "live"
    BY <1>4, <2>2
  <2> QED
    BY <1>5, <1>19, <2>1, <2>2, <2>3 DEF LogoutInv, Covers
<1>21. ASSUME NEW q \in Slots
       PROVE  Over(q)'
  <2>1. \A k \in Tid : tokens'[k].state = "live" => tokens'[k] = tokens[k]
    BY <1>7
  <2>2. CASE q = r
    <3> SUFFICES ASSUME requests[r].kind = "logout"
                 PROVE  Over(r)'
      BY <1>2, <2>2 DEF Over
    <3>1. s \in Sid /\ Ending(r)
      BY <1>1 DEF LogoutInv, Holds, Ending
    <3> SUFFICES ASSUME NEW p \in Slots, NEW k \in Tid, Rotates(p, k)', requests'[p].sid = s,
                        tokens'[k].state = "live"
                 PROVE  FALSE
      BY <1>2, <1>4, <3>1 DEF Over
    <3>2. Rotates(p, k) /\ requests[p].sid = s /\ tokens[k].state = "live"
      BY <1>19, <2>1
    <3>3. tokens[k].sid = s
      BY <3>2 DEF Rotates, IInv, Core, Selections, Rotations
    <3>4. tokenLock[k] = r
      BY <1>1, <3>1, <3>2, <3>3 DEF LogoutInv, Covers
    <3> QED
      BY <1>3, <3>2, <3>4
  <2>3. CASE q # r
    <3>1. requests'[q] = requests[q] /\ Over(q)
      BY <1>2, <2>3 DEF LogoutInv
    <3>2. \A p : sessions[p] = "revoked" => sessions'[p] = "revoked"
      BY <1>1, <1>4 DEF IInv, TypeOK
    <3> QED
      BY <1>19, <2>1, <3>1, <3>2 DEF Over
  <2> QED
    BY <2>2, <2>3
<1> QED
  BY <1>8, <1>9, <1>10, <1>11, <1>12, <1>13, <1>15, <1>16, <1>17, <1>18, <1>20, <1>21
     DEF CookieInv, LogoutInv

LEMMA RollBackCInv ==
  ASSUME IInv, CookieInv, LogoutInv, NEW r \in Slots, RollBack(r), requests[r].pc # "reply"
  PROVE  CookieInv' /\ LogoutInv'
<1>1. /\ UNCHANGED <<sessions, cookie, tab, undelivered>> /\ Release(r) /\ Reply(r, "no")
  BY DEF RollBack, browser
<1>2. /\ requests'[r].kind = requests[r].kind /\ requests'[r].pc = "reply"
      /\ requests'[r].new = None /\ requests'[r].todo = {}
      /\ requests'[r].res = "no" /\ requests'[r].tok = None
      /\ \A q \in Slots \ {r} : requests'[q] = requests[q]
  BY <1>1, TameTyped, ReplyFields
<1>3. \A k \in Tid : /\ tokens[k].state = "pending" /\ requests[r].new = k => tokens'[k] = NoToken
                     /\ ~(tokens[k].state = "pending" /\ requests[r].new = k)
                          => tokens'[k] = tokens[k]
  BY DEF RollBack
<1>4. /\ \A k \in Tid, q \in Slots : tokenLock'[k] = q <=> q # r /\ tokenLock[k] = q
      /\ \A p \in Sid, q \in Slots : sessionLock'[p] = q <=> q # r /\ sessionLock[p] = q
  BY <1>1, Releases
<1>5. \A k \in Tid : /\ Committed(k) => tokens'[k] = tokens[k] /\ Committed(k)'
                     /\ tokens'[k].state # "absent" => tokens'[k] = tokens[k]
                     /\ tokens'[k].parent \in {None, tokens[k].parent}
  BY <1>3 DEF Committed, NoToken
<1>6. CookieKnown' /\ PresentedKnown'
  BY <1>1, <1>2, <1>5 DEF CookieInv, CookieKnown, PresentedKnown, IInv, TypeOK, Request
<1>7. TokensHaveSessions' /\ RevokedEnded'
  BY <1>1, <1>5 DEF CookieInv, TokensHaveSessions, RevokedEnded
<1>8. LocksOwned'
  BY <1>2, <1>4, <1>5 DEF CookieInv, LocksOwned
<1>9. TodoOwned'
  BY <1>2, <1>5 DEF CookieInv, TodoOwned, IInv, TypeOK, Request
<1>10. \A q \in Slots : Issues(q)'
  <2>1. Issues(r)'
    BY <1>2 DEF Issues
  <2>2. ASSUME NEW q \in Slots \ {r} PROVE Issues(q)'
    <3>1. Issues(q) /\ requests'[q] = requests[q] /\ requests[q] \in Request
      BY <1>2 DEF CookieInv, IInv, TypeOK
    <3>2. requests[q].tok \in Tid \cup {None} /\ requests[q].new \in Tid \cup {None}
      BY <3>1 DEF Request
    <3> QED BY <1>1, <1>2, <1>5, <3>1, <3>2 DEF Issues
  <2> QED
    BY <2>1, <2>2
<1>11. CookieIsCurrent'
  <2> SUFFICES ASSUME cookie # None, sessions[tokens[cookie].sid] = "live",
                      tokens[cookie].state # "live"
               PROVE  \E k \in Tid :
                        /\ tokens'[k].parent = cookie
                        /\ k \in undelivered \/ \E q \in Slots : requests'[q].new = k
    BY <1>1, <1>5 DEF CookieIsCurrent, CookieInv, CookieKnown
  <2>1. PICK k \in Tid : /\ tokens[k].parent = cookie
                         /\ k \in undelivered \/ \E q \in Slots : requests[q].new = k
    BY DEF CookieInv, CookieIsCurrent
  <2>2. tokens[k].state # "pending"
    <3> SUFFICES ASSUME tokens[k].state = "pending" PROVE FALSE
      OBVIOUS
    <3>1. PICK q \in Slots : requests[q].pc = "rotating" /\ requests[q].new = k
      BY DEF IInv, Core, PendingOwned
    <3> QED
      BY <2>1, <3>1 DEF IInv, Core, Rotations
  <2>3. requests[r].new # k
    <3> SUFFICES ASSUME requests[r].new = k PROVE FALSE
      OBVIOUS
    <3>1. requests[r].pc = "rotating"
      BY TameTyped DEF Tid, None
    <3> QED
      BY <2>2, <3>1 DEF IInv, Core, Rotations
  <2>4. tokens'[k] = tokens[k]
    BY <1>3, <2>2
  <2> QED
    BY <1>2, <2>1, <2>3, <2>4
<1>12. \A p : HasToken(p) => HasToken(p)'
  BY <1>5 DEF HasToken
<1>13. \A t \in Tabs : MemKnown(t)'
  BY <1>1, <1>12 DEF LogoutInv, MemKnown
<1>14. \A q \in Slots : SidKnown(q)' /\ Kinds(q)'
  BY <1>1, <1>2, <1>12 DEF LogoutInv, SidKnown, Kinds
<1>15. \A q \in Slots : Holds(q)'
  BY <1>1, <1>2, <1>4 DEF LogoutInv, Holds, Ending
<1>16. \A q \in Slots, k \in Tid : Rotates(q, k)' =>
         q # r /\ Rotates(q, k) /\ requests'[q] = requests[q]
  BY <1>2 DEF Rotates
<1>17. \A q \in Slots : Covers(q)'
  BY <1>1, <1>2, <1>4, <1>5, <1>16 DEF LogoutInv, Covers, Ending
<1>18. \A q \in Slots : Over(q)'
  BY <1>1, <1>2, <1>5, <1>16 DEF LogoutInv, Over
<1> QED
  BY <1>6, <1>7, <1>8, <1>9, <1>10, <1>11, <1>13, <1>14, <1>15, <1>17, <1>18
     DEF CookieInv, LogoutInv

LEMMA RevokeSessionsCInv ==
  ASSUME IInv, CookieInv, LogoutInv, NEW kept, RevokeSessions(kept)
  PROVE  CookieInv' /\ LogoutInv'
<1>1. UNCHANGED <<tokens, sessionLock, tokenLock, requests, cookie, tab, undelivered>>
  BY DEF RevokeSessions, browser
<1>2. /\ \A p \in Sid : sessions'[p] \in {sessions[p], "revoked"}
      /\ \A p \in Sid : sessions'[p] = "absent" <=> sessions[p] = "absent"
      /\ \A k \in Tid : Committed(k) => tokens[k].sid \in Sid
  BY DEF RevokeSessions, CookieInv, TokensHaveSessions, Committed
<1>3. CookieKnown' /\ PresentedKnown' /\ TokensHaveSessions' /\ LocksOwned' /\ TodoOwned'
  BY <1>1 DEF CookieInv, CookieKnown, PresentedKnown, TokensHaveSessions, LocksOwned, TodoOwned,
     Committed
<1>4. RevokedEnded'
  BY <1>1, <1>2 DEF CookieInv, RevokedEnded, Committed
<1>5. \A q \in Slots : Issues(q)'
  BY <1>1 DEF CookieInv, Issues
<1>6. CookieIsCurrent'
  <2>1. cookie # None => /\ tokens[cookie].sid \in Sid
                         /\ sessions'[tokens[cookie].sid] \in {sessions[tokens[cookie].sid], "revoked"}
    BY <1>2 DEF CookieInv, CookieKnown
  <2> QED
    BY <1>1, <2>1, CurrentStep
<1>7. \A p : HasToken(p)' = HasToken(p)
  BY <1>1 DEF HasToken, Committed
<1>8. \A t \in Tabs : MemKnown(t)'
  BY <1>1, <1>7 DEF LogoutInv, MemKnown
<1>9. \A q \in Slots : SidKnown(q)' /\ Kinds(q)'
  BY <1>1, <1>2, <1>7 DEF LogoutInv, SidKnown, Kinds
<1>10. \A q \in Slots : Holds(q)'
  BY <1>1, <1>2 DEF LogoutInv, Holds, Ending
<1>11. \A q \in Slots : Covers(q)'
  <2>1. \A k \in Tid : tokens[k].state = "live" /\ sessions'[tokens[k].sid] = "live"
                         => sessions[tokens[k].sid] = "live"
    BY <1>2 DEF Committed
  <2> QED
    BY <1>1, <2>1 DEF LogoutInv, Covers, Ending, Rotates
<1>12. \A q \in Slots : Over(q)'
  BY <1>1, <1>2 DEF LogoutInv, Over, Rotates
<1> QED
  BY <1>3, <1>4, <1>5, <1>6, <1>8, <1>9, <1>10, <1>11, <1>12 DEF CookieInv, LogoutInv

LEMMA InitCInv == Init => CookieInv /\ LogoutInv
<1> SUFFICES ASSUME Init PROVE CookieInv /\ LogoutInv
  OBVIOUS
<1>1. 1 \in Sid /\ 1 \in Tid
  BY SessionsAssumption, RefreshesAssumption DEF Sid, Tid
<1>2. CookieInv
  BY <1>1, FreeIsNoSlot DEF Init, CookieInv, CookieKnown, PresentedKnown, TokensHaveSessions,
     RevokedEnded, LocksOwned, TodoOwned, CookieIsCurrent, Issues, Committed, NoRequest, NoToken,
     None
<1>3. LogoutInv
  BY DEF Init, LogoutInv, MemKnown, SidKnown, Kinds, Holds, Covers, Over, Ending, NoRequest,
     ClosedTab
<1> QED
  BY <1>2, <1>3

LEMMA CInvNext == IInv /\ CookieInv /\ LogoutInv /\ [Next]_vars => CookieInv' /\ LogoutInv'
<1> SUFFICES ASSUME IInv, CookieInv, LogoutInv, [Next]_vars PROVE CookieInv' /\ LogoutInv'
  OBVIOUS
<1>1. TypeOK' /\ tab \in [Tabs -> Tab]
  BY TypeStep DEF IInv, TypeOK
<1>2. ASSUME NEW r \in Slots, Tame(r) PROVE CookieInv' /\ LogoutInv'
  BY <1>1, <1>2, TameCookie, TameLogout
<1>3. ASSUME NEW r \in Slots, Serve(r) PROVE CookieInv' /\ LogoutInv'
  BY <1>2, <1>3, LoginSessionCInv, LoginTokenCInv, RotateReadTame, RotateReuseTame,
     RotateRevokedTame, RotateInsertCInv, RotateCommitCInv, LogoutReadTame, LogoutLockTame,
     SweepStartTame, SweepRowTame, SweepCommitCInv DEF Serve
<1>4. ASSUME NEW r \in Slots, DeadlockAbort(r) \/ Fail(r) PROVE CookieInv' /\ LogoutInv'
  <2>1. RollBack(r) /\ requests[r].pc # "reply"
    BY <1>4 DEF DeadlockAbort, Fail, InDeadlock, WaitsFor
  <2> QED
    BY <2>1, RollBackCInv
<1>5. ASSUME NEW r \in Slots, Lose(r) PROVE CookieInv' /\ LogoutInv'
  BY <1>2, <1>5, LoseTame
<1>6. ASSUME NEW t \in Tabs, Deliver(t) PROVE CookieInv' /\ LogoutInv'
  BY <1>2, <1>6, DeliverTame
<1>7. ASSUME NEW t \in Tabs,
             \/ Open(t) \/ LoadProfile(t) \/ FetchRefresh(t)
             \/ Login(t) \/ Logout(t) \/ ClearBrowser(t)
      PROVE  CookieInv' /\ LogoutInv'
  BY <1>2, <1>7, BrowserSendTame
<1>8. ASSUME NEW t \in Tabs,
             \/ OpenSignedOut(t) \/ Close(t) \/ Expire(t)
             \/ MeAccepted(t) \/ MeRetried(t) \/ FetchRejected(t) \/ FetchRefused(t)
      PROVE  CookieInv' /\ LogoutInv'
  <2>1. UNCHANGED <<database, requests, cookie, undelivered>>
    BY <1>8 DEF OpenSignedOut, Close, Expire, MeAccepted, MeRetried, FetchRejected, FetchRefused
  <2>2. \A u \in Tabs : tab'[u].mem \in {None, tab[u].mem}
    BY <1>1, <1>8 DEF OpenSignedOut, Close, Expire, MeAccepted, MeRetried, FetchRejected,
       FetchRefused, Show, ClosedTab
  <2> QED
    BY <2>1, <2>2, TabStep
<1>9. ASSUME NEW kept, RevokeSessions(kept) PROVE CookieInv' /\ LogoutInv'
  BY <1>9, RevokeSessionsCInv
<1>10. ASSUME UNCHANGED vars PROVE CookieInv' /\ LogoutInv'
  BY <1>10, TabStep DEF vars, browser
<1> QED
  BY <1>3, <1>4, <1>5, <1>6, <1>7, <1>8, <1>9, <1>10
     DEF Next, Progress, Browse, PasswordReset, PasswordChange

LEMMA CInvAlways == Spec => [](IInv /\ CookieInv /\ LogoutInv)
<1>1. IInv /\ CookieInv /\ LogoutInv /\ [Next]_vars => (IInv /\ CookieInv /\ LogoutInv)'
  BY TypeStep, CoreStep, CInvNext DEF IInv
<1> QED
  BY InitIInv, InitCInv, <1>1, PTL DEF Spec

\* The browser's cookie (set by the refresh route from what rotateRefreshToken returned)
\* is a token that is accepted, or its successor is on its way or was lost: whatever the
\* order in which the tabs refresh, sign in and out, no page is left with a token that the
\* server would take for a replay.
THEOREM CookiesStayCurrent == Spec => []CookieIsCurrent
<1>1. CookieInv => CookieIsCurrent
  BY DEF CookieInv
<1> QED
  BY CInvAlways, <1>1, PTL

\* Once the transaction of revokeSession has committed for a logout, no refresh that was
\* in the middle of rotateRefreshToken gets a token of that session.
THEOREM LogoutsEndRotation == Spec => RotationEndsWithLogout
<1>1. IInv /\ LogoutInv =>
        \A r \in Slots :
          requests[r].pc = "rotating" /\ requests'[r].res = "ok"
            => ~\E q \in Slots :
                 /\ requests[q].kind = "logout" /\ requests[q].pc = "reply"
                 /\ requests[q].res = "ok"
                 /\ requests[q].sid = requests[r].sid
  BY DEF IInv, Core, Rotations, LogoutInv, Over, Rotates
<1> QED
  BY CInvAlways, <1>1, PTL DEF RotationEndsWithLogout

-----------------------------------------------------------------------------
(* What is managed with the workbench.                                     *)

DeliveriesInv == part = "notifications" => Notifications!IInv /\ Notifications!HooksSee

PanelInv == part = "panel" => Panel!IInv /\ Panel!PanelInv

DraftsInv == part = "drafts" => Drafts!IInv

AccountsInv == part = "accounts" => AccountEdits!IInv

SyncsInv == part = "syncs" => ModelSyncs!IInv

EditorInv == part = "editor" => Drafts!EditorInv

DeskInv == part = "desk" => AccountEdits!DeskInv

-----------------------------------------------------------------------------
\* The assumptions of the components.
LEMMA Fits ==
  /\ Notifications!ConstantsFit /\ Panel!PanelConstantsFit
  /\ AccountEdits!ConstantsFit /\ ModelSyncs!ConstantsFit /\ NoId \notin As
  /\ Drafts!EditorFits /\ AccountEdits!DeskFits
BY IdsAssumption, NamesAssumption
   DEF Notifications!ConstantsFit, Panel!ConstantsFit, Panel!PanelConstantsFit, AccountEdits!ConstantsFit,
       ModelSyncs!ConstantsFit, Drafts!EditorFits, AccountEdits!DeskFits

\* An action of the workbench is one of the part it is about,
LEMMA PartActs ==
  ASSUME WorkbenchNext
  PROVE  /\ UNCHANGED part
         /\ part = "notifications" => Notifications!Next
         /\ part = "panel" => Panel!PanelNext
         /\ part = "drafts" => Drafts!Next
         /\ part = "accounts" => AccountEdits!Next
         /\ part = "syncs" => ModelSyncs!Next
         /\ part = "editor" => Drafts!EditorNext
         /\ part = "desk" => AccountEdits!DeskNext
BY DEF WorkbenchNext, Rest

\* and so is a step.
LEMMA PartSteps ==
  ASSUME [WorkbenchNext]_workbenchVars
  PROVE  /\ UNCHANGED part
         /\ part = "notifications" => [Notifications!Next]_(Notifications!vars)
         /\ part = "panel" => [Panel!PanelNext]_(Panel!panelVars)
         /\ part = "drafts" => [Drafts!Next]_(Drafts!vars)
         /\ part = "accounts" => [AccountEdits!Next]_(AccountEdits!vars)
         /\ part = "syncs" => [ModelSyncs!Next]_(ModelSyncs!vars)
         /\ part = "editor" => [Drafts!EditorNext]_(Drafts!editorVars)
         /\ part = "desk" => [AccountEdits!DeskNext]_(AccountEdits!deskVars)
<1>1. CASE WorkbenchNext
  BY <1>1, PartActs
<1>2. CASE UNCHANGED workbenchVars
  BY <1>2 DEF workbenchVars, hookVars, panelVars, draftVars, providerVars, editorVars, deskVars, Notifications!vars,
              Panel!panelVars, Drafts!vars, AccountEdits!vars, ModelSyncs!vars, Drafts!editorVars, AccountEdits!deskVars
<1> QED BY <1>1, <1>2

LEMMA DeliveriesInvariance == WorkbenchSpec => []DeliveriesInv
<1>1. WorkbenchInit => DeliveriesInv
  <2> SUFFICES ASSUME Notifications!Init PROVE Notifications!IInv /\ Notifications!HooksSee
    BY DEF WorkbenchInit, DeliveriesInv
  <2> QED BY Fits, Notifications!InitIInv, Notifications!InitHooksSee
<1>2. DeliveriesInv /\ [WorkbenchNext]_workbenchVars => DeliveriesInv'
  BY PartSteps, Fits, Notifications!IInvNext, Notifications!SeenNext DEF DeliveriesInv
<1> QED BY <1>1, <1>2, PTL DEF WorkbenchSpec

LEMMA PanelInvariance == WorkbenchSpec => []PanelInv
<1>1. WorkbenchInit => PanelInv
  <2> SUFFICES ASSUME Panel!PanelInit PROVE Panel!IInv /\ Panel!PanelInv
    BY DEF WorkbenchInit, PanelInv
  <2> QED BY Fits, Panel!InitIInv, Panel!InitPanelInv DEF Panel!PanelInit, Panel!PanelConstantsFit
<1>2. PanelInv /\ [WorkbenchNext]_workbenchVars => PanelInv'
  BY PartSteps, Fits, Panel!PanelInvNext DEF PanelInv
<1> QED BY <1>1, <1>2, PTL DEF WorkbenchSpec

LEMMA DraftsInvariance == WorkbenchSpec => []DraftsInv
<1>1. WorkbenchInit => DraftsInv
  BY Drafts!InitIInv DEF WorkbenchInit, DraftsInv
<1>2. DraftsInv /\ [WorkbenchNext]_workbenchVars => DraftsInv'
  BY PartSteps, Fits, Drafts!IInvNext DEF DraftsInv
<1> QED BY <1>1, <1>2, PTL DEF WorkbenchSpec

LEMMA ProvidersInvariance == WorkbenchSpec => [](AccountsInv /\ SyncsInv)
<1>1. WorkbenchInit => AccountsInv /\ SyncsInv
  <2>1. AccountEdits!Init => AccountEdits!IInv
    BY Fits, AccountEdits!InitInv DEF AccountEdits!IInv
  <2>2. ModelSyncs!Init => ModelSyncs!IInv
    BY Fits, ModelSyncs!InitInv DEF ModelSyncs!IInv
  <2> QED BY <2>1, <2>2 DEF WorkbenchInit, AccountsInv, SyncsInv
<1>2. AccountsInv /\ [WorkbenchNext]_workbenchVars => AccountsInv'
  BY PartSteps, Fits, AccountEdits!NextInv DEF AccountsInv
<1>3. SyncsInv /\ [WorkbenchNext]_workbenchVars => SyncsInv'
  BY PartSteps, Fits, ModelSyncs!NextInv DEF SyncsInv
<1> QED BY <1>1, <1>2, <1>3, PTL DEF WorkbenchSpec

LEMMA EditorInvariance == WorkbenchSpec => []EditorInv
<1>1. WorkbenchInit => EditorInv
  BY Fits, Drafts!EditorBegins DEF WorkbenchInit, EditorInv
<1>2. EditorInv /\ [WorkbenchNext]_workbenchVars => EditorInv'
  BY PartSteps, Drafts!EditorStep DEF EditorInv
<1> QED BY <1>1, <1>2, PTL DEF WorkbenchSpec

LEMMA DeskInvariance == WorkbenchSpec => []DeskInv
<1>1. WorkbenchInit => DeskInv
  BY Fits, AccountEdits!DeskBegins DEF WorkbenchInit, DeskInv
<1>2. DeskInv /\ [WorkbenchNext]_workbenchVars => DeskInv'
  BY PartSteps, Fits, AccountEdits!DeskStep DEF DeskInv
<1> QED BY <1>1, <1>2, PTL DEF WorkbenchSpec

-----------------------------------------------------------------------------
\* Deliveries that are repeated, reordered or overtaken leave the store of notifications as
\* it should be (packet-agent.ts:118-160, 440-491).
THEOREM NotificationsAreStored == WorkbenchSpec => []DeliveriesAreStored
<1>1. DeliveriesInv => DeliveriesAreStored
  BY DEF DeliveriesInv, DeliveriesAreStored, Notifications!IInv, Notifications!HooksFit, Notifications!HookFits,
         Notifications!AnsweredIsStored
<1> QED BY DeliveriesInvariance, <1>1, PTL

\* Overlapping requests leave drafts and bindings, versions, model bindings and default
\* accounts consistent (draft/route.ts:140-223; publish/route.ts:24-70;
\* provider-sync-deps.ts:110-195; accounts/[accountId]/route.ts:42-66).
THEOREM OverlappingWritesAgree == WorkbenchSpec => []TablesAgree
<1>1. DraftsInv => (part = "drafts" => Drafts!TypeOK /\ Drafts!BindingsFollowSpec /\ Drafts!VersionsAreWhole)
  BY DEF DraftsInv, Drafts!IInv
<1>2. AccountsInv =>
        (part = "accounts" => AccountEdits!TypeOK /\ AccountEdits!OneBindingPerModel /\ AccountEdits!DefaultsCrossed)
  BY Fits, AccountEdits!OneLinked, AccountEdits!CrossedDefaults DEF AccountsInv, AccountEdits!IInv
<1>3. SyncsInv => (part = "syncs" => ModelSyncs!TypeOK /\ ModelSyncs!OneBindingPerModel /\ ModelSyncs!DefaultsCrossed)
  BY Fits, ModelSyncs!OneLinked, ModelSyncs!CrossedDefaults DEF SyncsInv, ModelSyncs!IInv
<1>4. DraftsInv /\ AccountsInv /\ SyncsInv => TablesAgree
  BY <1>1, <1>2, <1>3 DEF TablesAgree
<1> QED BY DraftsInvariance, ProvidersInvariance, <1>4, PTL

\* Answers that come late or in another order leave the pages showing what they say they
\* show, and their buttons come back (agents/page.tsx:532-1046, PacketAgentPanel.tsx:83-161,
\* providers-manager.tsx:180-375, models-client.tsx:173-342).
THEOREM PagesStayCurrent == WorkbenchSpec => []PagesAreCurrent
<1>1. PanelInv => (part = "panel" => Panel!PanelTypeOK /\ Panel!PanelIsCurrent)
  BY Panel!ShowsCurrent DEF PanelInv, Panel!PanelInv
<1>2. EditorInv => (part = "editor" => Drafts!EditorTypeOK /\ Drafts!BusyIsWork /\ Drafts!MonitorIsOfAgent)
  BY Drafts!EditorShows DEF EditorInv
<1>3. DeskInv =>
        (part = "desk" =>
           /\ AccountEdits!DeskTypeOK /\ AccountEdits!DeskIsCurrent
           /\ AccountEdits!WaitsForWork /\ AccountEdits!FormsAreAllowed)
  BY Fits, AccountEdits!DeskShows DEF DeskInv
<1>4. PanelInv /\ EditorInv /\ DeskInv => PagesAreCurrent
  BY <1>1, <1>2, <1>3 DEF PagesAreCurrent
<1> QED BY PanelInvariance, EditorInvariance, DeskInvariance, <1>4, PTL

\* No step of a component undoes what another actor chose (packet-agent.ts:130-134,
\* provider-sync-deps.ts:167-176, models/route.ts:79-102, runs/route.ts:83-85).
THEOREM NothingChosenIsUndone == WorkbenchSpec => ChoicesAreKept
<1>1. DeliveriesInv /\ WorkbenchNext => (part = "notifications" => Notifications!CheckpointKeptStep)
  BY PartActs, Fits, Notifications!KeepsCheckpoint DEF DeliveriesInv
<1>2. PanelInv /\ WorkbenchNext => (part = "panel" => Panel!StartsWhatWasReadStep)
  BY PartActs, Panel!StartsAsRead DEF PanelInv
<1>3. AccountsInv /\ WorkbenchNext => (part = "accounts" => AccountEdits!ChoiceSurvivesStep)
  BY PartActs, Fits, AccountEdits!KeepsChoice DEF AccountsInv
<1>4. SyncsInv /\ WorkbenchNext => (part = "syncs" => ModelSyncs!ChoiceSurvivesStep)
  BY PartActs, Fits, ModelSyncs!KeepsChoice DEF SyncsInv
<1>5. WorkbenchSpec => [](DeliveriesInv /\ PanelInv /\ AccountsInv /\ SyncsInv)
  BY DeliveriesInvariance, PanelInvariance, ProvidersInvariance, PTL
<1> QED BY <1>1, <1>2, <1>3, <1>4, <1>5, PTL DEF WorkbenchSpec, ChoicesAreKept
=============================================================================
