------------------------------ MODULE Sessions ------------------------------
(***************************************************************************)
(* The sessions of one user: the rows of sessions and refresh_tokens, the  *)
(* transactions of the auth package that rotate and revoke them, and the   *)
(* tabs of one browser, which share a refresh cookie and keep an access    *)
(* token each.                                                             *)
(*                                                                         *)
(* A transaction takes its row locks one action at a time, in the order of *)
(* its statements.  Nobody sees what it wrote before it commits, so the    *)
(* action that commits writes the rows; only the new token is visible (as  *)
(* "pending") before, because its identifier is taken.  createSession      *)
(* gives a session one family of tokens, so the family is the session.     *)
(***************************************************************************)
EXTENDS Naturals, FiniteSets

CONSTANTS Tabs,         \* the tabs of the browser
          MaxSessions,  \* logins that succeed in a behaviour
          MaxRefreshes, \* page loads and later refreshes that take a token
          MaxIncidents  \* failures, losses, expiries, closed tabs, password
                        \* changes, logouts of a tab that is not signed in

ASSUME SessionsAssumption == MaxSessions \in Nat \ {0}
ASSUME RefreshesAssumption == MaxRefreshes \in Nat
ASSUME IncidentsAssumption == MaxIncidents \in Nat

VARIABLES sessions,    \* [id |-> "absent", "live" or "revoked"], as committed
          tokens,      \* the rows of refresh_tokens
          sessionLock, \* the request whose transaction holds the row
          tokenLock,   \* likewise
          requests,    \* the requests in flight, two slots for each tab
          cookie,      \* the refresh cookie of the browser
          tab,         \* what each tab shows and holds
          refreshes,   \* tokens spoken for by page loads
          undelivered, \* tokens whose response never reached the browser
          incidents    \* how many of those there were

database == <<sessions, tokens, sessionLock, tokenLock>>
browser == <<cookie, tab, refreshes, undelivered>>
vars == <<database, requests, browser, incidents>>

-----------------------------------------------------------------------------
Sid == 1..MaxSessions
Tid == 1..(MaxSessions + MaxRefreshes)
None == 0

\* Each tab has at most one refresh in flight (refreshInFlight) and at most one
\* login or logout (the forms are disabled while one is pending).
Slots == Tabs \X {"refresh", "user"}
Free == <<>>

\* "live": neither used_at nor revoked_at; "spent": both; "revoked": only revoked_at.
Token == [state : {"absent", "pending", "live", "spent", "revoked"},
          sid : Sid \cup {None}, parent : Tid \cup {None}]

Request == [kind : {"none", "refresh", "login", "logout"},
            pc : {"idle", "sent", "selected", "rotating", "ending", "revoking",
                  "sweeping", "inserted", "reply"},
            tok : Tid \cup {None},     \* the refresh token it presented
            sid : Sid \cup {None},     \* the session it is about
            new : Tid \cup {None},     \* the token it issues
            todo : SUBSET Tid,         \* rows its update has still to lock
            res : {"none", "ok", "no", "lost"}]

Tab == [status : {"closed", "loading", "authenticated", "anonymous"},
        mem : Sid \cup {None},   \* the session of memoryAccessToken
        stale : BOOLEAN,         \* that access token has expired
        load : BOOLEAN,          \* loadCurrentUser is running
        me : Sid \cup {None}]    \* the session its getMe was sent with

TypeOK ==
  /\ sessions \in [Sid -> {"absent", "live", "revoked"}]
  /\ tokens \in [Tid -> Token]
  /\ sessionLock \in [Sid -> Slots \cup {Free}]
  /\ tokenLock \in [Tid -> Slots \cup {Free}]
  /\ requests \in [Slots -> Request]
  /\ cookie \in Tid \cup {None}
  /\ tab \in [Tabs -> Tab]
  /\ refreshes \in 0..MaxRefreshes
  /\ undelivered \in SUBSET Tid
  /\ incidents \in 0..MaxIncidents

NoToken == [state |-> "absent", sid |-> None, parent |-> None]

NoRequest == [kind |-> "none", pc |-> "idle", tok |-> None, sid |-> None,
              new |-> None, todo |-> {}, res |-> "none"]

ClosedTab ==
  [status |-> "closed", mem |-> None, stale |-> FALSE, load |-> FALSE, me |-> None]

\* The browser signed in earlier and none of its tabs is open.
Init ==
  /\ sessions = [s \in Sid |-> IF s = 1 THEN "live" ELSE "absent"]
  /\ tokens = [i \in Tid |->
       IF i = 1 THEN [state |-> "live", sid |-> 1, parent |-> None] ELSE NoToken]
  /\ sessionLock = [s \in Sid |-> Free]
  /\ tokenLock = [i \in Tid |-> Free]
  /\ requests = [r \in Slots |-> NoRequest]
  /\ cookie = 1
  /\ tab = [t \in Tabs |-> ClosedTab]
  /\ refreshes = 0
  /\ undelivered = {}
  /\ incidents = 0

-----------------------------------------------------------------------------
(* What transactions are made of.                                          *)

Committed(i) == tokens[i].state \notin {"absent", "pending"}

\* Identifiers are handed out in order.
NextToken(i) ==
  /\ tokens[i].state = "absent"
  /\ \A j \in Tid : j < i => tokens[j].state # "absent"

NextSession(s) ==
  /\ sessions[s] = "absent"
  /\ \A p \in Sid : p < s => sessions[p] # "absent"

\* A row of `locks` that r may take: it is free, or r has it already.
Available(locks, x, r) == locks[x] \in {Free, r}

Released(locks, r) == [x \in DOMAIN locks |-> IF locks[x] = r THEN Free ELSE locks[x]]

Release(r) ==
  /\ sessionLock' = Released(sessionLock, r)
  /\ tokenLock' = Released(tokenLock, r)

\* Only a rotation needs its token after the first statement.
Move(r, pc, sid, new, todo) ==
  requests' = [requests EXCEPT ![r] =
    [kind |-> @.kind, pc |-> pc, tok |-> IF pc \in {"selected", "rotating"} THEN @.tok ELSE None,
     sid |-> sid, new |-> new, todo |-> todo, res |-> "none"]]

Goto(r, pc) ==
  Move(r, pc, requests[r].sid, requests[r].new, requests[r].todo)

Reply(r, res) ==
  requests' = [requests EXCEPT ![r] =
    [kind |-> @.kind, pc |-> "reply", tok |-> None, sid |-> @.sid,
     new |-> IF res = "ok" THEN @.new ELSE None, todo |-> {}, res |-> res]]

\* The request's transaction takes its writes back; the browser gets a 5xx.
RollBack(r) ==
  /\ tokens' = [i \in Tid |->
       IF tokens[i].state = "pending" /\ requests[r].new = i
       THEN NoToken ELSE tokens[i]]
  /\ Release(r)
  /\ Reply(r, "no")
  /\ UNCHANGED <<sessions, browser>>

\* The rows r has locked that were not revoked become so.
Swept(r) == [i \in Tid |->
  IF tokenLock[i] = r /\ tokens[i].state = "live"
  THEN [state |-> "revoked", sid |-> tokens[i].sid, parent |-> tokens[i].parent]
  ELSE tokens[i]]

-----------------------------------------------------------------------------
(* Login: loginWithPassword, then createSession in two statements.         *)

LoginSession(r) ==
  /\ requests[r].kind = "login" /\ requests[r].pc = "sent"
  /\ \E s \in Sid :
       /\ NextSession(s)
       /\ sessions' = [sessions EXCEPT ![s] = "live"]
       /\ Move(r, "inserted", s, None, {})
  /\ UNCHANGED <<tokens, sessionLock, tokenLock, browser, incidents>>

LoginToken(r) ==
  /\ requests[r].pc = "inserted"
  /\ \E i \in Tid :
       /\ NextToken(i)
       /\ tokens' = [tokens EXCEPT ![i] =
            [state |-> "live", sid |-> requests[r].sid, parent |-> None]]
       /\ requests' = [requests EXCEPT ![r] =
            [kind |-> @.kind, pc |-> "reply", tok |-> None, sid |-> @.sid,
             new |-> i, todo |-> {}, res |-> "ok"]]
  /\ UNCHANGED <<sessions, sessionLock, tokenLock, browser, incidents>>

-----------------------------------------------------------------------------
(* Refresh: rotateRefreshToken.                                            *)

\* The select reads its snapshot: the token and, unrevoked, its session.
RotateRead(r) ==
  LET i == requests[r].tok
  IN /\ requests[r].kind = "refresh" /\ requests[r].pc = "sent"
     /\ IF Committed(i) /\ sessions[tokens[i].sid] = "live"
        THEN Move(r, "selected", tokens[i].sid, None, {})
        ELSE Reply(r, "no")
     /\ UNCHANGED <<database, browser, incidents>>

\* `for update of rt`: it locks the row and sees its newest version, but still
\* the session of the snapshot.
RotateReuse(r) ==
  LET i == requests[r].tok
  IN /\ requests[r].pc = "selected"
     /\ Available(tokenLock, i, r)
     /\ tokens[i].state = "spent"
     /\ tokenLock' = [tokenLock EXCEPT ![i] = r]
     /\ Goto(r, "revoking")
     /\ UNCHANGED <<sessions, tokens, sessionLock, browser, incidents>>

RotateRevoked(r) ==
  LET i == requests[r].tok
  IN /\ requests[r].pc = "selected"
     /\ Available(tokenLock, i, r)
     /\ tokens[i].state = "revoked"
     /\ Reply(r, "no")
     /\ UNCHANGED <<database, browser, incidents>>

\* Mutant: the select does not lock the row.
RotateInsertUnlocked(r) ==
  LET i == requests[r].tok
  IN /\ requests[r].pc = "selected"
     /\ tokens[i].state = "live"
     /\ \E j \in Tid :
          /\ NextToken(j)
          /\ tokens' = [tokens EXCEPT ![j] =
               [state |-> "pending", sid |-> requests[r].sid, parent |-> i]]
          /\ Move(r, "rotating", requests[r].sid, j, {})
     /\ UNCHANGED <<sessions, sessionLock, tokenLock, browser, incidents>>

\* It marks the token used and inserts the next one.
RotateInsert(r) ==
  LET i == requests[r].tok
  IN /\ requests[r].pc = "selected"
     /\ Available(tokenLock, i, r)
     /\ tokens[i].state = "live"
     /\ \E j \in Tid :
          /\ NextToken(j)
          /\ tokens' = [tokens EXCEPT ![j] =
               [state |-> "pending", sid |-> requests[r].sid, parent |-> i]]
          /\ Move(r, "rotating", requests[r].sid, j, {})
     /\ tokenLock' = [tokenLock EXCEPT ![i] = r]
     /\ UNCHANGED <<sessions, sessionLock, browser, incidents>>

\* Mutant: the old token is not marked used.
RotateCommitUnmarked(r) ==
  LET j == requests[r].new
  IN /\ requests[r].pc = "rotating"
     /\ Available(sessionLock, requests[r].sid, r)
     /\ tokens' = [tokens EXCEPT
          ![j] = [state |-> "live", sid |-> @.sid, parent |-> @.parent]]
     /\ Release(r)
     /\ Reply(r, "ok")
     /\ UNCHANGED <<sessions, browser, incidents>>

\* It touches the session, which waits for the row, and commits.
RotateCommit(r) ==
  LET i == requests[r].tok
      j == requests[r].new
  IN /\ requests[r].pc = "rotating"
     /\ Available(sessionLock, requests[r].sid, r)
     /\ tokens' = [tokens EXCEPT
          ![i] = [state |-> "spent", sid |-> @.sid, parent |-> @.parent],
          ![j] = [state |-> "live", sid |-> @.sid, parent |-> @.parent]]
     /\ Release(r)
     /\ Reply(r, "ok")
     /\ UNCHANGED <<sessions, browser, incidents>>

-----------------------------------------------------------------------------
(* Logout, and what it shares with a reuse.                                *)

\* Mutant: it takes the identifier of the cookie's token for its session's.
LogoutReadWrongId(r) ==
  LET i == requests[r].tok
  IN /\ requests[r].kind = "logout" /\ requests[r].pc = "sent"
     /\ Move(r, "ending", i, None, {})
     /\ UNCHANGED <<database, browser, incidents>>

\* The session of the access token or, when that is not accepted, of the cookie.
\* Without a cookie the CSRF check refuses the request.
LogoutRead(r) ==
  LET m == requests[r].sid
      i == requests[r].tok
  IN /\ requests[r].kind = "logout" /\ requests[r].pc = "sent"
     /\ IF i = None
        THEN Reply(r, "no")
        ELSE Move(r, "ending",
                  IF m # None /\ sessions[m] = "live" THEN m ELSE tokens[i].sid, None, {})
     /\ UNCHANGED <<database, browser, incidents>>

\* The first update of revokeSession: the row is locked unless it was revoked.
LogoutLock(r) ==
  LET s == requests[r].sid
  IN /\ requests[r].pc = "ending"
     /\ IF sessions[s] = "live"
        THEN /\ Available(sessionLock, s, r)
             /\ sessionLock' = [sessionLock EXCEPT ![s] = r]
        ELSE UNCHANGED sessionLock
     /\ Goto(r, "revoking")
     /\ UNCHANGED <<sessions, tokens, tokenLock, browser, incidents>>

\* Mutant: a logout revokes the session only.
RowsToRevokeOnReuse(r) ==
  {i \in Tid : /\ Committed(i) /\ tokens[i].sid = requests[r].sid
               /\ requests[r].kind = "refresh"}

\* The rows an update of the family finds when it starts.  After a reuse it is
\* unconditional; a logout leaves out the rows that are revoked.
RowsToRevoke(r) ==
  {i \in Tid : /\ Committed(i) /\ tokens[i].sid = requests[r].sid
               /\ requests[r].kind = "logout" => tokens[i].state = "live"}

SweepStart(r) ==
  /\ requests[r].pc = "revoking"
  /\ Move(r, "sweeping", requests[r].sid, None, RowsToRevoke(r))
  /\ UNCHANGED <<database, browser, incidents>>

\* It locks one more row, waiting for whoever holds it.
SweepRow(r) ==
  /\ requests[r].pc = "sweeping"
  /\ \E i \in requests[r].todo :
       /\ Available(tokenLock, i, r)
       /\ tokenLock' = [tokenLock EXCEPT ![i] = r]
       /\ Move(r, "sweeping", requests[r].sid, None, requests[r].todo \ {i})
  /\ UNCHANGED <<sessions, tokens, sessionLock, browser, incidents>>

\* The commit of revokeSession, or of a reuse once it has the session's row.
SweepCommit(r) ==
  LET s == requests[r].sid
  IN /\ requests[r].pc = "sweeping" /\ requests[r].todo = {}
     /\ requests[r].kind = "refresh" => Available(sessionLock, s, r)
     /\ sessions' = [sessions EXCEPT ![s] = "revoked"]
     /\ tokens' = Swept(r)
     /\ Release(r)
     /\ Reply(r, IF requests[r].kind = "logout" THEN "ok" ELSE "no")
     /\ UNCHANGED <<browser, incidents>>

-----------------------------------------------------------------------------
(* Failure.                                                                *)

\* What happens to requests and tabs from outside is bounded as a whole.
Incident ==
  /\ incidents < MaxIncidents
  /\ incidents' = incidents + 1

\* A refusal before the first statement (rate limit, CSRF, password), a failed
\* statement, or a server that dies.
Fail(r) ==
  /\ requests[r].pc \notin {"idle", "reply"}
  /\ Incident
  /\ RollBack(r)

\* r cannot go on until q ends.
WaitsFor(r, q) ==
  LET sl == sessionLock[requests[r].sid]
  IN \/ /\ requests[r].pc = "selected"
        /\ tokenLock[requests[r].tok] = q
     \/ /\ requests[r].pc = "sweeping" /\ requests[r].todo # {}
        /\ \A i \in requests[r].todo : ~Available(tokenLock, i, r)
        /\ \E i \in requests[r].todo : tokenLock[i] = q
     \/ /\ \/ requests[r].pc = "rotating"
           \/ requests[r].pc = "ending" /\ sessions[requests[r].sid] = "live"
           \/ requests[r].pc = "sweeping" /\ requests[r].todo = {}
        /\ sl = q

\* r is on a cycle of waiting transactions: all of C wait for one of C and are
\* waited for by one of C.
InDeadlock(r) ==
  /\ \E q \in Slots : WaitsFor(r, q)
  /\ \E C \in SUBSET Slots :
       /\ r \in C
       /\ \A p \in C : /\ \E q \in C \ {p} : WaitsFor(p, q)
                       /\ \E q \in C \ {p} : WaitsFor(q, p)

\* PostgreSQL aborts a transaction of the cycle, whichever notices first.
DeadlockAbort(r) ==
  /\ InDeadlock(r)
  /\ RollBack(r)
  /\ UNCHANGED incidents

\* The other ways a session ends: a password reset ends all of them, a password
\* change all but the one it was asked from.  Their transactions hold no other rows.
RevokeSessions(kept) ==
  /\ Incident
  /\ \E s \in Sid \ {kept} : sessions[s] = "live"
  /\ \A s \in Sid \ {kept} : sessions[s] = "live" => sessionLock[s] = Free
  /\ sessions' = [s \in Sid |->
       IF s # kept /\ sessions[s] = "live" THEN "revoked" ELSE sessions[s]]
  /\ UNCHANGED <<tokens, sessionLock, tokenLock, requests, browser>>

\* authenticateRequest accepts the tab's access token.
Accepted(t) ==
  /\ tab[t].mem # None /\ ~tab[t].stale
  /\ sessions[tab[t].mem] = "live"

PasswordReset == RevokeSessions(None)

PasswordChange(t) ==
  /\ tab[t].status = "authenticated"
  /\ Accepted(t)
  /\ RevokeSessions(tab[t].mem)

-----------------------------------------------------------------------------
(* A tab: auth-client and auth-provider.                                   *)

Show(t, status, mem, stale, load, me) ==
  tab' = [tab EXCEPT ![t] = [status |-> status, mem |-> mem, stale |-> stale,
                             load |-> load, me |-> me]]

Send(r, kind, tok, sid) ==
  requests' = [requests EXCEPT ![r] =
    [kind |-> kind, pc |-> "sent", tok |-> tok, sid |-> sid, new |-> None,
     todo |-> {}, res |-> "none"]]

Quiet(t) == requests[<<t, "refresh">>].pc = "idle" /\ requests[<<t, "user">>].pc = "idle"

\* A page starts without an access token and exchanges its cookie for one.
Open(t) ==
  /\ tab[t].status = "closed" /\ Quiet(t)
  /\ cookie # None /\ refreshes < MaxRefreshes
  /\ refreshes' = refreshes + 1
  /\ Show(t, "loading", None, FALSE, TRUE, None)
  /\ Send(<<t, "refresh">>, "refresh", cookie, None)
  /\ UNCHANGED <<database, cookie, undelivered, incidents>>

\* "Refresh session and load profile" on the login page.
LoadProfile(t) ==
  /\ tab[t].status = "anonymous" /\ ~tab[t].load
  /\ tab[t].mem = None /\ tab[t].me = None
  /\ requests[<<t, "refresh">>].pc = "idle"
  /\ cookie # None /\ refreshes < MaxRefreshes
  /\ refreshes' = refreshes + 1
  /\ Show(t, "anonymous", None, FALSE, TRUE, None)
  /\ Send(<<t, "refresh">>, "refresh", cookie, None)
  /\ UNCHANGED <<database, cookie, undelivered, incidents>>

OpenSignedOut(t) ==
  /\ tab[t].status = "closed" /\ Quiet(t)
  /\ cookie = None
  /\ Show(t, "anonymous", None, FALSE, FALSE, None)
  /\ UNCHANGED <<database, requests, cookie, refreshes, undelivered, incidents>>

\* A tab that is reloaded is closed and opened: its requests go on.
Close(t) ==
  /\ tab[t].status # "closed"
  /\ Incident
  /\ tab' = [tab EXCEPT ![t] = ClosedTab]
  /\ UNCHANGED <<database, requests, cookie, refreshes, undelivered>>

\* getMe is answered: the page is signed in, whatever has happened to its token.
MeAccepted(t) ==
  /\ tab[t].me # None /\ sessions[tab[t].me] = "live"
  /\ Show(t, "authenticated", tab[t].mem, tab[t].stale, FALSE, None)
  /\ UNCHANGED <<database, requests, cookie, refreshes, undelivered, incidents>>

\* It is answered 401, and authFetch retries with the token in memory.
MeRetried(t) ==
  /\ tab[t].me # None /\ sessions[tab[t].me] # "live"
  /\ tab[t].mem # None
  /\ IF Accepted(t)
     THEN Show(t, "authenticated", tab[t].mem, FALSE, FALSE, None)
     ELSE Show(t, "anonymous", None, FALSE, FALSE, None)
  /\ UNCHANGED <<database, requests, cookie, refreshes, undelivered, incidents>>

\* authFetch in a page that is signed in: it is answered 401, refreshAccessToken
\* returns the token in memory, so the retry presents the same one and the tab
\* gives it up.
FetchRejected(t) ==
  /\ tab[t].status = "authenticated"
  /\ tab[t].mem # None /\ ~Accepted(t)
  /\ Show(t, "anonymous", None, FALSE, tab[t].load, tab[t].me)
  /\ UNCHANGED <<database, requests, cookie, refreshes, undelivered, incidents>>

\* The same with no token in memory.
Tokenless(t) ==
  /\ tab[t].mem = None
  /\ \/ tab[t].me # None /\ sessions[tab[t].me] # "live"
     \/ tab[t].status = "authenticated" /\ tab[t].me = None
  /\ requests[<<t, "refresh">>].pc = "idle"

FetchRefresh(t) ==
  /\ Tokenless(t)
  /\ cookie # None /\ refreshes < MaxRefreshes
  /\ refreshes' = refreshes + 1
  /\ Show(t, tab[t].status, None, FALSE, tab[t].load, None)
  /\ Send(<<t, "refresh">>, "refresh", cookie, None)
  /\ UNCHANGED <<database, cookie, undelivered, incidents>>

FetchRefused(t) ==
  /\ Tokenless(t)
  /\ cookie = None
  /\ Show(t, "anonymous", None, FALSE, FALSE, None)
  /\ UNCHANGED <<database, requests, cookie, refreshes, undelivered, incidents>>

Expire(t) ==
  /\ tab[t].mem # None /\ ~tab[t].stale
  /\ Incident
  /\ Show(t, tab[t].status, tab[t].mem, TRUE, tab[t].load, tab[t].me)
  /\ UNCHANGED <<database, requests, cookie, refreshes, undelivered>>

\* Sessions that logins in flight may still create.
Expected == {r \in Slots : requests[r].kind = "login" /\ requests[r].pc = "sent"}

Login(t) ==
  /\ tab[t].status \in {"loading", "anonymous"}
  /\ requests[<<t, "user">>].pc = "idle"
  /\ Cardinality({s \in Sid : sessions[s] = "absent"}) > Cardinality(Expected)
  /\ Send(<<t, "user">>, "login", None, None)
  /\ UNCHANGED <<database, browser, incidents>>

Logout(t) ==
  /\ tab[t].status = "authenticated"
  /\ requests[<<t, "user">>].pc = "idle"
  /\ Send(<<t, "user">>, "logout", cookie, IF tab[t].stale THEN None ELSE tab[t].mem)
  /\ UNCHANGED <<database, browser, incidents>>

\* "Sign out and clear this browser" on the login page.
ClearBrowser(t) ==
  /\ tab[t].status \in {"loading", "anonymous"}
  /\ requests[<<t, "user">>].pc = "idle"
  /\ Incident
  /\ Send(<<t, "user">>, "logout", cookie, IF tab[t].stale THEN None ELSE tab[t].mem)
  /\ UNCHANGED <<database, browser>>

-----------------------------------------------------------------------------
(* The response.                                                           *)

Settled(r) == requests' = [requests EXCEPT ![r] = NoRequest]

\* Mutant: the refresh route does not set the cookie.
CookieAfterLogin(r) ==
  IF requests[r].res # "ok" \/ requests[r].kind = "refresh" THEN cookie
  ELSE IF requests[r].kind = "logout" THEN None ELSE requests[r].new

\* The browser stores the cookie of a response before the page sees the body.
CookieAfter(r) ==
  IF requests[r].res # "ok" THEN cookie
  ELSE IF requests[r].kind = "logout" THEN None ELSE requests[r].new

\* Mutant: loadCurrentUser leaves the page as it is when the refresh fails.
DeliverRefreshSilently(t) ==
  LET r == <<t, "refresh">>
  IN /\ requests[r].pc = "reply" /\ tab[t].status # "closed"
     /\ cookie' = CookieAfter(r)
     /\ IF requests[r].res = "ok"
        THEN Show(t, tab[t].status, requests[r].sid, FALSE, tab[t].load,
                  IF tab[t].load THEN requests[r].sid ELSE tab[t].me)
        ELSE UNCHANGED tab
     /\ Settled(r)
     /\ UNCHANGED <<database, refreshes, undelivered, incidents>>

\* The connection breaks; fetch throws in an open tab.
Lose(r) ==
  /\ requests[r].pc = "reply" /\ requests[r].res # "lost"
  /\ Incident
  /\ requests' = [requests EXCEPT ![r] =
       [kind |-> @.kind, pc |-> "reply", tok |-> None, sid |-> @.sid,
        new |-> None, todo |-> {}, res |-> "lost"]]
  /\ undelivered' = undelivered \cup ({requests[r].new} \ {None})
  /\ UNCHANGED <<database, cookie, tab, refreshes>>

DeliverRefresh(t) ==
  LET r == <<t, "refresh">>
  IN /\ requests[r].pc = "reply" /\ tab[t].status # "closed"
     /\ cookie' = CookieAfter(r)
     /\ IF requests[r].res = "ok"
        THEN Show(t, tab[t].status, requests[r].sid, FALSE, tab[t].load,
                  IF tab[t].load THEN requests[r].sid ELSE tab[t].me)
        ELSE Show(t, "anonymous", None, FALSE, FALSE, None)
     /\ Settled(r)
     /\ UNCHANGED <<database, refreshes, undelivered, incidents>>

DeliverLogin(t) ==
  LET r == <<t, "user">>
  IN /\ requests[r].pc = "reply" /\ requests[r].kind = "login"
     /\ tab[t].status # "closed"
     /\ cookie' = CookieAfter(r)
     /\ IF requests[r].res = "ok"
        THEN Show(t, "authenticated", requests[r].sid, FALSE, tab[t].load, tab[t].me)
        ELSE UNCHANGED tab
     /\ Settled(r)
     /\ UNCHANGED <<database, refreshes, undelivered, incidents>>

\* Whatever the answer was, the tab forgets its token.
DeliverLogout(t) ==
  LET r == <<t, "user">>
  IN /\ requests[r].pc = "reply" /\ requests[r].kind = "logout"
     /\ tab[t].status # "closed"
     /\ cookie' = CookieAfter(r)
     /\ Show(t, "anonymous", None, FALSE, tab[t].load, tab[t].me)
     /\ Settled(r)
     /\ UNCHANGED <<database, refreshes, undelivered, incidents>>

\* The page is gone: the browser may still store the cookie.
Abandoned(t, slot) ==
  LET r == <<t, slot>>
  IN /\ requests[r].pc = "reply" /\ tab[t].status = "closed"
     /\ cookie' = CookieAfter(r)
     /\ Settled(r)
     /\ UNCHANGED <<database, tab, refreshes, undelivered, incidents>>

-----------------------------------------------------------------------------
Serve(r) ==
  \/ LoginSession(r) \/ LoginToken(r)
  \/ RotateRead(r) \/ RotateReuse(r) \/ RotateRevoked(r) \/ RotateInsert(r)
  \/ RotateCommit(r)
  \/ LogoutRead(r) \/ LogoutLock(r)
  \/ SweepStart(r) \/ SweepRow(r) \/ SweepCommit(r)

Deliver(t) ==
  \/ DeliverRefresh(t) \/ DeliverLogin(t) \/ DeliverLogout(t)
  \/ Abandoned(t, "refresh") \/ Abandoned(t, "user")

Browse(t) ==
  \/ MeAccepted(t) \/ MeRetried(t)
  \/ FetchRejected(t) \/ FetchRefresh(t) \/ FetchRefused(t)

\* The server and the browser do not stop while there is something to do; the user
\* and the incidents need not happen.
Progress ==
  \/ \E r \in Slots : Serve(r) \/ DeadlockAbort(r)
  \/ \E t \in Tabs : Deliver(t) \/ Browse(t)

Next ==
  \/ Progress
  \/ \E r \in Slots : Fail(r) \/ Lose(r)
  \/ \E t \in Tabs : \/ Open(t) \/ OpenSignedOut(t) \/ LoadProfile(t) \/ Close(t)
                     \/ Login(t) \/ Logout(t) \/ ClearBrowser(t)
                     \/ Expire(t) \/ PasswordChange(t)
  \/ PasswordReset

Spec == Init /\ [][Next]_vars

FairSpec == Spec /\ WF_vars(Progress)

-----------------------------------------------------------------------------
(* Properties.                                                             *)

\* The promise of refresh-token-rotation.test.ts: whatever requests present a
\* token, in whatever order, it has at most one successor.
OneChild ==
  \A i, j \in Tid :
    /\ tokens[i].parent # None
    /\ tokens[i].parent = tokens[j].parent
    => i = j

\* A session has at most one refresh token that would be accepted.
OneLiveToken ==
  \A i, j \in Tid :
    /\ tokens[i].state = "live" /\ tokens[j].state = "live"
    /\ tokens[i].sid = tokens[j].sid
    => i = j

\* The browser is not left with a used token of a session that is still open, and
\* so about to be taken for a replay, unless a response was lost: while it holds a
\* used token, the next one is on its way.
CookieIsCurrent ==
  cookie # None /\ sessions[tokens[cookie].sid] = "live"
    => \/ tokens[cookie].state = "live"
       \/ \E i \in Tid :
            /\ tokens[i].parent = cookie
            /\ i \in undelivered \/ \E r \in Slots : requests[r].new = i

\* A refresh that is in the middle of its transaction does not outrun a logout:
\* once revokeSession has committed, no token of the session is rotated.
RotationEndsWithLogout ==
  [][\A r \in Slots :
       requests[r].pc = "rotating" /\ requests'[r].res = "ok"
         => ~\E q \in Slots :
              /\ requests[q].kind = "logout" /\ requests[q].pc = "reply"
              /\ requests[q].res = "ok"
              /\ requests[q].sid = requests[r].sid]_vars

\* Every request is answered, even when a logout and a refresh deadlock, and no page
\* hangs between signed in and signed out: the system always comes to rest.
AtRest ==
  /\ \A r \in Slots : requests[r].pc = "idle"
  /\ \A t \in Tabs : tab[t].status # "loading"

ComesToRest == []<>AtRest

\* "Signed out. Local session storage and refresh cookie were cleared." is what
\* the login page says when the request was answered at all.
SignOutClears ==
  [][\A t \in Tabs :
       LET r == <<t, "user">>
       IN /\ requests[r].kind = "logout" /\ requests[r].pc = "reply"
          /\ requests[r].res # "lost"
          /\ requests'[r].pc = "idle" /\ tab[t].status # "closed"
          => cookie' = None]_vars
=============================================================================
