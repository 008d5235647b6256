----------------------------- MODULE RateLimit -----------------------------
(***************************************************************************)
(* The rate limiter: two scripts that Redis runs atomically, called by     *)
(* server processes that send their own clock along.  A call that is not   *)
(* answered in time is let through, and its script may still run later.    *)
(* One bucket of either algorithm; what differs between buckets is the     *)
(* key.                                                                    *)
(***************************************************************************)
EXTENDS Naturals, FiniteSets

CONSTANTS MaxCalls,
          Limit, Window,  \* of the bucket
          Timeout,        \* RATE_LIMIT_TIMEOUT_MS
          Grace,          \* what a fixed window outlives itself by
          Skew,           \* how far a process's clock is ahead, at most
          MaxNow          \* the last moment

VARIABLES algorithm,
          now,      \* Redis's clock
          entries,  \* the sorted set: calls with their scores
          expiry,   \* when it expires
          windows,  \* the fixed windows that have a counter
          calls

vars == <<algorithm, now, entries, expiry, windows, calls>>

-----------------------------------------------------------------------------
Calls == 1..MaxCalls  \* in the order in which they are sent

Ids == 0..((MaxNow + Skew) \div Window)

\* stamp: Date.now() of the process; lag: how long the script was on its way.
Call == [pc : {"unused", "sent", "admitted", "refused", "opened", "buffered"}, sent : 0..MaxNow, stamp : 0..(MaxNow + Skew), lag : 0..MaxNow]

NoCall == [pc |-> "unused", sent |-> 0, stamp |-> 0, lag |-> 0]

NoWindow == [count |-> 0, expiry |-> 0]

TypeOK ==
  /\ algorithm \in {"sliding-window", "fixed-window"}
  /\ now \in 0..MaxNow
  /\ entries \subseteq Calls \X (0..(MaxNow + Skew))
  /\ expiry \in 0..(MaxNow + Window)
  /\ windows \in [Ids -> [count : 0..Cardinality(Calls), expiry : 0..(MaxNow + Window + Grace)]]
  /\ calls \in [Calls -> Call]

Init ==
  /\ algorithm \in {"sliding-window", "fixed-window"}
  /\ now = 0
  /\ entries = {}
  /\ expiry = 0
  /\ windows = [id \in Ids |-> NoWindow]
  /\ calls = [c \in Calls |-> NoCall]

-----------------------------------------------------------------------------
\* Time passes, and keys that have expired are gone.
Tick ==
  /\ now < MaxNow
  /\ now' = now + 1
  /\ entries' = IF now' >= expiry THEN {} ELSE entries
  /\ windows' = [id \in Ids |-> IF now' >= windows[id].expiry THEN NoWindow ELSE windows[id]]
  /\ UNCHANGED <<algorithm, expiry, calls>>

\* A process whose clock is ahead by offset sends the script.
CheckRateLimit(c, offset) ==
  /\ calls[c].pc = "unused"
  /\ \A d \in 1..(c - 1) : calls[d].pc # "unused"
  /\ calls' = [calls EXCEPT ![c] = [pc |-> "sent", sent |-> now, stamp |-> now + offset, lag |-> 0]]
  /\ UNCHANGED <<algorithm, now, entries, expiry, windows>>

Lag(c) == now - calls[c].sent

\* The script of call c has run; a caller that has given up does not hear its verdict.
Verdict(c, allowed) ==
  calls' = [calls EXCEPT ![c].lag = Lag(c),
                         ![c].pc = IF @ = "buffered" THEN "opened" ELSE IF allowed THEN "admitted" ELSE "refused"]

\* ZREMRANGEBYSCORE key 0 (now - window): what is a whole window old is trimmed.
Trimmed(stamp) == {e \in entries : e[2] + Window > stamp}

\* Mutant of Room: the count is taken before the new entry and compared as if after it.
RoomForOneMore(kept) == Cardinality(kept) <= Limit

Room(kept) == Cardinality(kept) < Limit

\* Both branches set the expiry anew.
SlidingWindow(c) ==
  LET kept == Trimmed(calls[c].stamp) IN
  /\ calls[c].pc \in {"sent", "buffered"} /\ algorithm = "sliding-window"
  /\ entries' = IF Room(kept) THEN kept \cup {<<c, calls[c].stamp>>} ELSE kept
  /\ expiry' = now + Window
  /\ Verdict(c, Room(kept))
  /\ UNCHANGED <<algorithm, now, windows>>

\* Mutant of FixedWindow: the counter expires with its window.
FixedWindowNoGrace(c) ==
  LET id == calls[c].stamp \div Window
      count == windows[id].count + 1
  IN  /\ calls[c].pc \in {"sent", "buffered"} /\ algorithm = "fixed-window"
      /\ windows' = [windows EXCEPT ![id].count = count, ![id].expiry = IF count = 1 THEN now + Window ELSE @]
      /\ Verdict(c, count <= Limit)
      /\ UNCHANGED <<algorithm, now, entries, expiry>>

FixedWindow(c) ==
  LET id == calls[c].stamp \div Window
      count == windows[id].count + 1
  IN  /\ calls[c].pc \in {"sent", "buffered"} /\ algorithm = "fixed-window"
      /\ windows' = [windows EXCEPT ![id].count = count, ![id].expiry = IF count = 1 THEN now + Window + Grace ELSE @]
      /\ Verdict(c, count <= Limit)
      /\ UNCHANGED <<algorithm, now, entries, expiry>>

\* checkWithinTimeout rejects, or the command fails: the request proceeds, and the script
\* may wait in the connection's queue.
FailOpen(c) ==
  /\ calls[c].pc = "sent"
  /\ \E pc \in {"opened", "buffered"} :
       /\ pc = "buffered" => Lag(c) >= Timeout
       /\ calls' = [calls EXCEPT ![c].pc = pc]
  /\ UNCHANGED <<algorithm, now, entries, expiry, windows>>

\* A call that is on its way for longer than that has been given up.
Prompt == \A c \in Calls : calls[c].pc = "sent" => Lag(c) < Timeout

Next ==
  \/ Prompt /\ Tick
  \/ \E c \in Calls :
       \/ \E offset \in 0..Skew : CheckRateLimit(c, offset)
       \/ SlidingWindow(c) \/ FixedWindow(c) \/ FailOpen(c)

Spec == Init /\ [][Next]_vars

-----------------------------------------------------------------------------
(* Properties.                                                             *)

Admitted == {c \in Calls : calls[c].pc = "admitted"}

\* Those sent in an interval that is shorter than the window by the skew and the timeout, and
\* those of a fixed window that the grace of its counter covers.
InInterval(t) == {c \in Admitted : calls[c].stamp \in t..(t + (Window - Skew - Timeout) - 1)}

InGrace(id) == {c \in Admitted : calls[c].stamp \div Window = id /\ calls[c].lag + Skew <= Grace}

\* By the clocks of the callers, the limiter admits no more than the limit in an interval
\* that is shorter than the window by the skew of the clocks and the delay of an answer
\* (jobs/src/index.ts:142-184, rate-limit.ts:44-78).
SlidingLimit ==
  algorithm = "sliding-window" => \A t \in 0..(MaxNow + Skew) : Cardinality(InInterval(t)) <= Limit

\* The limiter admits no more than the limit in a fixed window, leaving out scripts that
\* were on their way for longer than the counter's grace allows (jobs/src/index.ts:118-140).
FixedLimit == algorithm = "fixed-window" => \A id \in Ids : Cardinality(InGrace(id)) <= Limit
=============================================================================
