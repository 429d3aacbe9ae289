---------------------------- MODULE BrowserClose ----------------------------
(***************************************************************************)
(* The GUI server stops when its browser page has gone (internal/webui).   *)
(* A page holds an event stream open and sends heartbeats; the server      *)
(* counts the streams and remembers when it last heard of a page.  Two     *)
(* kinds of goroutines decide to stop: a watcher that looks every tick,    *)
(* and a timer that is started whenever a stream ends.  Both copy the      *)
(* state under the mutex and stop the server after they have released it.  *)
(* A tick is the two seconds of the watcher.  Nothing is assumed about     *)
(* when a goroutine runs: a timer may fire late, and a stream's end may be *)
(* noticed late.  What any specification has is prefixed with the initials *)
(* of this module, so that another can extend it beside its own.           *)
(***************************************************************************)
EXTENDS Naturals, FiniteSets

CONSTANTS Page,       \* browser tabs
          Grace,      \* ticks a timer waits after a stream has ended
          Timeout,    \* ticks the watcher waits after the last sign of a page
          MaxOrphans, \* bound: streams without a page at a time
          MaxTokens   \* bound: tokens the server issues

ASSUME BrowserCloseAssumption ==
    Grace \in Nat \ {0} /\ Timeout \in Nat \ {0} /\ MaxOrphans \in Nat /\ MaxTokens \in Nat \ {0}

\* The grace is 8 seconds, the timeout 10 (server.go:410, main.go:607).
ASSUME GraceAssumption == Grace <= Timeout

VARIABLES
    enabled,   \* browserCloseEnabled, set once
    seen,      \* browserSeen
    sessions,  \* browserSessions
    age,       \* ticks since lastBrowserHeartbeat
    timers,    \* ticks that the grace timers have still to wait
    stopping,  \* a goroutine has decided and not yet closed the channel
    shutdown,  \* the channel is closed: cmdGUI shuts the server down
    token,     \* the server's token
    page,      \* the token each open page was loaded with, 0 if it is closed
    stream,    \* the pages whose stream is up
    orphans,   \* streams whose page has gone, which the server has not noticed
    silent     \* history: ticks since there was a stream or a heartbeat

BCvars == <<enabled, seen, sessions, age, timers, stopping, shutdown, token, page, stream, orphans, silent>>

Server  == <<seen, sessions, age, timers, stopping, shutdown>>
Browser == <<token, page, stream, orphans>>

Cap == 1 + IF Grace > Timeout THEN Grace ELSE Timeout

Later(t) == IF t < Cap THEN t + 1 ELSE t

Open == {p \in Page : page[p] # 0}

BCInit ==
    /\ enabled \in BOOLEAN
    /\ seen = FALSE /\ sessions = 0 /\ age = 0 /\ timers = {}
    /\ stopping = FALSE /\ shutdown = FALSE
    /\ token = 1
    /\ page = [p \in Page |-> 0]
    /\ stream = {} /\ orphans = 0 /\ silent = 0

-----------------------------------------------------------------------------
\* The browser.  A page is loaded with the token of that moment.
OpenPage(p) ==
    /\ page[p] = 0 /\ ~shutdown
    /\ page' = [page EXCEPT ![p] = token]
    /\ UNCHANGED <<enabled, token, stream, orphans, silent>> /\ UNCHANGED Server

\* A page is closed or left; the server still has its stream for a while.
ClosePage(p) ==
    /\ page[p] # 0
    /\ page' = [page EXCEPT ![p] = 0]
    /\ stream' = stream \ {p}
    /\ orphans' = IF p \in stream THEN orphans + 1 ELSE orphans
    /\ orphans' <= MaxOrphans
    /\ UNCHANGED <<enabled, token, silent>> /\ UNCHANGED Server

\* The connection of a stream breaks; the page stays and connects again.
Break(p) ==
    /\ p \in stream /\ orphans < MaxOrphans
    /\ stream' = stream \ {p}
    /\ orphans' = orphans + 1
    /\ UNCHANGED <<enabled, token, page, silent>> /\ UNCHANGED Server

\* Closing the vault or resetting the configuration rotates the token.  The page goes
\* on with the new one, but the address of its stream keeps the old.
RotateToken ==
    /\ token < MaxTokens /\ ~shutdown
    /\ token' = token + 1
    /\ UNCHANGED <<enabled, page, stream, orphans, silent>> /\ UNCHANGED Server

-----------------------------------------------------------------------------
\* handleBrowserSession, its start.  A stream with an old token is refused.
Connect(p) ==
    /\ page[p] = token /\ p \notin stream /\ ~shutdown
    /\ seen' = TRUE
    /\ sessions' = sessions + 1
    /\ age' = 0
    /\ stream' = stream \cup {p}
    /\ silent' = 0
    /\ UNCHANGED <<enabled, timers, stopping, shutdown, token, page, orphans>>

\* Mutant: the ticker of a stream outlives it.
KeepAliveForever ==
    /\ seen
    /\ age' = 0
    /\ UNCHANGED <<enabled, seen, sessions, timers, stopping, shutdown, silent>> /\ UNCHANGED Browser

\* handleBrowserSession, every 15 seconds while the stream is up.
KeepAlive ==
    /\ sessions > 0
    /\ age' = 0
    /\ UNCHANGED <<enabled, seen, sessions, timers, stopping, shutdown, silent>> /\ UNCHANGED Browser

\* Mutant: a stream that breaks is not counted off.
EndStreamUncounted ==
    /\ orphans > 0
    /\ orphans' = orphans - 1
    /\ age' = 0
    /\ timers' = timers \cup {Grace}
    /\ silent' = 0
    /\ UNCHANGED <<enabled, seen, sessions, stopping, shutdown, token, page, stream>>

\* handleBrowserSession, its deferred end, when the server notices that the page has
\* gone: it counts as heard of until now, and a grace timer starts.
EndStream ==
    /\ orphans > 0
    /\ orphans' = orphans - 1
    /\ sessions' = IF sessions > 0 THEN sessions - 1 ELSE 0
    /\ age' = 0
    /\ timers' = timers \cup {Grace}
    /\ silent' = 0
    /\ UNCHANGED <<enabled, seen, stopping, shutdown, token, page, stream>>

\* handleBrowserHeartbeat, for which a page needs no token.
Heartbeat ==
    /\ Open # {} /\ ~shutdown
    /\ seen' = TRUE
    /\ age' = 0
    /\ silent' = 0
    /\ UNCHANGED <<enabled, sessions, timers, stopping, shutdown>> /\ UNCHANGED Browser

\* Mutant: the timer does not ask how long ago a page was heard of.
GraceTimerHasty ==
    /\ 0 \in timers /\ ~stopping
    /\ timers' = timers \ {0}
    /\ stopping' = (enabled /\ seen /\ sessions = 0)
    /\ UNCHANGED <<enabled, seen, sessions, age, shutdown, silent>> /\ UNCHANGED Browser

\* requestShutdownAfterBrowserGrace: a timer has run out and copies the state.
GraceTimer ==
    /\ 0 \in timers /\ ~stopping
    /\ timers' = timers \ {0}
    /\ stopping' = (enabled /\ seen /\ sessions = 0 /\ age >= Grace)
    /\ UNCHANGED <<enabled, seen, sessions, age, shutdown, silent>> /\ UNCHANGED Browser

\* watchBrowserHeartbeat: the watcher looks, and has a reason to stop.
Watch ==
    /\ enabled /\ ~stopping /\ seen /\ sessions = 0 /\ age > Timeout
    /\ stopping' = TRUE
    /\ UNCHANGED <<enabled, seen, sessions, age, timers, shutdown, silent>> /\ UNCHANGED Browser

\* shutdownOnce: what has happened since the state was copied does not count.
Stop ==
    /\ stopping /\ ~shutdown
    /\ shutdown' = TRUE
    /\ UNCHANGED <<enabled, seen, sessions, age, timers, stopping, silent>> /\ UNCHANGED Browser

Tick ==
    /\ ~shutdown
    /\ age' = Later(age)
    /\ timers' = {IF t = 0 THEN 0 ELSE t - 1 : t \in timers}
    /\ silent' = IF stream = {} /\ orphans = 0 THEN Later(silent) ELSE 0
    /\ UNCHANGED <<enabled, seen, sessions, stopping, shutdown>> /\ UNCHANGED Browser

-----------------------------------------------------------------------------
BCNext ==
    \/ \E p \in Page : OpenPage(p) \/ ClosePage(p) \/ Break(p) \/ Connect(p)
    \/ RotateToken \/ KeepAlive \/ EndStream \/ Heartbeat
    \/ GraceTimer \/ Watch \/ Stop \/ Tick

\* The server's goroutines run and time passes; nothing is asked of the browser.
Fairness == WF_BCvars(EndStream) /\ WF_BCvars(Watch) /\ WF_BCvars(Stop) /\ WF_BCvars(Tick)

BCSpec == BCInit /\ [][BCNext]_BCvars /\ Fairness

-----------------------------------------------------------------------------
\* Every variable keeps its type, and the server counts exactly the streams it has
\* (browserSessions, server.go:399 and 406).
BCTypeOK ==
    /\ enabled \in BOOLEAN /\ seen \in BOOLEAN /\ stopping \in BOOLEAN /\ shutdown \in BOOLEAN
    /\ age \in 0..Cap /\ silent \in 0..Cap
    /\ timers \subseteq 0..Grace
    /\ token \in 1..MaxTokens
    /\ page \in [Page -> 0..MaxTokens]
    /\ stream \subseteq Open
    /\ orphans \in 0..MaxOrphans
    /\ sessions = Cardinality(stream) + orphans

\* The server decides to stop only if no page is connected and none has been, nor sent
\* a heartbeat, for a grace period: reloads and second pages in any order do not stop
\* it, and a server whose page was never opened runs on (server.go:342 and 359).
StopsUnattended ==
    [][stopping' /\ ~stopping => enabled /\ seen /\ stream = {} /\ silent >= Grace]_BCvars

\* When the last page has gone for good, the server stops, however the pages and their
\* streams ended (server.go:348).
Gone == enabled /\ seen /\ Open = {}

EventuallyStops == <>[]Gone => <>shutdown
=============================================================================
