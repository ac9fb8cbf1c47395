-------------------------- MODULE WebSocketManager --------------------------
(***************************************************************************)
(* core/app/composables/useWebSocketManager.ts: the one realtime           *)
(* connection every component of a tab shares.  The tab runs one task at a *)
(* time, so an action is one task: a socket event, a timer, the answer to  *)
(* the token request, a window event or a call of subscribe and release.   *)
(* The server's side of a socket is `asked', `authed' and `sent'.          *)
(***************************************************************************)
EXTENDS Naturals, FiniteSets

CONSTANTS
    Keys,          \* distinct collection:filter:fields:sort queries
    Handlers,      \* the callbacks that may be registered
    Uids,          \* uids of shared subscriptions; one is never used twice
    Sockets,       \* identities of WebSocket objects; a closed one is forgotten
    None,
    MaxReconnect,  \* MAX_RECONNECT
    MaxFetches,    \* bound: token requests in flight
    MaxFaults      \* bound: failures of the network, refusals of the server and
                   \* forced reconnects

ASSUME NoneIsNone == None \notin Keys \cup Uids \cup Sockets
ASSUME ManagerBounds == MaxReconnect \in Nat /\ MaxFetches \in Nat /\ MaxFaults \in Nat

VARIABLES
    loggedIn,        \* _loggedIn
    ws,              \* _ws: the current socket, or None
    sock,            \* every socket's readyState
    authenticated,   \* _authenticated
    authenticating,  \* _authenticating
    attempts,        \* _reconnectAttempts
    reconnectTimer,  \* _reconnectTimer is set
    idleTimer,       \* _idleTeardownTimer is set
    tokenFetches,    \* requests of the token that are not answered
    subs,            \* _sharedSubs and _subscriptions: query -> uid, handlers
    asked,           \* auth messages of each socket the server has not answered
    authed,          \* sockets whose auth the server has accepted
    sent,            \* what the server has subscribed on each socket
    faults,          \* failures so far
    watching,        \* the watch on loggedIn, made once, in the setup of whoever
                     \* called _init first, has not been stopped with that layout
    missed           \* (history) a logout that no watch saw

managerVars == <<loggedIn, ws, sock, authenticated, authenticating, attempts,
                 reconnectTimer, idleTimer, tokenFetches, subs, asked, authed,
                 sent, faults, watching, missed>>
session == <<loggedIn, watching, missed>>
serverVars == <<asked, authed, sent>>
flags == <<authenticated, authenticating, attempts>>

Shared == [uid : Uids, handlers : (SUBSET Handlers) \ {{}}]
ASSUME NoneIsNoSubscription == None \notin Shared

ManagerInit ==
    /\ loggedIn = TRUE
    /\ ws = None
    /\ sock = [s \in Sockets |-> "closed"]
    /\ authenticated = FALSE /\ authenticating = FALSE
    /\ attempts = 0
    /\ reconnectTimer = FALSE /\ idleTimer = FALSE
    /\ tokenFetches = 0
    /\ subs = [k \in Keys |-> None]
    /\ asked = [s \in Sockets |-> 0]
    /\ authed = {}
    /\ sent = [s \in Sockets |-> {}]
    /\ faults = 0
    /\ watching = TRUE /\ missed = FALSE

Live(s) == sock[s] \in {"connecting", "open"}
Connected == ws # None /\ sock[ws] = "open"
Registered == {k \in Keys : subs[k] # None}
UidsOf(table) == {table[k].uid : k \in {k2 \in Keys : table[k2] # None}}

\* _ensureConnection, given the current socket and all readyStates: nothing while
\* signed out or with a live socket.  A new socket also stops the idle timer.
Connect(sockets) ==
    \E s \in Sockets :
        /\ sockets[s] = "closed"
        /\ ws' = s
        /\ sock' = [sockets EXCEPT ![s] = "connecting"]
ConnectUnlessOpen(now, sockets) ==       \* (mutant: only OPEN counts as a connection)
    IF loggedIn /\ (now = None \/ sockets[now] # "open")
    THEN Connect(sockets) ELSE ws' = now /\ sock' = sockets
ConnectSignedOut(now, sockets) ==        \* (mutant: whoever is signed in)
    IF now = None \/ sockets[now] \notin {"connecting", "open"}
    THEN Connect(sockets) ELSE ws' = now /\ sock' = sockets
ConnectOnce(now, sockets) ==             \* (mutant: a dead socket is not replaced)
    IF loggedIn /\ now = None
    THEN Connect(sockets) ELSE ws' = now /\ sock' = sockets
EnsureConnection(now, sockets) ==
    IF loggedIn /\ (now = None \/ sockets[now] \notin {"connecting", "open"})
    THEN Connect(sockets) ELSE ws' = now /\ sock' = sockets
IdleTimerKept == idleTimer' = (idleTimer /\ sock' = sock)

\* ws.close() in _teardown: the old socket closes by itself, later.
Dropped == IF ws # None /\ Live(ws) THEN [sock EXCEPT ![ws] = "closing"] ELSE sock

TeardownFlags ==
    /\ reconnectTimer' = FALSE
    /\ authenticated' = FALSE /\ authenticating' = FALSE
    /\ attempts' = 0

\* _teardown: both registries survive it.
Teardown ==
    /\ TeardownFlags
    /\ idleTimer' = FALSE
    /\ ws' = None
    /\ sock' = Dropped

\* _scheduleReconnect: past the limit the pending attempt is dropped too.
ScheduleReconnect == reconnectTimer' = (attempts < MaxReconnect)

-----------------------------------------------------------------------------
Login ==
    /\ ~loggedIn
    /\ loggedIn' = TRUE
    /\ UNCHANGED <<ws, sock, flags, reconnectTimer, idleTimer, tokenFetches, subs,
                   serverVars, faults, watching, missed>>

\* The watch's callback: everything is forgotten.
Forget == Teardown /\ subs' = [k \in Keys |-> None]

\* Without the watch nothing of this runs: connection, timers and registries stay.
Logout ==
    /\ loggedIn
    /\ loggedIn' = FALSE
    /\ \/ watching /\ Forget /\ UNCHANGED missed
       \/ /\ ~watching
          /\ missed' = TRUE
          /\ UNCHANGED <<ws, sock, flags, reconnectTimer, idleTimer, subs>>
    /\ UNCHANGED <<tokenFetches, serverVars, faults, watching>>

\* Another layout is shown: its watch stops, and _initialized lets no other be made.
LayoutLeaves ==
    /\ watching
    /\ watching' = FALSE
    /\ UNCHANGED <<loggedIn, ws, sock, flags, reconnectTimer, idleTimer, tokenFetches,
                   subs, serverVars, faults, missed>>

\* `online' or `visibilitychange'.
Revive ==
    /\ loggedIn
    /\ Registered # {}
    /\ ~(ws # None /\ Live(ws))
    /\ attempts' = 0
    /\ EnsureConnection(ws, sock) /\ IdleTimerKept
    /\ UNCHANGED <<session, authenticated, authenticating, reconnectTimer,
                   tokenFetches, subs, serverVars, faults>>

\* reconnect(): teardown and a new connection in one task.
Reconnect ==
    /\ faults < MaxFaults
    /\ faults' = faults + 1
    /\ TeardownFlags
    /\ idleTimer' = FALSE
    /\ IF Registered # {} THEN EnsureConnection(None, Dropped)
       ELSE ws' = None /\ sock' = Dropped
    /\ UNCHANGED <<session, tokenFetches, subs, serverVars>>

\* The `open' listener and the first half of _authenticate.
Opened(s) ==
    /\ sock[s] = "connecting"
    /\ tokenFetches < MaxFetches
    /\ sock' = [sock EXCEPT ![s] = "open"]
    /\ IF ws = s
       THEN /\ attempts' = 0
            /\ authenticating' = TRUE
            /\ tokenFetches' = IF authenticating THEN tokenFetches ELSE tokenFetches + 1
       ELSE UNCHANGED <<attempts, authenticating, tokenFetches>>
    /\ UNCHANGED <<session, ws, authenticated, reconnectTimer, idleTimer, subs,
                   serverVars, faults>>

\* The token is there: _authenticate sends it on whatever socket is current now,
\* whoever was signed in when it was asked for.
TokenArrives ==
    /\ tokenFetches > 0
    /\ tokenFetches' = tokenFetches - 1
    /\ IF Connected
       THEN /\ asked' = [asked EXCEPT ![ws] = @ + 1]
            /\ UNCHANGED authenticating
       ELSE /\ authenticating' = FALSE
            /\ UNCHANGED asked
    /\ UNCHANGED <<session, ws, sock, authenticated, attempts, reconnectTimer,
                   idleTimer, subs, authed, sent, faults>>

\* It is refused to a tab that is signed out.
TokenFails ==
    /\ tokenFetches > 0
    /\ IF loggedIn THEN faults < MaxFaults /\ faults' = faults + 1 ELSE UNCHANGED faults
    /\ tokenFetches' = tokenFetches - 1
    /\ authenticating' = FALSE
    /\ UNCHANGED <<session, ws, sock, authenticated, attempts, reconnectTimer,
                   idleTimer, subs, serverVars>>

\* _onAuth, ok: every registered query is subscribed on this connection.
AuthAccepted(s) ==
    /\ asked[s] > 0
    /\ sock[s] = "open"
    /\ asked' = [asked EXCEPT ![s] = @ - 1]
    /\ authed' = authed \cup {s}
    /\ IF ws = s
       THEN /\ authenticating' = FALSE
            /\ authenticated' = TRUE
            /\ sent' = [sent EXCEPT ![s] = @ \cup UidsOf(subs)]
       ELSE UNCHANGED <<authenticating, authenticated, sent>>
    /\ UNCHANGED <<session, ws, sock, attempts, reconnectTimer, idleTimer,
                   tokenFetches, subs, faults>>

\* _onAuth, refused: an invalid or expired token tears the connection down.
AuthRefused(s) ==
    /\ asked[s] > 0
    /\ sock[s] = "open"
    /\ faults < MaxFaults
    /\ faults' = faults + 1
    /\ asked' = [asked EXCEPT ![s] = @ - 1]
    /\ IF ws # s
       THEN UNCHANGED <<ws, sock, flags, reconnectTimer, idleTimer>>
       ELSE \/ Teardown
            \/ /\ authenticating' = FALSE
               /\ UNCHANGED <<ws, sock, authenticated, attempts, reconnectTimer, idleTimer>>
    /\ UNCHANGED <<session, tokenFetches, subs, authed, sent>>

\* The server starts to close: readyState is CLOSING until the close event.  It
\* waits for an auth message longer than a token request takes; closing before
\* that, or after it, is a failure.
Unanswered(s) == s \notin authed /\ tokenFetches = 0 /\ asked[s] = 0
ServerCloses(s) ==
    /\ sock[s] = "open"
    /\ \/ Unanswered(s) /\ UNCHANGED faults
       \/ faults < MaxFaults /\ faults' = faults + 1
    /\ sock' = [sock EXCEPT ![s] = "closing"]
    /\ UNCHANGED <<session, ws, flags, reconnectTimer, idleTimer, tokenFetches,
                   subs, serverVars>>

\* The `close' listener (and `error', in the same task, when it was not clean).
CloseEvent(s, clean) ==
    /\ sock' = [sock EXCEPT ![s] = "closed"]
    /\ asked' = [asked EXCEPT ![s] = 0]
    /\ authed' = authed \ {s}
    /\ sent' = [sent EXCEPT ![s] = {}]
    /\ IF ws = s
       THEN /\ authenticated' = FALSE /\ authenticating' = FALSE
            /\ IF ~clean /\ loggedIn /\ Registered # {}
               THEN ScheduleReconnect
               ELSE UNCHANGED reconnectTimer
       ELSE UNCHANGED <<authenticated, authenticating, reconnectTimer>>
    /\ UNCHANGED <<session, ws, attempts, idleTimer, tokenFetches, subs>>

Closed(s) == sock[s] = "closing" /\ CloseEvent(s, TRUE) /\ UNCHANGED faults

\* The network fails, or the connection cannot be made.
Drop(s) ==
    /\ sock[s] # "closed"
    /\ faults < MaxFaults
    /\ faults' = faults + 1
    /\ CloseEvent(s, FALSE)

ReconnectFires ==
    /\ reconnectTimer
    /\ reconnectTimer' = FALSE
    /\ attempts' = attempts + 1
    /\ EnsureConnection(ws, sock) /\ IdleTimerKept
    /\ UNCHANGED <<session, authenticated, authenticating, tokenFetches, subs,
                   serverVars, faults>>

\* 30 s, and a pending reconnection fires within 16 s.
IdleFires ==
    /\ idleTimer
    /\ ~reconnectTimer
    /\ IF Registered = {}
       THEN Teardown
       ELSE /\ idleTimer' = FALSE
            /\ UNCHANGED <<ws, sock, flags, reconnectTimer>>
    /\ UNCHANGED <<session, tokenFetches, subs, serverVars, faults>>

-----------------------------------------------------------------------------
\* _release by its closure <<key, uid>>: the table and the frame it sends.  A
\* closure of a subscription that is gone changes nothing.
Current(closure) ==
    closure # None /\ subs[closure.key] # None /\ subs[closure.key].uid = closure.uid
Remaining(closure, h) == subs[closure.key].handlers \ {h}
TableWithoutByKey(closure, h) ==    \* (mutant: whoever has the query now)
    IF closure = None \/ subs[closure.key] = None THEN subs
    ELSE [subs EXCEPT ![closure.key] =
             IF ~Current(closure) \/ Remaining(closure, h) = {}
             THEN None ELSE [@ EXCEPT !.handlers = @ \ {h}]]
TableEmptied(closure, h) ==         \* (mutant: the last handler leaves it there)
    IF ~Current(closure) THEN subs
    ELSE [subs EXCEPT ![closure.key].handlers = @ \ {h}]
TableWithout(closure, h) ==
    IF ~Current(closure) THEN subs
    ELSE [subs EXCEPT ![closure.key] =
             IF Remaining(closure, h) = {} THEN None
             ELSE [uid |-> closure.uid, handlers |-> Remaining(closure, h)]]
SentWithout(closure, h) ==
    IF Current(closure) /\ Remaining(closure, h) = {} /\ Connected
    THEN [sent EXCEPT ![ws] = @ \ {closure.uid}]
    ELSE sent

Release(closure, h) ==
    /\ subs' = TableWithout(closure, h)
    /\ sent' = SentWithout(closure, h)
    /\ idleTimer' = (idleTimer \/ (Current(closure) /\ UidsOf(subs') = {}))
    /\ UNCHANGED <<session, ws, sock, flags, reconnectTimer, tokenFetches, asked,
                   authed, faults>>

\* subscribe(), after a release in the same task: a query that is already there
\* gains a handler and nothing else happens; `u' is the uid of a new one.
\* A frame on a socket the server has not authenticated has no effect.
SubscribeLate(table, frames, k, h, u) ==    \* (mutant: left to the next auth)
    /\ subs' = [table EXCEPT ![k] =
                   IF @ # None THEN [@ EXCEPT !.handlers = @ \cup {h}]
                               ELSE [uid |-> u, handlers |-> {h}]]
    /\ IF table[k] # None THEN UNCHANGED <<ws, sock>> ELSE EnsureConnection(ws, sock)
    /\ sent' = frames
    /\ idleTimer' = FALSE
    /\ UNCHANGED <<session, flags, reconnectTimer, tokenFetches, asked, authed, faults>>
SubscribeFrom(table, frames, k, h, u) ==
    /\ IF table[k] # None
       THEN /\ subs' = [table EXCEPT ![k].handlers = @ \cup {h}]
            /\ sent' = frames
            /\ UNCHANGED <<ws, sock>>
       ELSE /\ subs' = [table EXCEPT ![k] = [uid |-> u, handlers |-> {h}]]
            /\ EnsureConnection(ws, sock)
            /\ sent' = IF authenticated /\ Connected /\ ws \in authed
                       THEN [frames EXCEPT ![ws] = @ \cup {u}] ELSE frames
    /\ idleTimer' = FALSE
    /\ UNCHANGED <<session, flags, reconnectTimer, tokenFetches, asked, authed, faults>>

ManagerStep ==
    \/ Login \/ Logout \/ LayoutLeaves \/ Revive \/ Reconnect
    \/ TokenArrives \/ TokenFails \/ ReconnectFires \/ IdleFires
    \/ \E s \in Sockets :
         \/ Opened(s) \/ AuthAccepted(s) \/ AuthRefused(s)
         \/ ServerCloses(s) \/ Closed(s) \/ Drop(s)

ManagerTypeOK ==
    /\ loggedIn \in BOOLEAN
    /\ ws \in Sockets \cup {None}
    /\ sock \in [Sockets -> {"connecting", "open", "closing", "closed"}]
    /\ authenticated \in BOOLEAN /\ authenticating \in BOOLEAN
    /\ attempts \in 0..MaxReconnect
    /\ reconnectTimer \in BOOLEAN /\ idleTimer \in BOOLEAN
    /\ tokenFetches \in Nat
    /\ subs \in [Keys -> Shared \cup {None}]
    /\ asked \in [Sockets -> Nat]
    /\ authed \in SUBSET Sockets
    /\ sent \in [Sockets -> SUBSET Uids]
    /\ faults \in 0..MaxFaults
    /\ watching \in BOOLEAN /\ missed \in BOOLEAN
=============================================================================
