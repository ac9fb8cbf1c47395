------------------------------ MODULE Realtime ------------------------------
(***************************************************************************)
(* core/app/composables/useRealtimeSubscription.ts over the shared         *)
(* connection: components mount, change their filter, are switched off and *)
(* unmount while their REST baseline is being fetched, and hold a release  *)
(* closure of the manager.  A component is its own handler.  Rows are left *)
(* out: what is shown follows from which subscriptions are alive.          *)
(***************************************************************************)
EXTENDS WebSocketManager

CONSTANTS MaxInits    \* bound: initialize() calls of one component in flight

ASSUME InitsBound == MaxInits \in Nat

VARIABLES
    scope,     \* a component's scope: "new", "live" or "gone" (disposed)
    enabled,   \* isEnabled
    wants,     \* the query of its current filter
    inits,     \* its initialize() calls that await the baseline
    held,      \* `release': the closure it holds, or None
    current    \* (history) the closure was obtained since the watch last saw a logout

componentVars == <<scope, enabled, wants, inits, held, current>>
vars == <<managerVars, componentVars>>

Closure == [key : Keys, uid : Uids]
ASSUME NoneIsNoClosure == None \notin Closure

Init ==
    /\ ManagerInit
    /\ scope = [c \in Handlers |-> "new"]
    /\ enabled \in [Handlers -> BOOLEAN]
    /\ wants \in [Handlers -> Keys]
    /\ inits = [c \in Handlers |-> 0]
    /\ held = [c \in Handlers |-> None]
    /\ current = [c \in Handlers |-> FALSE]

\* A uid is a counter and random digits: nothing refers to a new one.
FreshUids ==
    Uids \ (UidsOf(subs) \cup (UNION {sent[s] : s \in Sockets})
              \cup {held[c].uid : c \in {d \in Handlers : held[d] # None}})

StartInit(c) ==
    /\ inits[c] < MaxInits
    /\ inits' = [inits EXCEPT ![c] = @ + 1]

\* releaseSubscription
ReleaseHeld(c) ==
    /\ Release(held[c], c)
    /\ held' = [held EXCEPT ![c] = None]
    /\ current' = [current EXCEPT ![c] = FALSE]

\* setup: the immediate watch initializes an enabled component.
Mount(c) ==
    /\ scope[c] = "new"
    /\ scope' = [scope EXCEPT ![c] = "live"]
    /\ IF enabled[c] THEN StartInit(c) ELSE UNCHANGED inits
    /\ UNCHANGED <<managerVars, enabled, wants, held, current>>

\* The filter changes: the same watch; a disabled one only releases.
Retarget(c, k) ==
    /\ scope[c] = "live"
    /\ wants[c] # k
    /\ wants' = [wants EXCEPT ![c] = k]
    /\ IF enabled[c]
       THEN StartInit(c) /\ UNCHANGED <<managerVars, held, current>>
       ELSE ReleaseHeld(c) /\ UNCHANGED inits
    /\ UNCHANGED <<scope, enabled>>

Toggle(c) ==
    /\ scope[c] = "live"
    /\ enabled' = [enabled EXCEPT ![c] = ~@]
    /\ IF enabled'[c]
       THEN StartInit(c) /\ UNCHANGED <<managerVars, held, current>>
       ELSE ReleaseHeld(c) /\ UNCHANGED inits
    /\ UNCHANGED <<scope, wants>>

\* The baseline is there (or failed): setupSubscription with the filter as it is
\* now, after releasing the previous one; nothing asks whether the scope is alive.
FetchedStacks(c) ==       \* (mutant: the previous subscription is not released)
    /\ inits[c] > 0
    /\ inits' = [inits EXCEPT ![c] = @ - 1]
    /\ \E u \in FreshUids :
         /\ SubscribeFrom(subs, sent, wants[c], c, u)
         /\ held' = [held EXCEPT ![c] = [key |-> wants[c], uid |-> subs'[wants[c]].uid]]
    /\ current' = [current EXCEPT ![c] = TRUE]
    /\ UNCHANGED <<scope, enabled, wants>>
Fetched(c) ==
    /\ inits[c] > 0
    /\ inits' = [inits EXCEPT ![c] = @ - 1]
    /\ LET k == wants[c]
           table == TableWithout(held[c], c)
           frames == SentWithout(held[c], c)
       IN \E u \in FreshUids :
            /\ SubscribeFrom(table, frames, k, c, u)
            /\ held' = [held EXCEPT ![c] = [key |-> k, uid |-> subs'[k].uid]]
    /\ current' = [current EXCEPT ![c] = TRUE]
    /\ UNCHANGED <<scope, enabled, wants>>

\* onScopeDispose
Unmount(c) ==
    /\ scope[c] = "live"
    /\ scope' = [scope EXCEPT ![c] = "gone"]
    /\ ReleaseHeld(c)
    /\ UNCHANGED <<enabled, wants, inits>>

ManagerMoves ==
    /\ ManagerStep
    /\ current' = IF watching /\ loggedIn /\ ~loggedIn' THEN [c \in Handlers |-> FALSE] ELSE current
    /\ UNCHANGED <<scope, enabled, wants, inits, held>>

Next ==
    \/ ManagerMoves
    \/ \E c \in Handlers :
         \/ Mount(c) \/ Toggle(c) \/ Fetched(c) \/ Unmount(c)
         \/ \E k \in Keys : Retarget(c, k)

Spec == Init /\ [][Next]_vars

-----------------------------------------------------------------------------
TypeOK ==
    /\ ManagerTypeOK
    /\ scope \in [Handlers -> {"new", "live", "gone"}]
    /\ enabled \in [Handlers -> BOOLEAN]
    /\ wants \in [Handlers -> Keys]
    /\ inits \in [Handlers -> 0..MaxInits]
    /\ held \in [Handlers -> Closure \cup {None}]
    /\ current \in [Handlers -> BOOLEAN]

\* The tab has one connection: no socket but the current one is connecting or
\* open, whatever sequence of drops, revivals, reconnects and logouts led here
\* (_ensureConnection, _teardown).
OneConnection == \A s \in Sockets : Live(s) => s = ws

\* A tab that signed out has no live connection, and cannot get one from a pending
\* timer or token request, as long as a watch on loggedIn was there to see it.
SignedOutIsClosed == ~loggedIn /\ ~missed => \A s \in Sockets : ~Live(s)

\* So there is one live connection at most, always, and none after a logout that was
\* seen (both of these; what an unseen one leaves open is in README.md).
OneLiveConnection == OneConnection /\ SignedOutIsClosed

\* Once the server has accepted this connection, it is subscribed to exactly
\* what the tab has registered: nothing missing after a reconnection, nothing
\* left of a released query (_onAuth, subscribe, _release).
ServerAgrees ==
    authenticated /\ Connected /\ ws \in authed => sent[ws] = UidsOf(subs)

\* A component keeps the subscription it obtained until it releases it itself
\* or a logout is seen: no other component's release, in particular none with a
\* closure from before that logout, takes it away (_release's identity check).
NobodyElseReleases ==
    \A c \in Handlers : current[c] =>
        /\ Current(held[c])
        /\ c \in subs[held[c].key].handlers

\* Whoever is registered can still let go: every handler of a subscription is a
\* component that holds its closure, so no subscription is without an owner
\* (subscribe, _release, releaseSubscription).
EveryHandlerHasItsClosure ==
    \A k \in Keys : subs[k] # None =>
        \A c \in subs[k].handlers : held[c] = [key |-> k, uid |-> subs[k].uid]

\* So a registration is ended by its owner, who always can, and by nobody else
\* (both of these).
OwnersRelease == NobodyElseReleases /\ EveryHandlerHasItsClosure

-----------------------------------------------------------------------------
\* The tab keeps running its timers and events; requests and the server answer;
\* the server does not keep an unauthenticated connection; the tab becomes
\* visible again now and then, not always in the instant between a server's
\* close and the close event (SF).  Failures are finitely many (MaxFaults).
FairSpec ==
    /\ Spec
    /\ WF_vars(ManagerMoves /\ TokenArrives)
    /\ WF_vars(ManagerMoves /\ ReconnectFires)
    /\ WF_vars(ManagerMoves /\ IdleFires)
    /\ WF_vars(ManagerMoves /\ Revive)
    /\ \A s \in Sockets :
         /\ WF_vars(ManagerMoves /\ Opened(s))
         /\ WF_vars(ManagerMoves /\ AuthAccepted(s))
         /\ WF_vars(ManagerMoves /\ Closed(s))
         /\ SF_vars(ManagerMoves /\ ws = s /\ Closed(s))
         /\ WF_vars(ManagerMoves /\ Unanswered(s) /\ ServerCloses(s))

\* What a signed-in tab has registered becomes live on the server, or is
\* released, whatever drops, refusals and lost tokens came before: nothing
\* leaves the tab registered and deaf for good (revive, _onAuth).
RegisteredGoesLive ==
    \A k \in Keys :
        (subs[k] # None /\ loggedIn)
            ~> (subs[k] = None \/ ~loggedIn \/ (Connected /\ subs[k].uid \in sent[ws]))
=============================================================================
