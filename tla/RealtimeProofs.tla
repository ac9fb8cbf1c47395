--------------------------- MODULE RealtimeProofs ---------------------------
(***************************************************************************)
(* The safety of the shared realtime connection, for any number of         *)
(* queries, components, sockets and failures.                              *)
(***************************************************************************)
EXTENDS Realtime, TLAPS

ReadyStates == {"connecting", "open", "closing", "closed"}

-----------------------------------------------------------------------------
(* Types *)

\* A reconnection is pending only below the limit, which bounds `attempts'.
TimerInv == reconnectTimer => attempts < MaxReconnect
TypeInv == TypeOK /\ TimerInv

\* A release keeps the registries and the server's side well typed.
LEMMA ReleaseTypes ==
    ASSUME TypeOK, NEW c \in Handlers
    PROVE  /\ TableWithout(held[c], c) \in [Keys -> Shared \cup {None}]
           /\ SentWithout(held[c], c) \in [Sockets -> SUBSET Uids]
<1>1. held[c] \in Closure \cup {None}
  BY DEF TypeOK
<1>2. TableWithout(held[c], c) \in [Keys -> Shared \cup {None}]
  <2>1. CASE ~Current(held[c])
    BY <2>1 DEF TypeOK, ManagerTypeOK, TableWithout
  <2>2. CASE Current(held[c])
    <3>1. held[c].key \in Keys /\ subs[held[c].key] \in Shared
      BY <1>1, <2>2 DEF Current, Closure, TypeOK, ManagerTypeOK
    <3> DEFINE new == IF Remaining(held[c], c) = {} THEN None
                      ELSE [uid |-> held[c].uid, handlers |-> Remaining(held[c], c)]
    <3>2. new \in Shared \cup {None}
      BY <1>1, <2>2, <3>1 DEF Current, Closure, Shared, Remaining
    <3>3. TableWithout(held[c], c) = [subs EXCEPT ![held[c].key] = new]
      BY <2>2, <3>1 DEF TableWithout, TypeOK, ManagerTypeOK
    <3> HIDE DEF new
    <3>4. QED
      BY <3>1, <3>2, <3>3 DEF TypeOK, ManagerTypeOK
  <2>3. QED
    BY <2>1, <2>2
<1>3. SentWithout(held[c], c) \in [Sockets -> SUBSET Uids]
  BY DEF SentWithout, TypeOK, ManagerTypeOK
<1>4. QED
  BY <1>2, <1>3

\* So does a subscription.
LEMMA SubscribeTypes ==
    ASSUME TypeOK, NEW c \in Handlers, NEW u \in Uids,
           SubscribeFrom(TableWithout(held[c], c), SentWithout(held[c], c), wants[c], c, u)
    PROVE  /\ ManagerTypeOK'
           /\ subs'[wants[c]] \in Shared
<1> DEFINE table == TableWithout(held[c], c)
           frames == SentWithout(held[c], c)
<1>1. /\ table \in [Keys -> Shared \cup {None}]
      /\ frames \in [Sockets -> SUBSET Uids]
      /\ wants[c] \in Keys
  BY ReleaseTypes DEF TypeOK
<1>2. SubscribeFrom(table, frames, wants[c], c, u)
  OBVIOUS
<1> HIDE DEF table, frames
<1>3. /\ subs' \in [Keys -> Shared \cup {None}]
      /\ subs'[wants[c]] \in Shared
  <2>1. CASE table[wants[c]] # None
    <3>1. table[wants[c]] \in Shared
      BY <1>1, <2>1
    <3> DEFINE new == [table[wants[c]] EXCEPT !.handlers = @ \cup {c}]
    <3>2. new \in Shared
      <4>1. /\ new = [uid |-> table[wants[c]].uid, handlers |-> table[wants[c]].handlers \cup {c}]
            /\ table[wants[c]].uid \in Uids /\ table[wants[c]].handlers \in SUBSET Handlers
        BY <3>1 DEF Shared
      <4>2. table[wants[c]].handlers \cup {c} \in (SUBSET Handlers) \ {{}}
        BY <4>1, Zenon
      <4>3. QED
        BY <4>1, <4>2 DEF Shared
    <3>3. subs' = [table EXCEPT ![wants[c]] = new]
      BY <1>1, <1>2, <2>1 DEF SubscribeFrom
    <3> HIDE DEF new
    <3>4. QED
      BY <1>1, <3>2, <3>3
  <2>2. CASE table[wants[c]] = None
    <3> DEFINE new == [uid |-> u, handlers |-> {c}]
    <3>1. new \in Shared
      <4>1. {c} \in (SUBSET Handlers) \ {{}}
        BY Zenon
      <4>2. QED
        BY <4>1 DEF Shared
    <3>2. subs' = [table EXCEPT ![wants[c]] = new]
      BY <1>2, <2>2 DEF SubscribeFrom
    <3> HIDE DEF new
    <3>3. QED
      BY <1>1, <3>1, <3>2
  <2>3. QED
    BY <2>1, <2>2
<1>4. sent' \in [Sockets -> SUBSET Uids]
  BY <1>1, <1>2 DEF SubscribeFrom
<1>5. ws' \in Sockets \cup {None} /\ sock' \in [Sockets -> ReadyStates]
  BY <1>1, <1>2 DEF SubscribeFrom, EnsureConnection, Connect, TypeOK, ManagerTypeOK, ReadyStates
<1>6. QED
  BY <1>2, <1>3, <1>4, <1>5
     DEF SubscribeFrom, TypeOK, ManagerTypeOK, ReadyStates, flags, session

LEMMA InitTypes == Init => TypeInv
<1> SUFFICES ASSUME Init PROVE TypeInv
  OBVIOUS
<1>1. ManagerTypeOK
  <2>1. /\ attempts \in 0..MaxReconnect /\ faults \in 0..MaxFaults /\ tokenFetches \in Nat
    BY ManagerBounds DEF Init, ManagerInit
  <2>4. /\ loggedIn \in BOOLEAN /\ ws \in Sockets \cup {None}
        /\ authenticated \in BOOLEAN /\ authenticating \in BOOLEAN
        /\ reconnectTimer \in BOOLEAN /\ idleTimer \in BOOLEAN
        /\ watching \in BOOLEAN /\ missed \in BOOLEAN
    BY Zenon DEF Init, ManagerInit
  <2>2. /\ sock \in [Sockets -> {"connecting", "open", "closing", "closed"}]
        /\ subs \in [Keys -> Shared \cup {None}] /\ asked \in [Sockets -> Nat]
        /\ authed \in SUBSET Sockets /\ sent \in [Sockets -> SUBSET Uids]
    BY DEF Init, ManagerInit
  <2>3. QED
    BY <2>1, <2>2, <2>4 DEF ManagerTypeOK
<1>2. TypeOK
  BY <1>1, InitsBound DEF Init, TypeOK
<1>3. QED
  BY <1>2 DEF Init, ManagerInit, TypeInv, TimerInv

\* What the actions share: a connection is made or kept, the socket is dropped.
LEMMA ConnectTypes ==
    ASSUME TypeOK, EnsureConnection(ws, sock)
    PROVE  ws' \in Sockets \cup {None} /\ sock' \in [Sockets -> ReadyStates]
  BY DEF TypeOK, ManagerTypeOK, EnsureConnection, Connect, ReadyStates

LEMMA DroppedTypes == ASSUME TypeOK PROVE Dropped \in [Sockets -> ReadyStates]
  BY DEF TypeOK, ManagerTypeOK, Dropped, ReadyStates

LEMMA TeardownTypes ==
    ASSUME TypeOK, Teardown
    PROVE  /\ ws' \in Sockets \cup {None} /\ sock' \in [Sockets -> ReadyStates]
           /\ authenticated' \in BOOLEAN /\ authenticating' \in BOOLEAN
           /\ reconnectTimer' \in BOOLEAN /\ idleTimer' \in BOOLEAN
           /\ attempts' = 0 /\ ~reconnectTimer'
<1>1. sock' \in [Sockets -> ReadyStates]
  BY DroppedTypes DEF Teardown
<1>2. QED
  BY <1>1 DEF Teardown, TeardownFlags

\* The Boolean half of the manager's state, and the rest.
FlagTypes ==
    /\ loggedIn \in BOOLEAN /\ authenticated \in BOOLEAN /\ authenticating \in BOOLEAN
    /\ reconnectTimer \in BOOLEAN /\ idleTimer \in BOOLEAN
    /\ watching \in BOOLEAN /\ missed \in BOOLEAN
DataTypes ==
    /\ ws \in Sockets \cup {None}
    /\ sock \in [Sockets -> ReadyStates]
    /\ attempts \in 0..MaxReconnect
    /\ tokenFetches \in Nat
    /\ subs \in [Keys -> Shared \cup {None}]
    /\ asked \in [Sockets -> Nat]
    /\ authed \in SUBSET Sockets
    /\ sent \in [Sockets -> SUBSET Uids]
    /\ faults \in 0..MaxFaults

LEMMA Halves == ManagerTypeOK <=> FlagTypes /\ DataTypes
  BY DEF ManagerTypeOK, FlagTypes, DataTypes, ReadyStates

\* The flags, one action of the manager after the other.
LEMMA ManagerFlags ==
    ASSUME FlagTypes, ManagerStep
    PROVE  FlagTypes'
<1> USE DEF FlagTypes, flags, session
<1>1. CASE Login
  BY <1>1, Zenon DEF Login
<1>2. CASE Logout
  BY <1>2, Zenon DEF Logout, Forget, Teardown, TeardownFlags
<1>3. CASE Revive
  BY <1>3, Zenon DEF Revive, IdleTimerKept
<1>4. CASE Reconnect
  BY <1>4, Zenon DEF Reconnect, TeardownFlags
<1>5. CASE TokenArrives
  BY <1>5, Zenon DEF TokenArrives
<1>6. CASE TokenFails
  BY <1>6, Zenon DEF TokenFails
<1>7. CASE ReconnectFires
  BY <1>7, Zenon DEF ReconnectFires, IdleTimerKept
<1>8. CASE IdleFires
  BY <1>8, Zenon DEF IdleFires, Teardown, TeardownFlags
<1>9. ASSUME NEW s \in Sockets, Opened(s) PROVE FlagTypes'
  BY <1>9, Zenon DEF Opened
<1>10. ASSUME NEW s \in Sockets, AuthAccepted(s) PROVE FlagTypes'
  BY <1>10, Zenon DEF AuthAccepted
<1>11. ASSUME NEW s \in Sockets, AuthRefused(s) PROVE FlagTypes'
  BY <1>11, Zenon DEF AuthRefused, Teardown, TeardownFlags
<1>12. ASSUME NEW s \in Sockets, ServerCloses(s) PROVE FlagTypes'
  BY <1>12, Zenon DEF ServerCloses
<1>13. ASSUME NEW s \in Sockets, Closed(s) \/ Drop(s) PROVE FlagTypes'
  <2>1. CloseEvent(s, TRUE) \/ CloseEvent(s, FALSE)
    BY <1>13, Zenon DEF Closed, Drop
  <2>2. (attempts < MaxReconnect) \in BOOLEAN
    OBVIOUS
  <2>3. reconnectTimer' \in BOOLEAN
    BY <2>1, <2>2, Zenon DEF CloseEvent, ScheduleReconnect
  <2>4. QED
    BY <2>1, <2>3, Zenon DEF CloseEvent
<1>14. CASE LayoutLeaves
  BY <1>14, Zenon DEF LayoutLeaves
<1>15. QED
  BY <1>1, <1>2, <1>3, <1>4, <1>5, <1>6, <1>7, <1>8, <1>9, <1>10, <1>11, <1>12, <1>13, <1>14
     DEF ManagerStep

\* The data, in the same order; a reconnection that fires is below the limit.
LEMMA ManagerData ==
    ASSUME TypeInv, ManagerStep
    PROVE  DataTypes' /\ TimerInv'
<1>0. DataTypes /\ TimerInv /\ MaxReconnect \in Nat /\ MaxFaults \in Nat
  BY Halves, ManagerBounds DEF TypeInv, TypeOK
<1> USE DEF DataTypes, TimerInv
<1>1. CASE Login
  BY <1>0, <1>1 DEF Login, flags, serverVars
<1>2. CASE Logout
  <2>1. CASE Forget
    <3>1. subs' \in [Keys -> Shared \cup {None}]
      BY <2>1 DEF Forget
    <3>2. QED
      BY <1>0, <1>2, <2>1, <3>1, TeardownTypes DEF Logout, Forget, TypeInv, serverVars
  <2>2. CASE ~Forget
    BY <1>0, <1>2, <2>2 DEF Logout, flags, serverVars
  <2>3. QED
    BY <2>1, <2>2
<1>3. CASE Revive
  <2>1. ws' \in Sockets \cup {None} /\ sock' \in [Sockets -> ReadyStates]
    BY <1>3, ConnectTypes DEF Revive, TypeInv
  <2>2. attempts' = 0 /\ reconnectTimer' = reconnectTimer
    BY <1>3 DEF Revive
  <2>3. TimerInv'
    BY <1>0, <2>2
  <2>4. QED
    BY <1>0, <1>3, <2>1, <2>2, <2>3 DEF Revive, serverVars
<1>4. CASE Reconnect
  <2>1. ws' \in Sockets \cup {None} /\ sock' \in [Sockets -> ReadyStates]
    BY <1>4, DroppedTypes DEF Reconnect, EnsureConnection, Connect, TypeInv, ReadyStates
  <2>2. attempts' = 0 /\ ~reconnectTimer'
    BY <1>4 DEF Reconnect, TeardownFlags
  <2>3. QED
    BY <1>0, <1>4, <2>1, <2>2 DEF Reconnect, serverVars
<1>5. CASE TokenArrives
  BY <1>0, <1>5 DEF TokenArrives, Connected
<1>6. CASE TokenFails
  BY <1>0, <1>6 DEF TokenFails, serverVars
<1>7. CASE ReconnectFires
  <2>1. ws' \in Sockets \cup {None} /\ sock' \in [Sockets -> ReadyStates]
    BY <1>7, ConnectTypes DEF ReconnectFires, TypeInv
  <2>2. attempts' \in 0..MaxReconnect /\ ~reconnectTimer'
    BY <1>0, <1>7 DEF ReconnectFires
  <2>3. QED
    BY <1>0, <1>7, <2>1, <2>2 DEF ReconnectFires, serverVars
<1>8. CASE IdleFires
  <2>1. CASE Teardown
    BY <1>0, <1>8, <2>1, TeardownTypes DEF IdleFires, TypeInv, serverVars
  <2>2. CASE ~Teardown
    BY <1>0, <1>8, <2>2 DEF IdleFires, flags, serverVars
  <2>3. QED
    BY <2>1, <2>2
<1>9. ASSUME NEW s \in Sockets, Opened(s) PROVE DataTypes' /\ TimerInv'
  BY <1>0, <1>9 DEF Opened, serverVars, ReadyStates
<1>10. ASSUME NEW s \in Sockets, AuthAccepted(s) PROVE DataTypes' /\ TimerInv'
  <2>1. UidsOf(subs) \subseteq Uids
    BY <1>0 DEF UidsOf, Shared
  <2>2. sent' \in [Sockets -> SUBSET Uids]
    BY <1>0, <1>10, <2>1 DEF AuthAccepted
  <2>3. asked' \in [Sockets -> Nat] /\ authed' \in SUBSET Sockets
    BY <1>0, <1>10 DEF AuthAccepted
  <2>4. UNCHANGED <<ws, sock, attempts, reconnectTimer, tokenFetches, subs, faults>>
    BY <1>10 DEF AuthAccepted
  <2>5. QED
    BY <1>0, <2>2, <2>3, <2>4
<1>11. ASSUME NEW s \in Sockets, AuthRefused(s) PROVE DataTypes' /\ TimerInv'
  <2>1. /\ asked' \in [Sockets -> Nat] /\ faults' \in 0..MaxFaults
        /\ UNCHANGED <<tokenFetches, subs, authed, sent>>
    BY <1>0, <1>11 DEF AuthRefused
  <2>2. Teardown \/ UNCHANGED <<ws, sock, attempts, reconnectTimer>>
    BY <1>11, Zenon DEF AuthRefused, flags
  <2>3. CASE Teardown
    BY <1>0, <2>1, <2>3, TeardownTypes DEF TypeInv
  <2>4. QED
    BY <1>0, <2>1, <2>2, <2>3
<1>12. ASSUME NEW s \in Sockets, ServerCloses(s) PROVE DataTypes' /\ TimerInv'
  BY <1>0, <1>12 DEF ServerCloses, flags, serverVars, ReadyStates
<1>13. ASSUME NEW s \in Sockets, Closed(s) \/ Drop(s) PROVE DataTypes' /\ TimerInv'
  <2>1. DataTypes'
    BY <1>0, <1>13 DEF Closed, Drop, CloseEvent, ReadyStates
  <2>2. attempts' = attempts /\ (reconnectTimer' => reconnectTimer \/ attempts < MaxReconnect)
    BY <1>0, <1>13 DEF Closed, Drop, CloseEvent, ScheduleReconnect
  <2>3. QED
    BY <1>0, <2>1, <2>2
<1>14. CASE LayoutLeaves
  BY <1>0, <1>14 DEF LayoutLeaves, flags, serverVars
<1>15. QED
  BY <1>1, <1>2, <1>3, <1>4, <1>5, <1>6, <1>7, <1>8, <1>9, <1>10, <1>11, <1>12, <1>13, <1>14
     DEF ManagerStep

\* The components' half.
ComponentTypes ==
    /\ scope \in [Handlers -> {"new", "live", "gone"}]
    /\ enabled \in [Handlers -> BOOLEAN]
    /\ wants \in [Handlers -> Keys]
    /\ inits \in [Handlers -> 0..MaxInits]
    /\ held \in [Handlers -> Closure \cup {None}]
    /\ current \in [Handlers -> BOOLEAN]

\* A component's release: what it changes keeps its type.
LEMMA ReleaseHeldTypes ==
    ASSUME TypeInv, NEW c \in Handlers, ReleaseHeld(c)
    PROVE  /\ ManagerTypeOK' /\ TimerInv'
           /\ held' \in [Handlers -> Closure \cup {None}]
           /\ current' \in [Handlers -> BOOLEAN]
<1>1. DataTypes /\ FlagTypes /\ ComponentTypes
  BY Halves DEF TypeInv, TypeOK, ComponentTypes
<1>2. /\ subs' \in [Keys -> Shared \cup {None}]
      /\ sent' \in [Sockets -> SUBSET Uids]
      /\ UNCHANGED <<session, ws, sock, flags, reconnectTimer, tokenFetches, asked,
                     authed, faults>>
  BY ReleaseTypes DEF ReleaseHeld, Release, TypeInv
<1>3. DataTypes' /\ TimerInv'
  BY <1>1, <1>2 DEF DataTypes, TypeInv, TimerInv, flags
<1>4. idleTimer' \in BOOLEAN
  BY <1>1, Zenon DEF ReleaseHeld, Release, FlagTypes
<1>5. FlagTypes'
  BY <1>1, <1>2, <1>4, Zenon DEF FlagTypes, flags, session
<1>6. held' \in [Handlers -> Closure \cup {None}] /\ current' \in [Handlers -> BOOLEAN]
  BY <1>1 DEF ReleaseHeld, ComponentTypes
<1>7. QED
  BY <1>3, <1>5, <1>6 DEF FlagTypes, DataTypes, ManagerTypeOK, ReadyStates

LEMMA StartInitTypes ==
    ASSUME TypeInv, NEW c \in Handlers, StartInit(c)
    PROVE  inits' \in [Handlers -> 0..MaxInits]
  BY InitsBound DEF StartInit, TypeInv, TypeOK

LEMMA ManagerSame ==
    ASSUME TypeInv, UNCHANGED managerVars
    PROVE  ManagerTypeOK' /\ TimerInv'
  BY DEF TypeInv, TypeOK, ManagerTypeOK, TimerInv, managerVars

LEMMA FetchedTypes ==
    ASSUME TypeInv, NEW c \in Handlers, Fetched(c)
    PROVE  TypeInv'
<1>0. ComponentTypes /\ TypeOK
  BY DEF TypeInv, TypeOK, ComponentTypes
<1>1. PICK u \in FreshUids :
        /\ SubscribeFrom(TableWithout(held[c], c), SentWithout(held[c], c), wants[c], c, u)
        /\ held' = [held EXCEPT ![c] = [key |-> wants[c], uid |-> subs'[wants[c]].uid]]
  BY DEF Fetched
<1>2. u \in Uids
  BY DEF FreshUids
<1>3. ManagerTypeOK' /\ subs'[wants[c]] \in Shared
  BY <1>0, <1>1, <1>2, SubscribeTypes
<1>4. TimerInv'
  BY <1>1 DEF TypeInv, TimerInv, SubscribeFrom, flags
<1>5. [key |-> wants[c], uid |-> subs'[wants[c]].uid] \in Closure
  BY <1>0, <1>3 DEF ComponentTypes, Shared, Closure
<1>6. held' \in [Handlers -> Closure \cup {None}]
  BY <1>0, <1>1, <1>5 DEF ComponentTypes
<1>7. inits' \in [Handlers -> 0..MaxInits]
  BY <1>0, InitsBound DEF ComponentTypes, Fetched
<1>8. current' \in [Handlers -> BOOLEAN] /\ UNCHANGED <<scope, enabled, wants>>
  BY <1>0 DEF ComponentTypes, Fetched
<1>9. QED
  BY <1>0, <1>3, <1>4, <1>6, <1>7, <1>8 DEF TypeInv, TypeOK, ComponentTypes

LEMMA StepTypes == TypeInv /\ [Next]_vars => TypeInv'
<1> SUFFICES ASSUME TypeInv, [Next]_vars PROVE TypeInv'
  OBVIOUS
<1>0. ComponentTypes
  BY DEF TypeInv, TypeOK, ComponentTypes
<1>1. CASE ManagerMoves
  <2>1. ManagerStep /\ UNCHANGED <<scope, enabled, wants, inits, held>>
    BY <1>1 DEF ManagerMoves
  <2>2. current' \in [Handlers -> BOOLEAN]
    BY <1>0, <1>1 DEF ManagerMoves, ComponentTypes
  <2>3. ManagerTypeOK' /\ TimerInv'
    <3>1. FlagTypes
      BY Halves DEF TypeInv, TypeOK
    <3>2. FlagTypes' /\ DataTypes' /\ TimerInv'
      BY <2>1, <3>1, ManagerFlags, ManagerData
    <3>3. QED
      BY <3>2 DEF FlagTypes, DataTypes, ManagerTypeOK, ReadyStates
  <2>4. QED
    BY <1>0, <2>1, <2>2, <2>3 DEF TypeInv, TypeOK, ComponentTypes
<1>2. ASSUME NEW c \in Handlers, Mount(c) PROVE TypeInv'
  <2>1. inits' \in [Handlers -> 0..MaxInits]
    BY <1>0, <1>2, StartInitTypes DEF Mount, ComponentTypes
  <2>2. QED
    BY <1>0, <1>2, <2>1, ManagerSame DEF Mount, TypeInv, TypeOK, ComponentTypes
<1>3. ASSUME NEW c \in Handlers, Toggle(c) PROVE TypeInv'
  <2>1. enabled' \in [Handlers -> BOOLEAN] /\ UNCHANGED <<scope, wants>>
    BY <1>0, <1>3 DEF Toggle, ComponentTypes
  <2>2. \/ StartInit(c) /\ UNCHANGED <<managerVars, held, current>>
        \/ ReleaseHeld(c) /\ UNCHANGED inits
    BY <1>3 DEF Toggle
  <2>3. QED
    BY <1>0, <2>1, <2>2, StartInitTypes, ManagerSame, ReleaseHeldTypes
       DEF TypeInv, TypeOK, ComponentTypes
<1>4. ASSUME NEW c \in Handlers, NEW k \in Keys, Retarget(c, k) PROVE TypeInv'
  <2>1. wants' \in [Handlers -> Keys] /\ UNCHANGED <<scope, enabled>>
    BY <1>0, <1>4 DEF Retarget, ComponentTypes
  <2>2. \/ StartInit(c) /\ UNCHANGED <<managerVars, held, current>>
        \/ ReleaseHeld(c) /\ UNCHANGED inits
    BY <1>4 DEF Retarget
  <2>3. QED
    BY <1>0, <2>1, <2>2, StartInitTypes, ManagerSame, ReleaseHeldTypes
       DEF TypeInv, TypeOK, ComponentTypes
<1>5. ASSUME NEW c \in Handlers, Unmount(c) PROVE TypeInv'
  <2>1. scope' \in [Handlers -> {"new", "live", "gone"}] /\ UNCHANGED <<enabled, wants, inits>>
    BY <1>0, <1>5 DEF Unmount, ComponentTypes
  <2>2. QED
    BY <1>0, <1>5, <2>1, ReleaseHeldTypes DEF Unmount, TypeInv, TypeOK, ComponentTypes
<1>6. CASE UNCHANGED vars
  BY <1>0, <1>6, ManagerSame DEF vars, componentVars, TypeInv, TypeOK, ComponentTypes
<1>7. QED
  BY <1>1, <1>2, <1>3, <1>4, <1>5, <1>6, FetchedTypes DEF Next

LEMMA TypesAlways == Spec => []TypeInv
  BY InitTypes, StepTypes, PTL DEF Spec

\* The connection, the registries and the components' closures keep their types,
\* and no more reconnections are attempted than MAX_RECONNECT
\* (_scheduleReconnect, _ensureConnection, subscribe).
THEOREM TypeCorrect == Spec => []TypeOK
<1>1. TypeInv => TypeOK
  BY DEF TypeInv
<1>2. QED
  BY <1>1, TypesAlways, PTL

-----------------------------------------------------------------------------
(* One connection, and none after a logout that was seen *)

Out == ~loggedIn /\ ~missed

\* A connection is made only when no socket is live, and only when signed in.
LEMMA ConnectOne ==
    ASSUME NEW now, NEW sockets \in [Sockets -> ReadyStates],
           \A s \in Sockets : sockets[s] \in {"connecting", "open"} => s = now,
           Out => \A s \in Sockets : sockets[s] \notin {"connecting", "open"},
           now \in Sockets \cup {None},
           EnsureConnection(now, sockets)
    PROVE  /\ OneConnection'
           /\ Out => \A s \in Sockets : ~Live(s)'
<1>1. CASE loggedIn /\ (now = None \/ sockets[now] \notin {"connecting", "open"})
  <2>1. PICK s \in Sockets : ws' = s /\ sock' = [sockets EXCEPT ![s] = "connecting"]
    BY <1>1 DEF EnsureConnection, Connect
  <2>2. \A t \in Sockets : sockets[t] \notin {"connecting", "open"}
    BY <1>1, NoneIsNone
  <2>3. \A t \in Sockets : t # s => sock'[t] = sockets[t]
    BY <2>1
  <2>4. QED
    BY <1>1, <2>1, <2>2, <2>3 DEF OneConnection, Live, Out
<1>2. CASE ~(loggedIn /\ (now = None \/ sockets[now] \notin {"connecting", "open"}))
  <2>1. ws' = now /\ sock' = sockets
    BY <1>2 DEF EnsureConnection
  <2>2. QED
    BY <2>1 DEF OneConnection, Live, Out
<1>3. QED
  BY <1>1, <1>2

\* After a drop nothing is live.
LEMMA DroppedOne ==
    ASSUME TypeOK, OneConnection
    PROVE  \A s \in Sockets : Dropped[s] \notin {"connecting", "open"}
  BY NoneIsNone DEF TypeOK, ManagerTypeOK, OneConnection, Live, Dropped, ReadyStates

LEMMA TeardownOne ==
    ASSUME TypeOK, OneConnection, Teardown
    PROVE  OneConnection' /\ \A s \in Sockets : ~Live(s)'
  BY DroppedOne DEF Teardown, OneConnection, Live

\* An action that only moves one socket on, or none, keeps what is live.
LEMMA SameConnection ==
    ASSUME OneLiveConnection, UNCHANGED <<session, ws>>,
           \A s \in Sockets : Live(s)' => Live(s)
    PROVE  OneLiveConnection'
  BY DEF OneLiveConnection, OneConnection, SignedOutIsClosed, Live, session

LEMMA EnsureConn ==
    ASSUME TypeInv, OneLiveConnection, EnsureConnection(ws, sock), UNCHANGED session
    PROVE  OneLiveConnection'
<1>1. ws \in Sockets \cup {None} /\ sock \in [Sockets -> ReadyStates]
  BY DEF TypeInv, TypeOK, ManagerTypeOK, ReadyStates
<1>2. QED
  BY <1>1, ConnectOne DEF OneLiveConnection, OneConnection, SignedOutIsClosed, Live, session, Out

LEMMA SubscribeConn ==
    ASSUME TypeInv, OneLiveConnection, NEW table, NEW frames, NEW k, NEW h, NEW u,
           SubscribeFrom(table, frames, k, h, u)
    PROVE  OneLiveConnection'
<1>1. CASE table[k] # None
  BY <1>1, SameConnection DEF SubscribeFrom, Live
<1>2. CASE table[k] = None
  BY <1>2, EnsureConn DEF SubscribeFrom
<1>3. QED
  BY <1>1, <1>2

LEMMA InitConn == Init => OneLiveConnection
  BY DEF Init, ManagerInit, OneLiveConnection, OneConnection, SignedOutIsClosed, Live

LEMMA ManagerConn ==
    ASSUME TypeInv, OneLiveConnection, ManagerStep
    PROVE  OneLiveConnection'
<1>0. TypeOK /\ OneConnection /\ SignedOutIsClosed
  BY DEF TypeInv, OneLiveConnection
<1>f. sock \in [Sockets -> ReadyStates] /\ ws \in Sockets \cup {None}
  BY <1>0 DEF TypeOK, ManagerTypeOK, ReadyStates
<1>1. CASE Login
  BY <1>0, <1>1 DEF Login, OneLiveConnection, OneConnection, SignedOutIsClosed, Live
<1>2. CASE Logout
  <2>1. CASE Forget
    BY <1>0, <1>2, <2>1, TeardownOne DEF Logout, Forget, OneLiveConnection, SignedOutIsClosed
  <2>2. CASE ~Forget
    BY <1>0, <1>2, <2>2 DEF Logout, OneLiveConnection, OneConnection, SignedOutIsClosed, Live
  <2>3. QED
    BY <2>1, <2>2
<1>3. CASE Revive
  BY <1>3, EnsureConn DEF Revive
<1>4. CASE Reconnect
  <2>1. UNCHANGED session
    BY <1>4 DEF Reconnect
  <2>2. CASE Registered # {}
    <3>1. EnsureConnection(None, Dropped) /\ Dropped \in [Sockets -> ReadyStates]
      BY <1>0, <1>4, <2>2, DroppedTypes DEF Reconnect
    <3>2. QED
      BY <1>0, <2>1, <3>1, DroppedOne, ConnectOne
         DEF OneLiveConnection, SignedOutIsClosed, session, Out
  <2>3. CASE Registered = {}
    BY <1>0, <1>4, <2>1, <2>3, DroppedOne
       DEF Reconnect, OneLiveConnection, OneConnection, SignedOutIsClosed, Live, session
  <2>4. QED
    BY <2>2, <2>3
<1>5. CASE TokenArrives
  BY <1>5, SameConnection DEF TokenArrives, Live
<1>6. CASE TokenFails
  BY <1>6, SameConnection DEF TokenFails, Live
<1>7. CASE ReconnectFires
  BY <1>7, EnsureConn DEF ReconnectFires
<1>8. CASE IdleFires
  <2>1. CASE Teardown
    BY <1>0, <1>8, <2>1, TeardownOne DEF IdleFires, OneLiveConnection, SignedOutIsClosed
  <2>2. CASE ~Teardown
    BY <1>8, <2>2, SameConnection DEF IdleFires, Live
  <2>3. QED
    BY <2>1, <2>2
<1>9. ASSUME NEW s \in Sockets, Opened(s) PROVE OneLiveConnection'
  <2>1. \A t \in Sockets : Live(t)' => Live(t)
    BY <1>f, <1>9 DEF Opened, Live
  <2>2. QED
    BY <1>9, <2>1, SameConnection DEF Opened
<1>10. ASSUME NEW s \in Sockets, AuthAccepted(s) PROVE OneLiveConnection'
  BY <1>10, SameConnection DEF AuthAccepted, Live
<1>11. ASSUME NEW s \in Sockets, AuthRefused(s) PROVE OneLiveConnection'
  <2>1. CASE Teardown
    BY <1>0, <1>11, <2>1, TeardownOne DEF AuthRefused, OneLiveConnection, SignedOutIsClosed
  <2>2. CASE ~Teardown
    <3>1. UNCHANGED <<session, ws, sock>>
      BY <1>11, <2>2 DEF AuthRefused
    <3>2. QED
      BY <3>1, SameConnection DEF Live
  <2>3. QED
    BY <2>1, <2>2
<1>12. ASSUME NEW s \in Sockets, ServerCloses(s) PROVE OneLiveConnection'
  <2>1. \A t \in Sockets : Live(t)' => Live(t)
    BY <1>f, <1>12 DEF ServerCloses, Live
  <2>2. QED
    BY <1>12, <2>1, SameConnection DEF ServerCloses
<1>13. ASSUME NEW s \in Sockets, Closed(s) \/ Drop(s) PROVE OneLiveConnection'
  <2>1. \A t \in Sockets : Live(t)' => Live(t)
    BY <1>f, <1>13 DEF Closed, Drop, CloseEvent, Live
  <2>2. UNCHANGED <<session, ws>>
    BY <1>13 DEF Closed, Drop, CloseEvent
  <2>3. QED
    BY <2>1, <2>2, SameConnection
<1>14. CASE LayoutLeaves
  BY <1>0, <1>14 DEF LayoutLeaves, OneLiveConnection, OneConnection, SignedOutIsClosed, Live
<1>15. QED
  BY <1>1, <1>2, <1>3, <1>4, <1>5, <1>6, <1>7, <1>8, <1>9, <1>10, <1>11, <1>12, <1>13, <1>14
     DEF ManagerStep

LEMMA StepConn == TypeInv /\ OneLiveConnection /\ [Next]_vars => OneLiveConnection'
<1> SUFFICES ASSUME TypeInv, OneLiveConnection, [Next]_vars PROVE OneLiveConnection'
  OBVIOUS
<1>1. CASE ManagerMoves
  BY <1>1, ManagerConn DEF ManagerMoves
<1>2. ASSUME NEW c \in Handlers, Fetched(c) PROVE OneLiveConnection'
  BY <1>2, SubscribeConn DEF Fetched
<1>3. CASE UNCHANGED <<session, ws, sock>>
  BY <1>3, SameConnection DEF Live
<1>4. ASSUME NEW c \in Handlers, Mount(c) \/ Toggle(c) \/ Unmount(c)
      PROVE  UNCHANGED <<session, ws, sock>>
  BY <1>4 DEF Mount, Toggle, Unmount, ReleaseHeld, Release, managerVars, session
<1>5. ASSUME NEW c \in Handlers, NEW k \in Keys, Retarget(c, k)
      PROVE  UNCHANGED <<session, ws, sock>>
  BY <1>5 DEF Retarget, ReleaseHeld, Release, managerVars, session
<1>6. CASE UNCHANGED vars
  BY <1>3, <1>6 DEF vars, managerVars, session
<1>7. QED
  BY <1>1, <1>2, <1>3, <1>4, <1>5, <1>6 DEF Next

\* However many sockets have come and gone, only the current one is connecting or
\* open, whoever signed in or out; and once signed out none is, if the watch on
\* loggedIn was there to see it: no event of an older socket, no pending timer and no
\* token that arrives late makes a second connection, or one again after such a
\* logout (_ensureConnection's guards, _teardown).
THEOREM OneConnectionAlways == Spec => []OneLiveConnection
  BY InitConn, TypesAlways, StepConn, PTL DEF Spec

-----------------------------------------------------------------------------
(* Who is registered, and who holds a closure *)

\* What a release leaves: c is gone from the subscription of its closure, which
\* goes with its last handler; everything else is as it was.
LEMMA AfterRelease ==
    ASSUME TypeOK, NEW c \in Handlers, NEW k \in Keys
    PROVE  LET t == TableWithout(held[c], c) IN
           /\ t[k] # None => /\ subs[k] # None /\ t[k].uid = subs[k].uid
                             /\ t[k].handlers \subseteq subs[k].handlers
                             /\ subs[k].handlers \subseteq t[k].handlers \cup {c}
                             /\ Current(held[c]) /\ held[c].key = k => c \notin t[k].handlers
           /\ subs[k] # None /\ (\E d \in subs[k].handlers : d # c) => t[k] # None
           /\ subs[k] # None /\ t[k] = None => /\ Current(held[c]) /\ held[c].key = k
                                               /\ Remaining(held[c], c) = {}
           /\ ~Current(held[c]) => t = subs
           /\ Current(held[c]) /\ held[c].key # k => t[k] = subs[k]
           /\ Current(held[c]) /\ Remaining(held[c], c) = {} => t[held[c].key] = None
<1> DEFINE t == TableWithout(held[c], c)
<1>0. held[c] \in Closure \cup {None} /\ subs \in [Keys -> Shared \cup {None}]
  BY DEF TypeOK, ManagerTypeOK
<1>1. CASE ~Current(held[c])
  BY <1>1 DEF TableWithout
<1>2. CASE Current(held[c])
  <2>0. held[c].key \in Keys /\ subs[held[c].key] \in Shared
    BY <1>0, <1>2 DEF Current, Closure
  <2> DEFINE h == held[c].key
             new == IF Remaining(held[c], c) = {} THEN None
                    ELSE [uid |-> held[c].uid, handlers |-> Remaining(held[c], c)]
  <2>1. t = [subs EXCEPT ![h] = new]
    BY <1>2 DEF TableWithout
  <2>2. t[h] = new /\ \A k2 \in Keys : k2 # h => t[k2] = subs[k2]
    BY <1>0, <2>0, <2>1
  <2>3. CASE k # h
    BY <1>2, <2>2, <2>3
  <2>4. CASE k = h
    <3>1. Remaining(held[c], c) = subs[h].handlers \ {c} /\ held[c].uid = subs[h].uid
      BY <1>2 DEF Current, Remaining
    <3>2. CASE Remaining(held[c], c) = {}
      <4>1. t[h] = None /\ subs[h].handlers \subseteq {c}
        BY <2>2, <3>1, <3>2
      <4>2. QED
        BY <1>2, <2>4, <3>2, <4>1
    <3>3. CASE Remaining(held[c], c) # {}
      <4>1. t[h] = [uid |-> subs[h].uid, handlers |-> subs[h].handlers \ {c}]
        BY <2>2, <3>1, <3>3
      <4>2. t[h] \in Shared
        BY <2>0, <3>1, <3>3, <4>1 DEF Shared
      <4>3. t[h] # None /\ subs[h] # None
        BY <2>0, <4>2, NoneIsNoSubscription
      <4>4. QED
        BY <1>2, <2>4, <3>3, <4>1, <4>3
    <3>4. QED
      BY <3>2, <3>3
  <2>5. QED
    BY <2>3, <2>4
<1>3. QED
  BY <1>1, <1>2

\* Nobody but c is moved by c's release, and c itself is registered nowhere.
LEMMA ReleasedOwners ==
    ASSUME TypeOK, OwnersRelease, NEW c \in Handlers
    PROVE  LET t == TableWithout(held[c], c) IN
           /\ \A k \in Keys : t[k] # None =>
                /\ c \notin t[k].handlers
                /\ \A d \in t[k].handlers : held[d] = [key |-> k, uid |-> t[k].uid]
           /\ \A d \in Handlers \ {c} : current[d] =>
                /\ held[d] \in Closure
                /\ t[held[d].key] # None
                /\ t[held[d].key].uid = held[d].uid
                /\ d \in t[held[d].key].handlers
<1> DEFINE t == TableWithout(held[c], c)
<1>1. ASSUME NEW k \in Keys, t[k] # None
      PROVE  /\ c \notin t[k].handlers
             /\ \A d \in t[k].handlers : held[d] = [key |-> k, uid |-> t[k].uid]
  <2>1. /\ subs[k] # None /\ t[k].uid = subs[k].uid /\ t[k].handlers \subseteq subs[k].handlers
        /\ Current(held[c]) /\ held[c].key = k => c \notin t[k].handlers
    BY <1>1, AfterRelease
  <2>2. \A d \in subs[k].handlers : held[d] = [key |-> k, uid |-> subs[k].uid]
    BY <2>1 DEF OwnersRelease, EveryHandlerHasItsClosure
  <2>3. ASSUME c \in t[k].handlers PROVE FALSE
    <3>1. held[c] = [key |-> k, uid |-> subs[k].uid]
      BY <2>1, <2>2, <2>3
    <3>2. held[c] \in Closure \cup {None} /\ subs[k] \in Shared
      BY <2>1 DEF TypeOK, ManagerTypeOK
    <3>3. held[c] # None
      BY <3>1, <3>2, NoneIsNoClosure DEF Closure, Shared
    <3>4. Current(held[c]) /\ held[c].key = k
      BY <2>1, <3>1, <3>3 DEF Current
    <3>5. QED
      BY <2>1, <2>3, <3>4
  <2>4. QED
    BY <2>1, <2>2, <2>3
<1>2. ASSUME NEW d \in Handlers \ {c}, current[d]
      PROVE  /\ held[d] \in Closure
             /\ t[held[d].key] # None
             /\ t[held[d].key].uid = held[d].uid
             /\ d \in t[held[d].key].handlers
  <2>1. Current(held[d]) /\ d \in subs[held[d].key].handlers
    BY <1>2 DEF OwnersRelease, NobodyElseReleases
  <2>2. held[d] \in Closure /\ held[d].key \in Keys /\ subs[held[d].key] # None
        /\ subs[held[d].key].uid = held[d].uid
    BY <2>1 DEF Current, TypeOK, Closure
  <2>3. t[held[d].key] # None
    BY <1>2, <2>1, <2>2, AfterRelease
  <2>4. QED
    BY <1>2, <2>1, <2>2, <2>3, AfterRelease
<1>3. QED
  BY <1>1, <1>2

LEMMA ReleaseHeldOwners ==
    ASSUME TypeOK, OwnersRelease, NEW c \in Handlers, ReleaseHeld(c)
    PROVE  OwnersRelease'
<1> DEFINE t == TableWithout(held[c], c)
<1>1. subs' = t /\ held' = [held EXCEPT ![c] = None] /\ current' = [current EXCEPT ![c] = FALSE]
  BY DEF ReleaseHeld, Release
<1>2. /\ \A d \in Handlers \ {c} : held'[d] = held[d] /\ current'[d] = current[d]
      /\ ~current'[c]
      /\ \A k \in Keys : subs[k] # None => subs[k].handlers \subseteq Handlers
  BY <1>1 DEF TypeOK, ManagerTypeOK, Shared
<1>3. /\ \A k \in Keys : t[k] # None =>
           /\ c \notin t[k].handlers /\ t[k].handlers \subseteq Handlers
           /\ \A d \in t[k].handlers : held[d] = [key |-> k, uid |-> t[k].uid]
      /\ \A d \in Handlers \ {c} : current[d] =>
           /\ held[d] \in Closure /\ t[held[d].key] # None
           /\ t[held[d].key].uid = held[d].uid /\ d \in t[held[d].key].handlers
  BY <1>2, ReleasedOwners, AfterRelease
<1> HIDE DEF t
<1>4. EveryHandlerHasItsClosure'
  BY <1>1, <1>2, <1>3 DEF EveryHandlerHasItsClosure
<1>5. NobodyElseReleases'
  BY <1>1, <1>2, <1>3, NoneIsNoClosure DEF NobodyElseReleases, Current
<1>6. QED
  BY <1>4, <1>5 DEF OwnersRelease

\* A subscription after that release adds c, and its closure names what c is in.
LEMMA FetchedOwners ==
    ASSUME TypeInv, OwnersRelease, NEW c \in Handlers, Fetched(c)
    PROVE  OwnersRelease'
<1> DEFINE t == TableWithout(held[c], c)
           k == wants[c]
<1>0. TypeOK /\ k \in Keys /\ t \in [Keys -> Shared \cup {None}]
  BY ReleaseTypes DEF TypeInv, TypeOK
<1>1. PICK u \in FreshUids :
        /\ SubscribeFrom(t, SentWithout(held[c], c), k, c, u)
        /\ held' = [held EXCEPT ![c] = [key |-> k, uid |-> subs'[k].uid]]
  BY DEF Fetched
<1>2. u \in Uids
  BY DEF FreshUids
<1>3. subs'[k] \in Shared
  BY <1>0, <1>1, <1>2, SubscribeTypes
<1>4. /\ \A k2 \in Keys : t[k2] # None =>
           /\ c \notin t[k2].handlers
           /\ \A d \in t[k2].handlers : held[d] = [key |-> k2, uid |-> t[k2].uid]
      /\ \A d \in Handlers \ {c} : current[d] =>
           /\ held[d] \in Closure /\ t[held[d].key] # None
           /\ t[held[d].key].uid = held[d].uid /\ d \in t[held[d].key].handlers
  BY <1>0, ReleasedOwners
<1>5. SubscribeFrom(t, SentWithout(held[c], c), k, c, u)
  BY <1>1
<1>6. /\ \A k2 \in Keys \ {k} : subs'[k2] = t[k2]
      /\ t[k] # None => /\ subs'[k].uid = t[k].uid
                        /\ subs'[k].handlers = t[k].handlers \cup {c}
      /\ t[k] = None => subs'[k] = [uid |-> u, handlers |-> {c}]
  <2> HIDE DEF t, k
  <2>1. CASE t[k] # None
    <3>1. subs' = [t EXCEPT ![k] = [t[k] EXCEPT !.handlers = t[k].handlers \cup {c}]]
      BY <1>5, <2>1 DEF SubscribeFrom
    <3>2. t[k] \in Shared
      BY <1>0, <2>1
    <3>3. QED
      BY <1>0, <2>1, <3>1, <3>2 DEF Shared
  <2>2. CASE t[k] = None
    BY <1>0, <1>5, <2>2 DEF SubscribeFrom
  <2>3. QED
    BY <2>1, <2>2
<1>7. /\ held'[c] = [key |-> k, uid |-> subs'[k].uid] /\ held'[c] \in Closure
      /\ \A d \in Handlers \ {c} : held'[d] = held[d] /\ current'[d] = current[d]
      /\ c \in subs'[k].handlers /\ subs'[k] # None
  <2>1. held'[c] = [key |-> k, uid |-> subs'[k].uid]
        /\ \A d \in Handlers \ {c} : held'[d] = held[d]
    BY <1>0, <1>1 DEF TypeOK
  <2>2. [key |-> k, uid |-> subs'[k].uid] \in Closure
    BY <1>0, <1>3 DEF Closure, Shared
  <2>3. \A d \in Handlers \ {c} : current'[d] = current[d]
    BY <1>0 DEF Fetched, TypeOK
  <2>4. c \in subs'[k].handlers /\ subs'[k] # None
    <3> HIDE DEF t, k
    <3>1. QED
      BY <1>3, <1>6, NoneIsNoSubscription
  <2>5. QED
    BY <2>1, <2>2, <2>3, <2>4
<1>8. \A k2 \in Keys : subs'[k2] # None => subs'[k2].handlers \subseteq Handlers
  <2>1. ManagerTypeOK'
    BY <1>0, <1>1, <1>2, SubscribeTypes
  <2>2. QED
    BY <2>1 DEF ManagerTypeOK, Shared
<1> HIDE DEF t, k
<1>9. EveryHandlerHasItsClosure'
  <2> SUFFICES ASSUME NEW k2 \in Keys, subs'[k2] # None, NEW d \in subs'[k2].handlers
               PROVE  held'[d] = [key |-> k2, uid |-> subs'[k2].uid]
    BY DEF EveryHandlerHasItsClosure
  <2>0. d \in Handlers
    BY <1>8
  <2>1. CASE k2 # k
    BY <1>4, <1>6, <1>7, <2>0, <2>1
  <2>2. CASE k2 = k /\ d = c
    BY <1>7, <2>2
  <2>3. CASE k2 = k /\ d # c
    BY <1>0, <1>4, <1>6, <1>7, <2>0, <2>3
  <2>4. QED
    BY <2>1, <2>2, <2>3
<1>10. NobodyElseReleases'
  <2> SUFFICES ASSUME NEW d \in Handlers, current'[d]
               PROVE  /\ held'[d] # None /\ subs'[held'[d].key] # None
                      /\ subs'[held'[d].key].uid = held'[d].uid
                      /\ d \in subs'[held'[d].key].handlers
    BY DEF NobodyElseReleases, Current
  <2>1. CASE d = c
    BY <1>7, <2>1, NoneIsNoClosure DEF Closure
  <2>2. CASE d # c
    <3>1. /\ held'[d] = held[d] /\ held[d] \in Closure /\ t[held[d].key] # None
          /\ t[held[d].key].uid = held[d].uid /\ d \in t[held[d].key].handlers
      BY <1>4, <1>7, <2>2
    <3>2. held[d].key \in Keys /\ held[d] # None
      BY <3>1, NoneIsNoClosure DEF Closure
    <3>3. CASE held[d].key = k
      BY <1>6, <1>7, <3>1, <3>2, <3>3
    <3>4. CASE held[d].key # k
      BY <1>6, <3>1, <3>2, <3>4
    <3>5. QED
      BY <3>3, <3>4
  <2>3. QED
    BY <2>1, <2>2
<1>11. QED
  BY <1>9, <1>10 DEF OwnersRelease

LEMMA OwnersKept ==
    ASSUME OwnersRelease, UNCHANGED <<subs, held, current>>
    PROVE  OwnersRelease'
  BY DEF OwnersRelease, NobodyElseReleases, EveryHandlerHasItsClosure, Current

\* Of the manager's own actions only a logout that is seen touches the registry.
LEMMA RegistryKept ==
    ASSUME ManagerStep, ~(Logout /\ watching)
    PROVE  subs' = subs /\ ~(watching /\ loggedIn /\ ~loggedIn')
  BY DEF session, ManagerStep, Login, Logout, LayoutLeaves, Revive, Reconnect, TokenArrives,
         TokenFails, ReconnectFires, IdleFires, Opened, AuthAccepted, AuthRefused, ServerCloses, Closed, Drop, CloseEvent

LEMMA StepOwners == TypeInv /\ OwnersRelease /\ [Next]_vars => OwnersRelease'
<1> SUFFICES ASSUME TypeInv, OwnersRelease, [Next]_vars PROVE OwnersRelease'
  OBVIOUS
<1>1. CASE ManagerMoves /\ Logout /\ watching
  <2>1. /\ \A k \in Keys : subs'[k] = None
        /\ \A c \in Handlers : ~current'[c]
    BY <1>1 DEF ManagerMoves, Logout, Forget
  <2>2. QED
    BY <2>1 DEF OwnersRelease, NobodyElseReleases, EveryHandlerHasItsClosure
<1>2. CASE ManagerMoves /\ ~(Logout /\ watching)
  <2>1. UNCHANGED <<subs, held, current>>
    BY <1>2, RegistryKept DEF ManagerMoves
  <2>2. QED
    BY <2>1, OwnersKept
<1>3. ASSUME NEW c \in Handlers, Fetched(c) PROVE OwnersRelease'
  BY <1>3, FetchedOwners
<1>4. ASSUME NEW c \in Handlers, Mount(c) \/ Toggle(c) \/ Unmount(c)
      PROVE  ReleaseHeld(c) \/ UNCHANGED <<subs, held, current>>
  BY <1>4 DEF Mount, Toggle, Unmount, managerVars
<1>5. ASSUME NEW c \in Handlers, NEW k \in Keys, Retarget(c, k)
      PROVE  ReleaseHeld(c) \/ UNCHANGED <<subs, held, current>>
  BY <1>5 DEF Retarget, managerVars
<1>6. CASE UNCHANGED vars
  BY <1>6, OwnersKept DEF vars, managerVars, componentVars
<1>7. ASSUME NEW c \in Handlers, ReleaseHeld(c) PROVE OwnersRelease'
  BY <1>7, ReleaseHeldOwners DEF TypeInv
<1>8. QED
  BY <1>1, <1>2, <1>3, <1>4, <1>5, <1>6, <1>7, OwnersKept DEF Next

\* A release reaches only the caller's own registration: a closure from before a
\* sign-out, or of a query that was registered anew, takes nobody's subscription
\* away; and no handler is registered without a component that can still release it
\* (_release compares the uid of the closure with the registry's).
THEOREM OwnersAlways == Spec => []OwnersRelease
<1>1. Init => OwnersRelease
  BY DEF Init, ManagerInit, OwnersRelease, NobodyElseReleases, EveryHandlerHasItsClosure
<1>2. QED
  BY <1>1, TypesAlways, StepOwners, PTL DEF Spec

-----------------------------------------------------------------------------
(* What the server has subscribed *)

\* Different queries are different subscriptions.
UidInv == \A k1, k2 \in Keys :
    subs[k1] # None /\ subs[k2] # None /\ subs[k1].uid = subs[k2].uid => k1 = k2

\* A socket the server has not authenticated has no subscription there, a new one
\* is not authenticated, and the tab knows when the current one is.
SocketInv ==
    /\ \A s \in Sockets : s \notin authed => sent[s] = {}
    /\ \A s \in Sockets : sock[s] \in {"connecting", "closed"} => s \notin authed
    /\ Connected /\ ws \in authed => authenticated
ServerInv == UidInv /\ SocketInv /\ ServerAgrees

\* The registry and the server's list lose the same uid in a release.
LEMMA ReleasedUids ==
    ASSUME TypeOK, UidInv, NEW c \in Handlers
    PROVE  LET t == TableWithout(held[c], c) IN
           /\ \A k1, k2 \in Keys :
                t[k1] # None /\ t[k2] # None /\ t[k1].uid = t[k2].uid => k1 = k2
           /\ UidsOf(t) = IF Current(held[c]) /\ Remaining(held[c], c) = {}
                          THEN UidsOf(subs) \ {held[c].uid} ELSE UidsOf(subs)
<1> DEFINE t == TableWithout(held[c], c)
<1>1. \A k \in Keys :
        /\ t[k] # None => subs[k] # None /\ t[k].uid = subs[k].uid
        /\ subs[k] # None /\ t[k] = None =>
             Current(held[c]) /\ held[c].key = k /\ Remaining(held[c], c) = {}
        /\ Current(held[c]) /\ Remaining(held[c], c) = {} => t[held[c].key] = None
  BY AfterRelease
<1>2. Current(held[c]) => /\ held[c].key \in Keys /\ subs[held[c].key] # None
                          /\ subs[held[c].key].uid = held[c].uid
  BY DEF Current, TypeOK, Closure
<1> HIDE DEF t
<1>3. \A k1, k2 \in Keys :
        t[k1] # None /\ t[k2] # None /\ t[k1].uid = t[k2].uid => k1 = k2
  BY <1>1 DEF UidInv
<1>4. CASE Current(held[c]) /\ Remaining(held[c], c) = {}
  <2>1. \A k \in Keys : t[k] # None <=> subs[k] # None /\ k # held[c].key
    BY <1>1, <1>2, <1>4
  <2>2. ASSUME NEW x PROVE x \in UidsOf(t) <=> x \in UidsOf(subs) /\ x # held[c].uid
    BY <1>1, <1>2, <1>4, <2>1 DEF UidsOf, UidInv
  <2>3. UidsOf(t) = UidsOf(subs) \ {held[c].uid}
    BY <2>2
  <2>4. QED
    BY <1>3, <1>4, <2>3 DEF t
<1>5. CASE ~(Current(held[c]) /\ Remaining(held[c], c) = {})
  <2>1. \A k \in Keys : t[k] # None <=> subs[k] # None
    BY <1>1, <1>5
  <2>2. UidsOf(t) = UidsOf(subs)
    BY <1>1, <2>1 DEF UidsOf
  <2>3. QED
    BY <1>3, <1>5, <2>2 DEF t
<1>6. QED
  BY <1>4, <1>5

\* A release in general: the frames follow the table.
LEMMA ReleasedFrames ==
    ASSUME TypeOK, ServerInv, NEW c \in Handlers
    PROVE  LET f == SentWithout(held[c], c) IN
           /\ f \in [Sockets -> SUBSET Uids]
           /\ \A s \in Sockets : s \notin authed => f[s] = {}
           /\ authenticated /\ Connected /\ ws \in authed
                => f[ws] = UidsOf(TableWithout(held[c], c))
<1> DEFINE f == SentWithout(held[c], c)
<1>0. /\ ws \in Sockets \cup {None} /\ sent \in [Sockets -> SUBSET Uids]
      /\ \A s \in Sockets : s \notin authed => sent[s] = {}
      /\ authenticated /\ Connected /\ ws \in authed => sent[ws] = UidsOf(subs)
  BY DEF TypeOK, ManagerTypeOK, ServerInv, SocketInv, ServerAgrees
<1>1. f \in [Sockets -> SUBSET Uids]
  BY ReleaseTypes
<1>2. CASE Current(held[c]) /\ Remaining(held[c], c) = {} /\ Connected
  <2>1. f = [sent EXCEPT ![ws] = sent[ws] \ {held[c].uid}] /\ ws \in Sockets
    BY <1>0, <1>2 DEF SentWithout, Connected
  <2>2. UidsOf(TableWithout(held[c], c)) = UidsOf(subs) \ {held[c].uid}
    BY <1>2, ReleasedUids DEF ServerInv
  <2>3. QED
    BY <1>0, <1>1, <2>1, <2>2
<1>3. CASE ~(Current(held[c]) /\ Remaining(held[c], c) = {} /\ Connected)
  <2>1. f = sent
    BY <1>3 DEF SentWithout
  <2>2. Connected => UidsOf(TableWithout(held[c], c)) = UidsOf(subs)
    BY <1>3, ReleasedUids DEF ServerInv
  <2>3. QED
    BY <1>0, <1>1, <2>1, <2>2
<1>4. QED
  BY <1>2, <1>3

\* A connection that is made, kept or dropped leaves the server's side alone.
LEMMA NewSocket ==
    ASSUME TypeOK, SocketInv, EnsureConnection(ws, sock), UNCHANGED <<authed, authenticated>>
    PROVE  /\ \A s \in Sockets : sock'[s] \in {"connecting", "closed"} => s \notin authed'
           /\ Connected' => Connected /\ ws' = ws
<1>0. ws \in Sockets \cup {None} /\ sock \in [Sockets -> ReadyStates]
  BY DEF TypeOK, ManagerTypeOK, ReadyStates
<1>1. CASE loggedIn /\ (ws = None \/ sock[ws] \notin {"connecting", "open"})
  <2>1. PICK s \in Sockets : /\ sock[s] = "closed" /\ ws' = s
                             /\ sock' = [sock EXCEPT ![s] = "connecting"]
    BY <1>1 DEF EnsureConnection, Connect
  <2>2. QED
    BY <1>0, <2>1 DEF SocketInv, Connected
<1>2. CASE ~(loggedIn /\ (ws = None \/ sock[ws] \notin {"connecting", "open"}))
  BY <1>2 DEF EnsureConnection, SocketInv, Connected
<1>3. QED
  BY <1>1, <1>2

NewSocketsUnknown == \A s \in Sockets : sock[s] \in {"connecting", "closed"} => s \notin authed

\* Steps that leave the registry, the server's list and the flag alone, and steps
\* after which there is no open connection.
LEMMA ServerKept ==
    ASSUME ServerInv, UNCHANGED <<subs, authed, sent, authenticated>>,
           NewSocketsUnknown', Connected' => Connected /\ ws' = ws
    PROVE  ServerInv'
<1>1. UidsOf(subs)' = UidsOf(subs)
  BY DEF UidsOf
<1>2. UidInv'
  BY DEF ServerInv, UidInv
<1>3. SocketInv' /\ ServerAgrees'
  BY <1>1 DEF ServerInv, SocketInv, ServerAgrees, NewSocketsUnknown
<1>4. QED
  BY <1>2, <1>3 DEF ServerInv

LEMMA NotConnected ==
    ASSUME ServerInv, UNCHANGED <<authed, sent>>, UidInv', NewSocketsUnknown', ~Connected'
    PROVE  ServerInv'
  BY DEF ServerInv, SocketInv, ServerAgrees, NewSocketsUnknown

LEMMA TeardownServer ==
    ASSUME TypeOK, ServerInv, Teardown, UidInv', UNCHANGED <<authed, sent>>
    PROVE  ServerInv'
<1>1. sock' = Dropped /\ ~Connected'
  BY DEF Teardown, Connected
<1>2. NewSocketsUnknown'
  BY <1>1 DEF Dropped, NewSocketsUnknown, ServerInv, SocketInv, TypeOK, ManagerTypeOK
<1>3. QED
  BY <1>1, <1>2, NotConnected

LEMMA EnsureServer ==
    ASSUME TypeOK, ServerInv, EnsureConnection(ws, sock),
           UNCHANGED <<subs, authed, sent, authenticated>>
    PROVE  ServerInv'
<1>1. NewSocketsUnknown' /\ (Connected' => Connected /\ ws' = ws)
  BY NewSocket DEF ServerInv, NewSocketsUnknown
<1>2. QED
  BY <1>1, ServerKept

\* The server's answer: what it did not have of the registry it has now.
LEMMA AcceptedServer ==
    ASSUME TypeOK, ServerInv, NEW s \in Sockets, AuthAccepted(s)
    PROVE  ServerInv'
<1>0. /\ sent \in [Sockets -> SUBSET Uids] /\ ws \in Sockets \cup {None}
      /\ sock[s] = "open" /\ authed' = authed \cup {s} /\ UNCHANGED <<ws, sock, subs>>
  BY DEF TypeOK, ManagerTypeOK, AuthAccepted
<1>1. UidsOf(subs)' = UidsOf(subs) /\ UidInv' /\ (Connected' <=> Connected)
  BY <1>0 DEF UidsOf, UidInv, ServerInv, Connected
<1>2. CASE ws = s
  <2>1. /\ Connected /\ authenticated' = TRUE
        /\ sent' = [sent EXCEPT ![s] = sent[s] \cup UidsOf(subs)]
    BY <1>0, <1>2, NoneIsNone DEF AuthAccepted, Connected
  <2>2. sent[s] \subseteq UidsOf(subs)
    BY <1>2, <2>1 DEF ServerInv, SocketInv, ServerAgrees
  <2>3. sent'[s] = UidsOf(subs)
    BY <1>0, <2>1, <2>2
  <2>4. QED
    BY <1>0, <1>1, <1>2, <2>1, <2>3 DEF ServerInv, SocketInv, ServerAgrees
<1>3. CASE ws # s
  <2>1. UNCHANGED <<sent, authenticated>>
    BY <1>3 DEF AuthAccepted
  <2>2. QED
    BY <1>0, <1>1, <1>3, <2>1 DEF ServerInv, SocketInv, ServerAgrees
<1>4. QED
  BY <1>2, <1>3

\* A socket that is closed is forgotten by the server.
LEMMA ClosedServer ==
    ASSUME TypeOK, ServerInv, NEW s \in Sockets, NEW clean, CloseEvent(s, clean)
    PROVE  ServerInv'
<1>0. /\ sent \in [Sockets -> SUBSET Uids] /\ ws \in Sockets \cup {None}
      /\ sock \in [Sockets -> ReadyStates]
      /\ sock' = [sock EXCEPT ![s] = "closed"] /\ authed' = authed \ {s}
      /\ sent' = [sent EXCEPT ![s] = {}] /\ UNCHANGED <<ws, subs>>
  BY DEF TypeOK, ManagerTypeOK, ReadyStates, CloseEvent
<1>1. UidsOf(subs)' = UidsOf(subs) /\ UidInv'
  BY <1>0 DEF UidsOf, UidInv, ServerInv
<1>2. Connected' => Connected /\ ws # s
  BY <1>0 DEF Connected
<1>3. ws # s => authenticated' = authenticated
  BY DEF CloseEvent
<1>4. (\A t \in Sockets : t \notin authed' => sent'[t] = {}) /\ NewSocketsUnknown'
  BY <1>0 DEF ServerInv, SocketInv, NewSocketsUnknown
<1>5. QED
  BY <1>0, <1>1, <1>2, <1>3, <1>4 DEF ServerInv, SocketInv, ServerAgrees, NewSocketsUnknown

LEMMA ManagerServer ==
    ASSUME TypeInv, ServerInv, ManagerStep
    PROVE  ServerInv'
<1>0. /\ TypeOK /\ SocketInv /\ NewSocketsUnknown /\ sock \in [Sockets -> ReadyStates]
      /\ ws \in Sockets \cup {None}
  BY DEF TypeInv, TypeOK, ManagerTypeOK, ServerInv, SocketInv, NewSocketsUnknown, ReadyStates
<1>k. ASSUME subs' = subs PROVE UidInv'
  BY <1>k DEF ServerInv, UidInv
<1>s. ASSUME UNCHANGED <<ws, sock, subs, authed, sent, authenticated>> PROVE ServerInv'
  BY <1>0, <1>s, ServerKept DEF NewSocketsUnknown, Connected
<1>1. CASE Login
  BY <1>1, <1>s DEF Login, flags, serverVars
<1>2. CASE Logout
  <2>1. CASE Forget
    <3>1. UidInv'
      BY <2>1 DEF Forget, UidInv
    <3>2. QED
      BY <1>0, <1>2, <2>1, <3>1, TeardownServer DEF Logout, Forget, serverVars
  <2>2. CASE ~Forget
    BY <1>2, <1>s, <2>2 DEF Logout, flags, serverVars
  <2>3. QED
    BY <2>1, <2>2
<1>3. CASE Revive
  BY <1>0, <1>3, EnsureServer DEF Revive, serverVars
<1>4. CASE Reconnect
  <2>1. UNCHANGED <<subs, authed, sent>>
    BY <1>4 DEF Reconnect, serverVars
  <2>2. NewSocketsUnknown' /\ ~Connected'
    <3>1. \A t \in Sockets : Dropped[t] \in {"connecting", "closed"} => t \notin authed
      BY <1>0 DEF Dropped, NewSocketsUnknown
    <3>2. Dropped \in [Sockets -> ReadyStates]
      BY <1>0, DroppedTypes
    <3>3. CASE ws' = None /\ sock' = Dropped
      BY <2>1, <3>1, <3>3 DEF NewSocketsUnknown, Connected
    <3>4. CASE \E t \in Sockets : Dropped[t] = "closed" /\ ws' = t
                                  /\ sock' = [Dropped EXCEPT ![t] = "connecting"]
      BY <2>1, <3>1, <3>2, <3>4 DEF NewSocketsUnknown, Connected
    <3>5. QED
      BY <1>4, <3>3, <3>4 DEF Reconnect, EnsureConnection, Connect
  <2>3. QED
    BY <1>k, <2>1, <2>2, NotConnected
<1>5. CASE TokenArrives
  BY <1>5, <1>s DEF TokenArrives
<1>6. CASE TokenFails
  BY <1>6, <1>s DEF TokenFails, serverVars
<1>7. CASE ReconnectFires
  BY <1>0, <1>7, EnsureServer DEF ReconnectFires, serverVars
<1>8. CASE IdleFires
  <2>1. CASE Teardown
    BY <1>0, <1>8, <1>k, <2>1, TeardownServer DEF IdleFires, serverVars
  <2>2. CASE ~Teardown
    BY <1>8, <1>s, <2>2 DEF IdleFires, flags, serverVars
  <2>3. QED
    BY <2>1, <2>2
<1>9. ASSUME NEW s \in Sockets, Opened(s) PROVE ServerInv'
  <2>1. /\ sock[s] = "connecting" /\ sock' = [sock EXCEPT ![s] = "open"]
        /\ UNCHANGED <<ws, authenticated, subs, authed, sent>>
    BY <1>9 DEF Opened, serverVars
  <2>2. NewSocketsUnknown' /\ s \notin authed
    BY <1>0, <2>1 DEF NewSocketsUnknown
  <2>3. CASE ws = s
    BY <1>k, <2>1, <2>2, <2>3 DEF ServerInv, SocketInv, ServerAgrees, NewSocketsUnknown
  <2>4. CASE ws # s
    <3>1. Connected' => Connected /\ ws' = ws
      BY <1>0, <2>1, <2>4 DEF Connected
    <3>2. QED
      BY <2>1, <2>2, <3>1, ServerKept
  <2>5. QED
    BY <2>3, <2>4
<1>10. ASSUME NEW s \in Sockets, AuthAccepted(s) PROVE ServerInv'
  BY <1>0, <1>10, AcceptedServer
<1>11. ASSUME NEW s \in Sockets, AuthRefused(s) PROVE ServerInv'
  <2>0. UNCHANGED <<subs, authed, sent>>
    BY <1>11 DEF AuthRefused
  <2>1. CASE Teardown
    BY <1>0, <1>k, <2>0, <2>1, TeardownServer
  <2>2. CASE ~Teardown
    <3>1. UNCHANGED <<ws, sock, authenticated>>
      BY <1>11, <2>2 DEF AuthRefused, flags
    <3>2. QED
      BY <1>s, <2>0, <3>1
  <2>3. QED
    BY <2>1, <2>2
<1>12. ASSUME NEW s \in Sockets, ServerCloses(s) PROVE ServerInv'
  <2>1. sock' = [sock EXCEPT ![s] = "closing"]
        /\ UNCHANGED <<ws, authenticated, subs, authed, sent>>
    BY <1>12 DEF ServerCloses, flags, serverVars
  <2>2. NewSocketsUnknown' /\ (Connected' => Connected /\ ws' = ws)
    BY <1>0, <2>1 DEF NewSocketsUnknown, Connected
  <2>3. QED
    BY <2>1, <2>2, ServerKept
<1>13. ASSUME NEW s \in Sockets, Closed(s) \/ Drop(s) PROVE ServerInv'
  BY <1>0, <1>13, ClosedServer DEF Closed, Drop
<1>14. CASE LayoutLeaves
  BY <1>14, <1>s DEF LayoutLeaves, flags, serverVars
<1>15. QED
  BY <1>1, <1>2, <1>3, <1>4, <1>5, <1>6, <1>7, <1>8, <1>9, <1>10, <1>11, <1>12, <1>13, <1>14
     DEF ManagerStep

\* A release on its own.
LEMMA ReleaseHeldServer ==
    ASSUME TypeOK, ServerInv, NEW c \in Handlers, ReleaseHeld(c)
    PROVE  ServerInv'
<1> DEFINE t == TableWithout(held[c], c)
           f == SentWithout(held[c], c)
<1>1. /\ subs' = t /\ sent' = f
      /\ UNCHANGED <<ws, sock, authenticated, authed>>
  BY DEF ReleaseHeld, Release, flags
<1>2. /\ \A k1, k2 \in Keys :
           t[k1] # None /\ t[k2] # None /\ t[k1].uid = t[k2].uid => k1 = k2
      /\ \A s \in Sockets : s \notin authed => f[s] = {}
      /\ authenticated /\ Connected /\ ws \in authed => f[ws] = UidsOf(t)
  BY ReleasedUids, ReleasedFrames DEF ServerInv
<1>3. UidsOf(subs)' = UidsOf(t) /\ (Connected' <=> Connected)
  BY <1>1 DEF UidsOf, Connected
<1> HIDE DEF t, f
<1>4. UidInv'
  BY <1>1, <1>2 DEF UidInv
<1>5. SocketInv' /\ ServerAgrees'
  BY <1>1, <1>2, <1>3 DEF ServerInv, SocketInv, ServerAgrees
<1>6. QED
  BY <1>4, <1>5 DEF ServerInv

\* A new subscription is on the server's list at once when this connection is
\* authenticated, and is part of the next list otherwise.
LEMMA FetchedServer ==
    ASSUME TypeInv, ServerInv, NEW c \in Handlers, Fetched(c)
    PROVE  ServerInv'
<1> DEFINE t == TableWithout(held[c], c)
           f == SentWithout(held[c], c)
           k == wants[c]
<1>0. /\ TypeOK /\ k \in Keys /\ t \in [Keys -> Shared \cup {None}]
      /\ f \in [Sockets -> SUBSET Uids] /\ ws \in Sockets \cup {None}
  BY ReleaseTypes DEF TypeInv, TypeOK, ManagerTypeOK
<1>1. PICK u \in FreshUids : SubscribeFrom(t, f, k, c, u)
  BY DEF Fetched
<1>2. /\ \A k1, k2 \in Keys :
           t[k1] # None /\ t[k2] # None /\ t[k1].uid = t[k2].uid => k1 = k2
      /\ UidsOf(t) \subseteq UidsOf(subs)
      /\ \A s \in Sockets : s \notin authed => f[s] = {}
      /\ authenticated /\ Connected /\ ws \in authed => f[ws] = UidsOf(t)
  BY <1>0, ReleasedUids, ReleasedFrames DEF ServerInv
<1>3. u \notin UidsOf(t)
  BY <1>2 DEF FreshUids
<1> HIDE DEF t, f, k
<1>4. UNCHANGED <<authenticated, authed>>
  BY <1>1 DEF SubscribeFrom, flags
<1>5. CASE t[k] # None
  <2>1. /\ subs' = [t EXCEPT ![k] = [t[k] EXCEPT !.handlers = t[k].handlers \cup {c}]]
        /\ sent' = f /\ UNCHANGED <<ws, sock>>
    BY <1>1, <1>5 DEF SubscribeFrom
  <2>2. t[k] \in Shared
    BY <1>0, <1>5
  <2>3. subs'[k].uid = t[k].uid /\ subs'[k] \in Shared
    <3>1. ManagerTypeOK' /\ subs'[k] \in Shared
      <4>1. SubscribeFrom(TableWithout(held[c], c), SentWithout(held[c], c), wants[c], c, u)
        BY <1>1 DEF t, f, k
      <4>2. u \in Uids
        BY DEF FreshUids
      <4>3. QED
        BY <1>0, <4>1, <4>2, SubscribeTypes DEF k
    <3>2. QED
      BY <1>0, <2>1, <2>2, <3>1 DEF Shared
  <2>4. \A k2 \in Keys : (subs'[k2] # None <=> t[k2] # None)
                         /\ (t[k2] # None => subs'[k2].uid = t[k2].uid)
    BY <1>0, <1>5, <2>1, <2>3, NoneIsNoSubscription
  <2>5. UidInv' /\ UidsOf(subs)' = UidsOf(t)
    BY <1>2, <2>4 DEF UidInv, UidsOf
  <2>6. Connected' <=> Connected
    BY <2>1 DEF Connected
  <2>7. QED
    BY <1>2, <1>4, <2>1, <2>5, <2>6 DEF ServerInv, SocketInv, ServerAgrees
<1>6. CASE t[k] = None
  <2>1. /\ subs' = [t EXCEPT ![k] = [uid |-> u, handlers |-> {c}]]
        /\ EnsureConnection(ws, sock)
        /\ sent' = IF authenticated /\ Connected /\ ws \in authed
                   THEN [f EXCEPT ![ws] = f[ws] \cup {u}] ELSE f
    BY <1>1, <1>6 DEF SubscribeFrom
  <2>2. [uid |-> u, handlers |-> {c}] # None
    BY NoneIsNoSubscription DEF Shared, FreshUids
  <2>3. /\ \A k2 \in Keys \ {k} : subs'[k2] = t[k2]
        /\ subs'[k] # None /\ subs'[k].uid = u
    BY <1>0, <2>1, <2>2
  <2>4. UidsOf(subs)' = UidsOf(t) \cup {u}
    BY <1>0, <1>6, <2>3 DEF UidsOf
  <2>5. UidInv'
    BY <1>2, <1>3, <2>3 DEF UidInv, UidsOf
  <2>6. NewSocketsUnknown' /\ (Connected' => Connected /\ ws' = ws)
    BY <1>0, <1>4, <2>1, NewSocket DEF ServerInv, NewSocketsUnknown
  <2>7. \A s \in Sockets : s \notin authed' => sent'[s] = {}
    BY <1>0, <1>2, <1>4, <2>1
  <2>8. authenticated /\ Connected /\ ws \in authed => sent'[ws] = UidsOf(t) \cup {u}
    <3>1. ws \in authed /\ Connected => ws \in Sockets
      BY <1>0 DEF Connected
    <3>2. QED
      BY <1>0, <1>2, <2>1, <3>1
  <2>9. SocketInv' /\ ServerAgrees'
    BY <1>4, <2>4, <2>6, <2>7, <2>8
       DEF ServerInv, SocketInv, ServerAgrees, NewSocketsUnknown
  <2>10. QED
    BY <2>5, <2>9 DEF ServerInv
<1>7. QED
  BY <1>5, <1>6

LEMMA StepServer == TypeInv /\ ServerInv /\ [Next]_vars => ServerInv'
<1> SUFFICES ASSUME TypeInv, ServerInv, [Next]_vars PROVE ServerInv'
  OBVIOUS
<1>s. ASSUME UNCHANGED managerVars PROVE ServerInv'
  BY <1>s DEF managerVars, ServerInv, UidInv, SocketInv, ServerAgrees, Connected, UidsOf
<1>1. CASE ManagerMoves
  BY <1>1, ManagerServer DEF ManagerMoves
<1>2. ASSUME NEW c \in Handlers, Fetched(c) PROVE ServerInv'
  BY <1>2, FetchedServer
<1>3. ASSUME NEW c \in Handlers, ReleaseHeld(c) PROVE ServerInv'
  BY <1>3, ReleaseHeldServer DEF TypeInv
<1>4. ASSUME NEW c \in Handlers, Mount(c) \/ Toggle(c) \/ Unmount(c)
      PROVE  ReleaseHeld(c) \/ UNCHANGED managerVars
  BY <1>4 DEF Mount, Toggle, Unmount
<1>5. ASSUME NEW c \in Handlers, NEW k \in Keys, Retarget(c, k)
      PROVE  ReleaseHeld(c) \/ UNCHANGED managerVars
  BY <1>5 DEF Retarget
<1>6. CASE UNCHANGED vars
  BY <1>s, <1>6 DEF vars
<1>7. QED
  BY <1>s, <1>1, <1>2, <1>3, <1>4, <1>5, <1>6 DEF Next

\* Across any number of reconnections, repeated authentications and releases, a
\* server that has accepted this connection serves exactly what is registered
\* (_onAuth re-subscribes, subscribe and _release send at once).
THEOREM ServerServesTheRegistry == Spec => []ServerAgrees
<1>1. Init => ServerInv
  BY NoneIsNone DEF Init, ManagerInit, ServerInv, UidInv, SocketInv, ServerAgrees, Connected
<1>2. Spec => []ServerInv
  BY <1>1, TypesAlways, StepServer, PTL DEF Spec
<1>3. ServerInv => ServerAgrees
  BY DEF ServerInv
<1>4. QED
  BY <1>2, <1>3, PTL
=============================================================================
