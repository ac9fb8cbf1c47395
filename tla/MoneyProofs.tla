----------------------------- MODULE MoneyProofs -----------------------------
(***************************************************************************)
(* The dues: nobody is reminded twice of a stage, no payment is booked     *)
(* twice, nothing is charged twice.  Each has an invariant of its own, for *)
(* the three programs share the charges and not their safeguards: a unique *)
(* key and stamps, a look at the transactions, and the concurrency group.  *)
(***************************************************************************)
EXTENDS BillingWorker, Reminders, Sums

-----------------------------------------------------------------------------
(* The dues reminders.  That the tick never repeats itself rests on the log    *)
(* alone: a key is held by the tick that inserted it, and whatever was sent is *)
(* in the log.  That the two programs never repeat each other rests on the     *)
(* stamps, and between a message and its stamp on the rule: an uncontested     *)
(* charge is in the hands of the program that the rule gives it to.            *)

\* A tick between two groups holds nothing, and only one that lost a batch
\* insert has rows left to insert.
HandsInv ==
    \A t \in Ticks : tick[t] # NoTick =>
        /\ tick[t].at = "next" => tick[t].held = {}
        /\ tick[t].at # "rows" => tick[t].rows = {}

\* What a tick holds is in the log, and until it is sent nobody was sent it and
\* no other tick is about to.
Sending(t, k) == tick[t].at \in {"rows", "send"} /\ k \in tick[t].held
ClaimInv ==
    \A t \in Ticks, k \in Key :
        /\ tick[t] # NoTick /\ k \in tick[t].held => log[k] # "none"
        /\ Sending(t, k) => byEngine[k] = 0 /\ \A u \in Ticks : Sending(u, k) => u = t
LogInv == \A k \in Key : byEngine[k] <= 1 /\ (byEngine[k] > 0 => log[k] # "none")

\* Whose the dues reminders are: the tick's where the rule is on and the billed
\* member has an account, the worker's where not.
EngineOwns == ruleOn /\ Billed \in accounts
Mine(k) == k.person = Billed /\ k.bill \notin contested
OwnerInv ==
    /\ \A t \in Ticks, k \in Key :
         k \in KeysOf(t) /\ Mine(k) => EngineOwns /\ byWorker[k] = 0
    /\ sender # NoSender => \A b \in sender.mine \ contested : ~EngineOwns

\* A stamp that is still to be written, by the tick or by the worker.
TickOwesStamp(t, k) ==
    /\ tick[t] # NoTick /\ k \in tick[t].held
    /\ \/ tick[t].at \in {"settle", "read"}
       \/ tick[t].at = "stamp" /\ k.bill \in tick[t].bills
WorkerOwesStamp(k) ==
    sender.at = "stamp" /\ k.bill \in sender.mine /\ sender.stage[k.bill] = k.stage
StampInv ==
    \A k \in Key : Mine(k) =>
        /\ byEngine[k] > 0 =>
             byWorker[k] = 0 /\ (k.stage \in stamps[k.bill] \/ \E t \in Ticks : TickOwesStamp(t, k))
        /\ byWorker[k] > 0 =>
             byWorker[k] = 1 /\ (k.stage \in stamps[k.bill] \/ WorkerOwesStamp(k))

\* What the worker is about to send was sent by nobody; and it writes to the
\* billed member only.
UnsentInv ==
    sender.at = "next" =>
        \A k \in Key : Mine(k) /\ k.bill \in sender.mine /\ sender.stage[k.bill] = k.stage =>
            byEngine[k] = 0 /\ byWorker[k] = 0
StrangerInv == \A k \in Key : k.person # Billed => byWorker[k] = 0

RemindersInv ==
    /\ RemindersTypeOK /\ HandsInv /\ ClaimInv /\ LogInv
    /\ OwnerInv /\ StampInv /\ UnsentInv /\ StrangerInv

-----------------------------------------------------------------------------
\* The day's phase is one of five, and both programs' stages follow.
LEMMA PhaseIn ==
  ASSUME RemindersTypeOK, NEW b \in Bills
  PROVE  /\ Phase(b) \in 0..4
         /\ EngineStage(Phase(b)) \in 0..3 /\ WorkerStage(Phase(b)) \in 0..3
<1>1. today \in Nat /\ Opens[b] \in Nat
  BY ReminderConstants DEF RemindersTypeOK
<1>2. CASE today < Opens[b]
  BY <1>2 DEF Phase, EngineStage, WorkerStage
<1>3. CASE ~(today < Opens[b])
  <2> DEFINE d == today - Opens[b] + 1
             m == CHOOSE x \in {d, 4} : \A y \in {d, 4} : x <= y
  <2>1. d \in Nat /\ d >= 1
    BY <1>1, <1>3
  <2>2. \E x \in {d, 4} : \A y \in {d, 4} : x <= y
    BY <2>1
  <2>3. m \in {d, 4} /\ m <= d /\ m <= 4
    BY <2>2
  <2>4. Phase(b) = m
    BY <1>3 DEF Phase, Min
  <2>5. m \in 1..4
    BY <2>1, <2>3
  <2> HIDE DEF m, d
  <2> QED
    BY <2>4, <2>5 DEF EngineStage, WorkerStage
<1> QED
  BY <1>2, <1>3

\* What is under a tick's hands, field by field.
LEMMA TickFields ==
  ASSUME RemindersTypeOK, NEW t \in Ticks, tick[t] # NoTick
  PROVE  /\ tick[t] \in Tick
         /\ tick[t].at \in {"next", "rows", "send", "failed", "settle", "read", "stamp"}
         /\ tick[t].todo \subseteq Key /\ tick[t].rows \subseteq Key /\ tick[t].held \subseteq Key
         /\ tick[t].seen \in [Bills -> SUBSET Stages] /\ tick[t].bills \subseteq Bills
  BY DEF RemindersTypeOK, Tick

LEMMA Placed ==
  ASSUME RemindersTypeOK, NEW t \in Ticks
  PROVE  tick[t] # NoTick <=> tick[t].at # "none"
  BY TickFields DEF NoTick

LEMMA SenderFields ==
  ASSUME RemindersTypeOK, sender # NoSender
  PROVE  /\ sender \in Sender /\ sender.at \in {"next", "stamp"} /\ sender.mine \subseteq Bills
         /\ sender.seen \in [Bills -> SUBSET Stages] /\ sender.stage \in [Bills -> 0..3]
  BY DEF RemindersTypeOK, Sender

LEMMA BetweenIn ==
  ASSUME NEW todo \in SUBSET Key
  PROVE  Between(todo) \in Tick
  BY DEF Between, Tick

\* One tick moves to a new state, the others stay.
Becomes(t, r) == tick'[t] = r /\ \A u \in Ticks : u # t => tick'[u] = tick[u]
LEMMA Moves ==
  ASSUME RemindersTypeOK, NEW t \in Ticks, NEW r \in {NoTick} \cup Tick,
         tick' = [tick EXCEPT ![t] = r]
  PROVE  Becomes(t, r) /\ tick' \in [Ticks -> {NoTick} \cup Tick]
  BY DEF RemindersTypeOK, Becomes

LEMMA KeysAre ==
  ASSUME RemindersTypeOK, NEW t \in Ticks
  PROVE  /\ KeysOf(t) \subseteq Key
         /\ \A k : k \in KeysOf(t) <=>
              tick[t] # NoTick /\ (k \in tick[t].todo \/ k \in tick[t].rows \/ k \in tick[t].held)
  BY TickFields DEF KeysOf

\* (the same for the state after a step)
LEMMA KeysAreAfter ==
  ASSUME RemindersTypeOK', NEW t \in Ticks
  PROVE  \A k : k \in KeysOf(t)' <=>
           tick'[t] # NoTick /\ (k \in tick'[t].todo \/ k \in tick'[t].rows \/ k \in tick'[t].held)
  BY DEF KeysOf

\* The keys of a step of one tick that takes up none.
LEMMA FewerKeys ==
  ASSUME RemindersInv, RemindersTypeOK', NEW t \in Ticks,
         \A u \in Ticks : u # t => tick'[u] = tick[u],
         \A k : k \in KeysOf(t)' => k \in KeysOf(t)
  PROVE  \A u \in Ticks : \A k : k \in KeysOf(u)' => k \in KeysOf(u)
  BY DEF KeysOf

-----------------------------------------------------------------------------
(* What each step does *)

LEMMA LoadDoes ==
  ASSUME RemindersTypeOK, NEW t \in Ticks, Load(t)
  PROVE  \E todo \in SUBSET Key :
           /\ Becomes(t, Between(todo)) /\ tick' \in [Ticks -> {NoTick} \cup Tick]
           /\ tick[t] = NoTick /\ ruleOn
           /\ \A k \in todo : log[k] = "none" /\ k.person \in accounts /\ k.stage \notin stamps[k.bill]
<1> DEFINE todo == {k \in Due : log[k] = "none"}
<1>1. todo \in SUBSET Key /\ tick' = [tick EXCEPT ![t] = Between(todo)] /\ tick[t] = NoTick /\ ruleOn
  BY DEF Load, Due
<1>2. \A k \in todo : log[k] = "none" /\ k.person \in accounts /\ k.stage \notin stamps[k.bill]
  BY DEF Due
<1> HIDE DEF todo
<1> QED
  BY <1>1, <1>2, Moves, BetweenIn

LEMMA ClaimGroupDoes ==
  ASSUME RemindersTypeOK, NEW t \in Ticks, NEW stage \in Stages, NEW person \in People,
         ClaimGroup(t, stage, person)
  PROVE  \E group \in SUBSET Key, r \in Tick :
           /\ tick[t] # NoTick /\ tick[t].at = "next" /\ group \subseteq tick[t].todo
           /\ Becomes(t, r) /\ tick' \in [Ticks -> {NoTick} \cup Tick]
           /\ r.todo = tick[t].todo \ group
           /\ \/ log' = log /\ r.at = "rows" /\ r.rows = group /\ r.held = {}
              \/ /\ \A k \in group : log[k] = "none"
                 /\ \A k \in Key : log'[k] = IF k \in group THEN "claimed" ELSE log[k]
                 /\ log' \in [Key -> {"none", "claimed", "sent", "failed"}]
                 /\ r.at = "send" /\ r.rows = {} /\ r.held = group
<1> DEFINE group == {k \in tick[t].todo : k.stage = stage /\ k.person = person}
           collides == \E k \in group : Taken(k)
           r == [tick[t] EXCEPT !.at = IF collides THEN "rows" ELSE "send",
                                !.todo = @ \ group,
                                !.rows = IF collides THEN group ELSE {},
                                !.held = IF collides THEN {} ELSE group]
<1>0. TickAt(t, "next")
  BY DEF ClaimGroup
<1>1. tick[t] # NoTick /\ tick[t].at = "next"
  BY <1>0 DEF TickAt, NoTick
<1>2. tick[t] \in Tick /\ group \subseteq tick[t].todo /\ group \in SUBSET Key
  BY <1>1, TickFields
<1>3. /\ tick' = [tick EXCEPT ![t] = r]
      /\ log' = IF collides THEN log
                ELSE [k \in Key |-> IF k \in group THEN "claimed" ELSE log[k]]
  BY DEF ClaimGroup, RemindersTypeOK
<1> HIDE DEF group
<1>4. r \in Tick /\ r.todo = tick[t].todo \ group
  BY <1>2 DEF Tick
<1>5. CASE collides
  <2>1. r.at = "rows" /\ r.rows = group /\ r.held = {} /\ log' = log
    BY <1>2, <1>3, <1>5 DEF Tick
  <2> HIDE DEF r
  <2> QED
    BY <1>1, <1>2, <1>3, <1>4, <2>1, Moves
<1>6. CASE ~collides
  <2>1. r.at = "send" /\ r.rows = {} /\ r.held = group
    BY <1>2, <1>6 DEF Tick
  <2>2. \A k \in group : log[k] = "none"
    BY <1>6 DEF Taken
  <2>3. /\ \A k \in Key : log'[k] = IF k \in group THEN "claimed" ELSE log[k]
        /\ log' \in [Key -> {"none", "claimed", "sent", "failed"}]
    BY <1>3, <1>6 DEF RemindersTypeOK
  <2> HIDE DEF r
  <2> QED
    BY <1>1, <1>2, <1>3, <1>4, <2>1, <2>2, <2>3, Moves
<1> QED
  BY <1>5, <1>6

LEMMA ClaimRowDoes ==
  ASSUME RemindersTypeOK, NEW t \in Ticks, NEW k \in Key, ClaimRow(t, k)
  PROVE  \E r \in Tick :
           /\ tick[t] # NoTick /\ tick[t].at = "rows" /\ k \in tick[t].rows
           /\ Becomes(t, r) /\ tick' \in [Ticks -> {NoTick} \cup Tick]
           /\ r.todo = tick[t].todo /\ r.rows = tick[t].rows \ {k}
           /\ r.at \in {"rows", "next", "send"}
           /\ r.at # "rows" => r.rows = {}
           /\ r.at = "next" => r.held = {}
           /\ \/ log[k] # "none" /\ log' = log /\ r.held = tick[t].held
              \/ /\ log[k] = "none" /\ log' = [log EXCEPT ![k] = "claimed"]
                 /\ r.held = tick[t].held \cup {k}
<1> DEFINE held == IF Taken(k) THEN tick[t].held ELSE tick[t].held \cup {k}
           at == IF tick[t].rows # {k} THEN tick[t].at ELSE IF held = {} THEN "next" ELSE "send"
           r == [tick[t] EXCEPT !.rows = @ \ {k}, !.held = held, !.at = at]
<1>1. tick[t] # NoTick /\ tick[t].at = "rows" /\ k \in tick[t].rows
  BY DEF ClaimRow, TickAt, NoTick
<1>2. tick[t] \in Tick
  BY <1>1, TickFields
<1>3. /\ tick' = [tick EXCEPT ![t] = r]
      /\ log' = IF Taken(k) THEN log ELSE [log EXCEPT ![k] = "claimed"]
  BY DEF ClaimRow, RemindersTypeOK
<1>4. held \subseteq Key /\ at \in {"rows", "next", "send"}
  BY <1>1, <1>2 DEF Tick
<1>5. (at # "rows" => tick[t].rows = {k}) /\ (at = "next" => held = {})
  BY <1>1
<1>6. (Taken(k) => held = tick[t].held) /\ (~Taken(k) => held = tick[t].held \cup {k})
  OBVIOUS
<1> HIDE DEF held, at
<1>7. /\ r \in Tick /\ r.todo = tick[t].todo /\ r.rows = tick[t].rows \ {k}
      /\ r.held = held /\ r.at = at
  BY <1>2, <1>4 DEF Tick
<1> HIDE DEF r
<1>8. Becomes(t, r) /\ tick' \in [Ticks -> {NoTick} \cup Tick]
  BY <1>3, <1>7, Moves
<1> QED
  BY <1>1, <1>3, <1>4, <1>5, <1>6, <1>7, <1>8 DEF Taken

\* The steps of a tick that only move it on, or drop what it holds.
LEMMA AtMoves ==
  ASSUME RemindersTypeOK, NEW t \in Ticks, tick[t] # NoTick,
         NEW place \in {"next", "rows", "send", "failed", "settle", "read", "stamp"},
         tick' = [tick EXCEPT ![t].at = place]
  PROVE  \E r \in Tick :
           /\ Becomes(t, r) /\ tick' \in [Ticks -> {NoTick} \cup Tick]
           /\ r.at = place /\ r.todo = tick[t].todo /\ r.rows = tick[t].rows
           /\ r.held = tick[t].held /\ r.bills = tick[t].bills /\ r.seen = tick[t].seen
<1> DEFINE r == [tick[t] EXCEPT !.at = place]
<1>1. tick[t] \in Tick
  BY TickFields
<1>2. /\ r \in Tick /\ r.at = place /\ r.todo = tick[t].todo /\ r.rows = tick[t].rows
      /\ r.held = tick[t].held /\ r.bills = tick[t].bills /\ r.seen = tick[t].seen
  BY <1>1 DEF Tick
<1>3. tick' = [tick EXCEPT ![t] = r]
  BY DEF RemindersTypeOK
<1> HIDE DEF r
<1> QED
  BY <1>2, <1>3, Moves

LEMMA DropMoves ==
  ASSUME RemindersTypeOK, NEW t \in Ticks, tick[t] # NoTick,
         tick' = [tick EXCEPT ![t] = Between(tick[t].todo)]
  PROVE  /\ Becomes(t, Between(tick[t].todo)) /\ tick' \in [Ticks -> {NoTick} \cup Tick]
  BY TickFields, BetweenIn, Moves

LEMMA BetweenIs ==
  ASSUME NEW todo
  PROVE  /\ Between(todo).at = "next" /\ Between(todo).todo = todo /\ Between(todo) # NoTick
         /\ Between(todo).rows = {} /\ Between(todo).held = {} /\ Between(todo).bills = {}
  BY DEF Between, NoTick

LEMMA SendGroupDoes ==
  ASSUME RemindersTypeOK, NEW t \in Ticks, NEW delivered \in BOOLEAN, NEW throws \in BOOLEAN,
         SendGroup(t, delivered, throws)
  PROVE  \E r \in Tick :
           /\ tick[t] # NoTick /\ tick[t].at = "send"
           /\ Becomes(t, r) /\ tick' \in [Ticks -> {NoTick} \cup Tick]
           /\ r.todo = tick[t].todo /\ r.rows = tick[t].rows /\ r.held = tick[t].held
           /\ r.at = IF throws THEN "failed" ELSE "settle"
           /\ byEngine' \in [Key -> Nat]
           /\ \A k \in Key :
                byEngine'[k] = IF delivered /\ k \in tick[t].held THEN byEngine[k] + 1 ELSE byEngine[k]
           /\ contested \subseteq contested' /\ contested' \subseteq Bills
           /\ delivered /\ throws => \A k \in tick[t].held : k.bill \in contested'
           /\ mishaps' \in 0..MaxMishaps
<1>0. TickAt(t, "send")
  BY DEF SendGroup
<1>1. tick[t] # NoTick /\ tick[t].at = "send"
  BY <1>0 DEF TickAt, NoTick
<1>2. tick' = [tick EXCEPT ![t].at = IF throws THEN "failed" ELSE "settle"]
  BY DEF SendGroup
<1>3. PICK r \in Tick :
        /\ Becomes(t, r) /\ tick' \in [Ticks -> {NoTick} \cup Tick]
        /\ r.at = (IF throws THEN "failed" ELSE "settle")
        /\ r.todo = tick[t].todo /\ r.rows = tick[t].rows /\ r.held = tick[t].held
  <2>1. CASE throws
    <3>1. tick' = [tick EXCEPT ![t].at = "failed"]
      BY <1>2, <2>1
    <3> QED
      BY <1>1, <2>1, <3>1, AtMoves
  <2>2. CASE ~throws
    <3>1. tick' = [tick EXCEPT ![t].at = "settle"]
      BY <1>2, <2>2
    <3> QED
      BY <1>1, <2>2, <3>1, AtMoves
  <2> QED
    BY <2>1, <2>2
<1>4. byEngine' = [k \in Key |-> byEngine[k] + IF delivered /\ k \in tick[t].held THEN 1 ELSE 0]
  BY DEF SendGroup
<1>5. /\ byEngine' \in [Key -> Nat]
      /\ \A k \in Key :
           byEngine'[k] = IF delivered /\ k \in tick[t].held THEN byEngine[k] + 1 ELSE byEngine[k]
  BY <1>4 DEF RemindersTypeOK
<1>6. /\ contested \subseteq contested' /\ contested' \subseteq Bills
      /\ delivered /\ throws => \A k \in tick[t].held : k.bill \in contested'
  BY <1>1, TickFields DEF SendGroup, BillsOf, RemindersTypeOK, Key
<1>7. mishaps' \in 0..MaxMishaps
  BY ReminderConstants DEF SendGroup, Counted, Mishap, RemindersTypeOK
<1> QED
  BY <1>1, <1>3, <1>5, <1>6, <1>7

LEMMA SettleLogsDoes ==
  ASSUME RemindersTypeOK, NEW t \in Ticks, NEW ok \in BOOLEAN, SettleLogs(t, ok)
  PROVE  \E r \in Tick :
           /\ tick[t] # NoTick /\ tick[t].at \in {"settle", "failed"}
           /\ Becomes(t, r) /\ tick' \in [Ticks -> {NoTick} \cup Tick]
           /\ r.todo = tick[t].todo
           /\ \/ /\ tick[t].at = "settle" /\ r.at = "read"
                 /\ r.rows = tick[t].rows /\ r.held = tick[t].held
              \/ tick[t].at = "failed" /\ r = Between(tick[t].todo)
           /\ log' \in [Key -> {"none", "claimed", "sent", "failed"}]
           /\ \A k \in Key : log'[k] # log[k] => k \in tick[t].held /\ log'[k] # "none"
           /\ mishaps' \in 0..MaxMishaps
<1>1. tick[t] # NoTick /\ tick[t].at \in {"settle", "failed"}
  BY DEF SettleLogs, NoTick
<1>2. /\ log' \in [Key -> {"none", "claimed", "sent", "failed"}]
      /\ \A k \in Key : log'[k] # log[k] => k \in tick[t].held /\ log'[k] # "none"
  BY DEF SettleLogs, RemindersTypeOK
<1>3. mishaps' \in 0..MaxMishaps
  BY ReminderConstants DEF SettleLogs, Counted, Mishap, RemindersTypeOK
<1>4. CASE tick[t].at = "settle"
  <2>1. tick' = [tick EXCEPT ![t].at = "read"]
    BY <1>4 DEF SettleLogs, TickAt, RemindersTypeOK
  <2>2. PICK r \in Tick :
        /\ Becomes(t, r) /\ tick' \in [Ticks -> {NoTick} \cup Tick]
        /\ r.at = "read"
        /\ r.todo = tick[t].todo /\ r.rows = tick[t].rows /\ r.held = tick[t].held
    BY <1>1, <2>1, AtMoves
  <2> QED
    BY <1>1, <1>2, <1>3, <1>4, <2>2
<1>5. CASE tick[t].at = "failed"
  <2>1. tick' = [tick EXCEPT ![t] = Between(tick[t].todo)]
    BY <1>5 DEF SettleLogs, TickAt, RemindersTypeOK
  <2>2. Between(tick[t].todo) \in Tick
    BY <1>1, TickFields, BetweenIn
  <2> QED
    BY <1>1, <1>2, <1>3, <1>5, <2>1, <2>2, DropMoves, BetweenIs
<1> QED
  BY <1>1, <1>4, <1>5

LEMMA ReadMetadataDoes ==
  ASSUME RemindersTypeOK, NEW t \in Ticks, ReadMetadata(t)
  PROVE  \E r \in Tick :
           /\ tick[t] # NoTick /\ tick[t].at = "read"
           /\ Becomes(t, r) /\ tick' \in [Ticks -> {NoTick} \cup Tick]
           /\ r.at = "stamp" /\ r.todo = tick[t].todo /\ r.rows = tick[t].rows
           /\ r.held = tick[t].held
           /\ \A k \in r.held : k.bill \in r.bills
<1>0. TickAt(t, "read")
  BY DEF ReadMetadata
<1>1. tick[t] # NoTick /\ tick[t].at = "read" /\ tick[t] \in Tick
  BY <1>0, TickFields DEF TickAt, NoTick
<1> DEFINE bills == BillsOf(tick[t].held)
           r == [tick[t] EXCEPT !.at = "stamp", !.seen = stamps, !.bills = bills]
<1>2. bills \subseteq Bills /\ \A k \in tick[t].held : k.bill \in bills
  BY <1>1, TickFields DEF BillsOf, Key
<1>3. tick' = [tick EXCEPT ![t] = r]
  BY DEF ReadMetadata, RemindersTypeOK
<1> HIDE DEF bills
<1>4. /\ r \in Tick /\ r.at = "stamp" /\ r.todo = tick[t].todo /\ r.rows = tick[t].rows
      /\ r.held = tick[t].held /\ r.bills = bills
  BY <1>1, <1>2 DEF Tick, RemindersTypeOK
<1> HIDE DEF r
<1> QED
  BY <1>1, <1>2, <1>3, <1>4, Moves

\* A write over metadata that were read before: what it does not repeat is lost.
LEMMA StampWritten ==
  ASSUME RemindersTypeOK, NEW b \in Bills, NEW written \in SUBSET Stages,
         stamps' = [stamps EXCEPT ![b] = written], contested' = LostBy(b, written)
  PROVE  /\ stamps' \in [Bills -> SUBSET Stages] /\ contested' \subseteq Bills
         /\ contested \subseteq contested' /\ stamps'[b] = written
         /\ \A c \in Bills : c \notin contested' => stamps[c] \subseteq stamps'[c]
<1>1. stamps' \in [Bills -> SUBSET Stages] /\ stamps'[b] = written
      /\ \A c \in Bills : c # b => stamps'[c] = stamps[c]
  BY DEF RemindersTypeOK
<1> QED
  BY <1>1 DEF LostBy, RemindersTypeOK

LEMMA StampChargeDoes ==
  ASSUME RemindersTypeOK, NEW t \in Ticks, NEW b \in Bills, StampCharge(t, b)
  PROVE  \E r \in Tick :
           /\ tick[t] # NoTick /\ tick[t].at = "stamp" /\ b \in tick[t].bills
           /\ Becomes(t, r) /\ tick' \in [Ticks -> {NoTick} \cup Tick]
           /\ r.todo = tick[t].todo
           /\ \/ tick[t].bills = {b} /\ r = Between(tick[t].todo)
              \/ /\ r.at = "stamp" /\ r.bills = tick[t].bills \ {b}
                 /\ r.rows = tick[t].rows /\ r.held = tick[t].held
           /\ stamps' \in [Bills -> SUBSET Stages] /\ contested' \subseteq Bills
           /\ contested \subseteq contested'
           /\ \A k \in tick[t].held : k.stage \in stamps'[b]
           /\ \A c \in Bills : c \notin contested' => stamps[c] \subseteq stamps'[c]
<1>0. TickAt(t, "stamp")
  BY DEF StampCharge
<1>1. tick[t] # NoTick /\ tick[t].at = "stamp" /\ tick[t] \in Tick /\ b \in tick[t].bills
  BY <1>0, TickFields DEF TickAt, NoTick, StampCharge
<1> DEFINE written == tick[t].seen[b] \cup {k.stage : k \in tick[t].held}
<1>2. written \in SUBSET Stages /\ \A k \in tick[t].held : k.stage \in written
  BY <1>1, TickFields DEF Key
<1>3. stamps' = [stamps EXCEPT ![b] = written] /\ contested' = LostBy(b, written)
  BY DEF StampCharge
<1>4. /\ tick[t].bills = {b} => tick' = [tick EXCEPT ![t] = Between(tick[t].todo)]
      /\ tick[t].bills # {b} => tick' = [tick EXCEPT ![t].bills = @ \ {b}]
  <2>1. CASE tick[t].bills = {b}
    BY <2>1 DEF StampCharge, RemindersTypeOK
  <2>2. CASE tick[t].bills # {b}
    BY <2>2 DEF StampCharge, RemindersTypeOK
  <2> QED
    BY <2>1, <2>2
<1> HIDE DEF written
<1>5. /\ stamps' \in [Bills -> SUBSET Stages] /\ contested' \subseteq Bills
      /\ contested \subseteq contested' /\ stamps'[b] = written
      /\ \A c \in Bills : c \notin contested' => stamps[c] \subseteq stamps'[c]
  BY <1>2, <1>3, StampWritten
<1>6. CASE tick[t].bills = {b}
  <2>1. Between(tick[t].todo) \in Tick
    BY <1>1, TickFields, BetweenIn
  <2> QED
    BY <1>1, <1>2, <1>4, <1>5, <1>6, <2>1, DropMoves, BetweenIs
<1>7. CASE tick[t].bills # {b}
  <2> DEFINE r == [tick[t] EXCEPT !.bills = tick[t].bills \ {b}]
  <2>1. /\ r \in Tick /\ r.todo = tick[t].todo /\ r.at = "stamp" /\ r.bills = tick[t].bills \ {b}
        /\ r.rows = tick[t].rows /\ r.held = tick[t].held
    BY <1>1 DEF Tick
  <2>2. tick' = [tick EXCEPT ![t] = r]
    BY <1>4, <1>7
  <2> HIDE DEF r
  <2>3. Becomes(t, r) /\ tick' \in [Ticks -> {NoTick} \cup Tick]
    BY <2>1, <2>2, Moves
  <2> QED
    BY <1>1, <1>2, <1>5, <2>1, <2>3
<1> QED
  BY <1>6, <1>7

\* What a tick gives up unstamped is contested from then on.
LEMMA GivesUp ==
  ASSUME RemindersTypeOK, NEW t \in Ticks, tick[t] # NoTick,
         contested' = contested \cup BillsOf(tick[t].held), Mishap
  PROVE  /\ contested' \subseteq Bills /\ contested \subseteq contested'
         /\ \A k \in tick[t].held : k.bill \in contested'
         /\ mishaps' \in 0..MaxMishaps
<1>1. contested' \subseteq Bills /\ \A k \in tick[t].held : k.bill \in contested'
  BY TickFields DEF BillsOf, RemindersTypeOK, Key
<1> QED
  BY <1>1, ReminderConstants DEF Mishap, RemindersTypeOK

LEMMA StampFailsDoes ==
  ASSUME RemindersTypeOK, NEW t \in Ticks, StampFails(t)
  PROVE  /\ tick[t] # NoTick /\ tick[t].at \in {"read", "stamp"}
         /\ Becomes(t, Between(tick[t].todo)) /\ tick' \in [Ticks -> {NoTick} \cup Tick]
         /\ contested' \subseteq Bills /\ contested \subseteq contested'
         /\ \A k \in tick[t].held : k.bill \in contested'
         /\ mishaps' \in 0..MaxMishaps
<1>1. tick[t] # NoTick /\ tick[t].at \in {"read", "stamp"}
  BY DEF StampFails, NoTick
<1>2. tick' = [tick EXCEPT ![t] = Between(tick[t].todo)]
  BY DEF StampFails, RemindersTypeOK
<1>3. Mishap /\ contested' = contested \cup BillsOf(tick[t].held)
  BY DEF StampFails
<1> QED
  BY <1>1, <1>2, <1>3, DropMoves, GivesUp

LEMMA TickEndsDoes ==
  ASSUME RemindersTypeOK, NEW t \in Ticks, TickEnds(t)
  PROVE  /\ tick[t] # NoTick /\ tick[t].at = "next"
         /\ Becomes(t, NoTick) /\ tick' \in [Ticks -> {NoTick} \cup Tick]
<1>0. TickAt(t, "next") /\ tick' = [tick EXCEPT ![t] = NoTick]
  BY DEF TickEnds
<1>1. tick[t] # NoTick /\ tick[t].at = "next"
  BY <1>0 DEF TickAt, NoTick
<1> QED
  BY <1>0, <1>1, Moves

LEMMA TickDiesDoes ==
  ASSUME RemindersTypeOK, NEW t \in Ticks, TickDies(t)
  PROVE  /\ tick[t] # NoTick
         /\ Becomes(t, NoTick) /\ tick' \in [Ticks -> {NoTick} \cup Tick]
         /\ contested' \subseteq Bills /\ contested \subseteq contested'
         /\ \A k \in tick[t].held : k.bill \in contested'
         /\ mishaps' \in 0..MaxMishaps
<1>1. /\ tick[t] # NoTick /\ tick' = [tick EXCEPT ![t] = NoTick]
      /\ Mishap /\ contested' = contested \cup BillsOf(tick[t].held)
  BY DEF TickDies
<1> QED
  BY <1>1, Moves, GivesUp

LEMMA WorkerReadsDoes ==
  ASSUME RemindersTypeOK, WorkerReads
  PROVE  /\ sender = NoSender /\ ~EngineOwns
         /\ sender' \in Sender /\ sender'.at = "next"
         /\ \A b \in sender'.mine : sender'.stage[b] \notin stamps[b]
<1> DEFINE stage == [b \in Bills |-> WorkerStage(Phase(b))]
           mine == {b \in Bills : stage[b] # 0 /\ stage[b] \notin stamps[b]}
           read == [at |-> "next", mine |-> mine, seen |-> stamps, stage |-> stage]
<1>1. sender = NoSender /\ ~EngineOwns /\ sender' = read
  BY DEF WorkerReads, EngineOwns
<1>2. stage \in [Bills -> 0..3]
  BY PhaseIn
<1>3. mine \subseteq Bills /\ \A b \in mine : stage[b] \notin stamps[b]
  OBVIOUS
<1> HIDE DEF mine, stage
<1>4. read \in Sender /\ read.at = "next" /\ read.mine = mine /\ read.stage = stage
  BY <1>2, <1>3 DEF Sender, RemindersTypeOK
<1> QED
  BY <1>1, <1>3, <1>4

LEMMA RemindMemberDoes ==
  ASSUME RemindersTypeOK, NEW delivered \in BOOLEAN, RemindMember(delivered)
  PROVE  /\ sender # NoSender /\ sender.at = "next"
         /\ \/ /\ delivered /\ sender' \in Sender /\ sender'.at = "stamp"
               /\ sender'.mine = sender.mine /\ sender'.stage = sender.stage
            \/ ~delivered /\ sender' = NoSender
         /\ byWorker' \in [Key -> Nat]
         /\ \A k \in Key :
              byWorker'[k] = IF /\ delivered /\ k.bill \in sender.mine /\ k.person = Billed
                                /\ k.stage = sender.stage[k.bill]
                             THEN byWorker[k] + 1 ELSE byWorker[k]
<1>1. sender # NoSender /\ sender.at = "next"
  BY DEF RemindMember, NoSender
<1>2. \/ /\ delivered /\ sender' \in Sender /\ sender'.at = "stamp"
         /\ sender'.mine = sender.mine /\ sender'.stage = sender.stage
      \/ ~delivered /\ sender' = NoSender
  BY <1>1, SenderFields DEF RemindMember, Sender
<1>3. byWorker' = [k \in Key |-> byWorker[k] +
         IF delivered /\ k.bill \in sender.mine /\ k.person = Billed
              /\ k.stage = sender.stage[k.bill] THEN 1 ELSE 0]
  BY DEF RemindMember
<1> QED
  BY <1>1, <1>2, <1>3 DEF RemindersTypeOK

LEMMA StampFromReadDoes ==
  ASSUME RemindersTypeOK, NEW b \in Bills, StampFromRead(b)
  PROVE  /\ sender # NoSender /\ sender.at = "stamp" /\ b \in sender.mine
         /\ \/ sender' = NoSender /\ sender.mine = {b}
            \/ /\ sender' \in Sender /\ sender'.at = "stamp" /\ sender'.mine = sender.mine \ {b}
               /\ sender'.stage = sender.stage
         /\ stamps' \in [Bills -> SUBSET Stages] /\ contested' \subseteq Bills
         /\ contested \subseteq contested'
         /\ \A n \in Stages : n = sender.stage[b] => n \in stamps'[b]
         /\ \A c \in Bills : c \notin contested' => stamps[c] \subseteq stamps'[c]
<1>1. sender # NoSender /\ sender.at = "stamp" /\ b \in sender.mine
  BY DEF StampFromRead, NoSender
<1> DEFINE written == sender.seen[b] \cup 1..sender.stage[b]
<1>2. written \in SUBSET Stages /\ \A n \in Stages : n = sender.stage[b] => n \in written
  BY <1>1, SenderFields DEF Stages
<1>3. stamps' = [stamps EXCEPT ![b] = written] /\ contested' = LostBy(b, written)
  BY DEF StampFromRead
<1> HIDE DEF written
<1>4. /\ stamps' \in [Bills -> SUBSET Stages] /\ contested' \subseteq Bills
      /\ contested \subseteq contested' /\ stamps'[b] = written
      /\ \A c \in Bills : c \notin contested' => stamps[c] \subseteq stamps'[c]
  BY <1>2, <1>3, StampWritten
<1>5. \/ sender' = NoSender /\ sender.mine = {b}
      \/ /\ sender' \in Sender /\ sender'.at = "stamp" /\ sender'.mine = sender.mine \ {b}
         /\ sender'.stage = sender.stage
  BY <1>1, SenderFields DEF StampFromRead, Sender
<1> QED
  BY <1>1, <1>2, <1>4, <1>5

-----------------------------------------------------------------------------
(* Every step keeps the invariant *)

LEMMA LoadKeeps ==
  ASSUME RemindersInv, NEW t \in Ticks, Load(t)
  PROVE  RemindersInv'
<1>0. RemindersTypeOK
  BY DEF RemindersInv
<1>1. PICK todo \in SUBSET Key :
        /\ Becomes(t, Between(todo)) /\ tick' \in [Ticks -> {NoTick} \cup Tick]
        /\ tick[t] = NoTick /\ ruleOn
        /\ \A k \in todo : log[k] = "none" /\ k.person \in accounts /\ k.stage \notin stamps[k.bill]
  BY <1>0, LoadDoes
<1>2. UNCHANGED <<today, ruleOn, accounts, log, stamps, sender, byEngine, byWorker,
                 contested, mishaps>>
  BY DEF Load, world
<1>3. RemindersTypeOK'
  BY <1>0, <1>1, <1>2 DEF RemindersTypeOK
<1>4. \A u \in Ticks : \A k : k \in KeysOf(u)' => k \in KeysOf(u) \/ (k \in todo /\ u = t)
  BY <1>0, <1>1, <1>3, KeysAre, KeysAreAfter, BetweenIs DEF Becomes
<1>5. HandsInv'
  BY <1>0, <1>1, <1>2, BetweenIs DEF RemindersInv, HandsInv, Becomes
<1>6. ClaimInv'
  BY <1>0, <1>1, <1>2, BetweenIs
     DEF RemindersInv, ClaimInv, LogInv, HandsInv, Sending, Becomes, NoTick
<1>7. LogInv'
  BY <1>0, <1>1, <1>2 DEF RemindersInv, LogInv, ClaimInv, Sending
<1>8. OwnerInv'
  <2>1. \A k \in todo : Mine(k) => EngineOwns /\ byWorker[k] = 0
    <3> SUFFICES ASSUME NEW k \in todo, Mine(k)
                 PROVE  EngineOwns /\ byWorker[k] = 0
      OBVIOUS
    <3>1. EngineOwns
      BY <1>1 DEF Mine, EngineOwns
    <3>2. ~WorkerOwesStamp(k)
      BY <3>1 DEF RemindersInv, OwnerInv, WorkerOwesStamp, Mine, NoSender
    <3>3. byWorker[k] \in Nat
      BY <1>0 DEF RemindersTypeOK
    <3> QED
      BY <1>1, <3>1, <3>2, <3>3 DEF RemindersInv, StampInv
  <2> QED
    BY <1>0, <1>1, <1>2, <1>4, <2>1 DEF RemindersInv, OwnerInv, Mine, EngineOwns
<1>9. StampInv'
  BY <1>0, <1>1, <1>2, BetweenIs
     DEF RemindersInv, StampInv, TickOwesStamp, WorkerOwesStamp, Mine, Becomes, NoTick
<1>10. UnsentInv'
  BY <1>0, <1>1, <1>2 DEF RemindersInv, UnsentInv, Mine
<1>11. StrangerInv'
  BY <1>0, <1>1, <1>2 DEF RemindersInv, StrangerInv
<1> QED
  BY <1>3, <1>5, <1>6, <1>7, <1>8, <1>9, <1>10, <1>11 DEF RemindersInv

LEMMA ClaimGroupKeeps ==
  ASSUME RemindersInv, NEW t \in Ticks, NEW stage \in Stages, NEW person \in People,
         ClaimGroup(t, stage, person)
  PROVE  RemindersInv'
<1>0. RemindersTypeOK
  BY DEF RemindersInv
<1>1. PICK group \in SUBSET Key, r \in Tick :
        /\ tick[t] # NoTick /\ tick[t].at = "next" /\ group \subseteq tick[t].todo
        /\ Becomes(t, r) /\ tick' \in [Ticks -> {NoTick} \cup Tick]
        /\ r.todo = tick[t].todo \ group
        /\ \/ log' = log /\ r.at = "rows" /\ r.rows = group /\ r.held = {}
           \/ /\ \A k \in group : log[k] = "none"
              /\ \A k \in Key : log'[k] = IF k \in group THEN "claimed" ELSE log[k]
              /\ log' \in [Key -> {"none", "claimed", "sent", "failed"}]
              /\ r.at = "send" /\ r.rows = {} /\ r.held = group
  BY <1>0, ClaimGroupDoes
<1>2. UNCHANGED <<today, ruleOn, accounts, stamps, sender, byEngine, byWorker, contested,
                 mishaps>>
  BY DEF ClaimGroup, world
<1>3. RemindersTypeOK'
  BY <1>0, <1>1, <1>2 DEF RemindersTypeOK
<1>4. \A u \in Ticks : \A k : k \in KeysOf(u)' => k \in KeysOf(u)
  BY <1>0, <1>1, <1>3, KeysAre, KeysAreAfter, BetweenIs DEF Becomes
<1>5. HandsInv'
  BY <1>0, <1>1, <1>2, BetweenIs DEF RemindersInv, HandsInv, Becomes
<1>6. ClaimInv'
  <2>1. \A u \in Ticks, j \in Key : tick'[u] # NoTick /\ j \in tick'[u].held => log'[j] # "none"
    BY <1>0, <1>1, <1>2 DEF RemindersInv, ClaimInv, HandsInv, Becomes, RemindersTypeOK
  <2>2. \A u \in Ticks, j \in Key : Sending(u, j)' =>
          Sending(u, j) \/ (u = t /\ log[j] = "none")
    BY <1>0, <1>1, <1>2 DEF RemindersInv, HandsInv, Sending, Becomes
  <2>3. \A u \in Ticks, j \in Key : Sending(u, j) => log[j] # "none" /\ byEngine[j] = 0
    BY Placed, <1>0 DEF RemindersInv, ClaimInv, Sending, NoTick
  <2>4. \A j \in Key : log[j] = "none" => byEngine[j] = 0
    BY <1>0 DEF RemindersInv, LogInv, RemindersTypeOK
  <2>5. \A u, w \in Ticks, j \in Key : Sending(u, j)' /\ Sending(w, j)' => u = w
    BY <2>2, <2>3 DEF RemindersInv, ClaimInv
  <2> QED
    BY <1>2, <2>1, <2>2, <2>3, <2>4, <2>5 DEF ClaimInv
<1>7. LogInv'
  BY <1>0, <1>1, <1>2 DEF RemindersInv, LogInv, ClaimInv, Sending
<1>8. OwnerInv'
  BY <1>0, <1>1, <1>2, <1>4 DEF RemindersInv, OwnerInv, Mine, EngineOwns
<1>9. StampInv'
  BY <1>0, <1>1, <1>2, BetweenIs
     DEF RemindersInv, StampInv, TickOwesStamp, WorkerOwesStamp, Mine, Becomes, NoTick
<1>10. UnsentInv'
  BY <1>0, <1>1, <1>2 DEF RemindersInv, UnsentInv, Mine
<1>11. StrangerInv'
  BY <1>0, <1>1, <1>2 DEF RemindersInv, StrangerInv
<1> QED
  BY <1>3, <1>5, <1>6, <1>7, <1>8, <1>9, <1>10, <1>11 DEF RemindersInv

LEMMA ClaimRowKeeps ==
  ASSUME RemindersInv, NEW t \in Ticks, NEW k \in Key, ClaimRow(t, k)
  PROVE  RemindersInv'
<1>0. RemindersTypeOK
  BY DEF RemindersInv
<1>1. PICK r \in Tick :
        /\ tick[t] # NoTick /\ tick[t].at = "rows" /\ k \in tick[t].rows
        /\ Becomes(t, r) /\ tick' \in [Ticks -> {NoTick} \cup Tick]
        /\ r.todo = tick[t].todo /\ r.rows = tick[t].rows \ {k}
        /\ r.at \in {"rows", "next", "send"}
        /\ r.at # "rows" => r.rows = {}
        /\ r.at = "next" => r.held = {}
        /\ \/ log[k] # "none" /\ log' = log /\ r.held = tick[t].held
           \/ /\ log[k] = "none" /\ log' = [log EXCEPT ![k] = "claimed"]
              /\ r.held = tick[t].held \cup {k}
  BY <1>0, ClaimRowDoes
<1>2. UNCHANGED <<today, ruleOn, accounts, stamps, sender, byEngine, byWorker, contested,
                 mishaps>>
  BY DEF ClaimRow, world
<1>3. RemindersTypeOK'
  BY <1>0, <1>1, <1>2 DEF RemindersTypeOK
<1>4. \A u \in Ticks : \A j : j \in KeysOf(u)' => j \in KeysOf(u)
  BY <1>0, <1>1, <1>3, KeysAre, KeysAreAfter, BetweenIs DEF Becomes
<1>5. HandsInv'
  BY <1>0, <1>1, <1>2, BetweenIs DEF RemindersInv, HandsInv, Becomes
<1>6. ClaimInv'
  <2>1. \A u \in Ticks, j \in Key : tick'[u] # NoTick /\ j \in tick'[u].held => log'[j] # "none"
    BY <1>0, <1>1, <1>2 DEF RemindersInv, ClaimInv, HandsInv, Becomes, RemindersTypeOK
  <2>2. \A u \in Ticks, j \in Key : Sending(u, j)' =>
          Sending(u, j) \/ (u = t /\ log[j] = "none")
    BY <1>0, <1>1, <1>2 DEF RemindersInv, HandsInv, Sending, Becomes
  <2>3. \A u \in Ticks, j \in Key : Sending(u, j) => log[j] # "none" /\ byEngine[j] = 0
    BY Placed, <1>0 DEF RemindersInv, ClaimInv, Sending, NoTick
  <2>4. \A j \in Key : log[j] = "none" => byEngine[j] = 0
    BY <1>0 DEF RemindersInv, LogInv, RemindersTypeOK
  <2>5. \A u, w \in Ticks, j \in Key : Sending(u, j)' /\ Sending(w, j)' => u = w
    BY <2>2, <2>3 DEF RemindersInv, ClaimInv
  <2> QED
    BY <1>2, <2>1, <2>2, <2>3, <2>4, <2>5 DEF ClaimInv
<1>7. LogInv'
  BY <1>0, <1>1, <1>2 DEF RemindersInv, LogInv, RemindersTypeOK
<1>8. OwnerInv'
  BY <1>0, <1>1, <1>2, <1>4 DEF RemindersInv, OwnerInv, Mine, EngineOwns
<1>9. StampInv'
  BY <1>0, <1>1, <1>2, BetweenIs
     DEF RemindersInv, StampInv, TickOwesStamp, WorkerOwesStamp, Mine, Becomes, NoTick
<1>10. UnsentInv'
  BY <1>0, <1>1, <1>2 DEF RemindersInv, UnsentInv, Mine
<1>11. StrangerInv'
  BY <1>0, <1>1, <1>2 DEF RemindersInv, StrangerInv
<1> QED
  BY <1>3, <1>5, <1>6, <1>7, <1>8, <1>9, <1>10, <1>11 DEF RemindersInv

LEMMA SendGroupKeeps ==
  ASSUME RemindersInv, NEW t \in Ticks, NEW delivered \in BOOLEAN, NEW throws \in BOOLEAN,
         SendGroup(t, delivered, throws)
  PROVE  RemindersInv'
<1>0. RemindersTypeOK
  BY DEF RemindersInv
<1>1. PICK r \in Tick :
        /\ tick[t] # NoTick /\ tick[t].at = "send"
        /\ Becomes(t, r) /\ tick' \in [Ticks -> {NoTick} \cup Tick]
        /\ r.todo = tick[t].todo /\ r.rows = tick[t].rows /\ r.held = tick[t].held
        /\ r.at = IF throws THEN "failed" ELSE "settle"
        /\ byEngine' \in [Key -> Nat]
        /\ \A k \in Key :
             byEngine'[k] = IF delivered /\ k \in tick[t].held THEN byEngine[k] + 1 ELSE byEngine[k]
        /\ contested \subseteq contested' /\ contested' \subseteq Bills
        /\ delivered /\ throws => \A k \in tick[t].held : k.bill \in contested'
        /\ mishaps' \in 0..MaxMishaps
  BY <1>0, SendGroupDoes
<1>2. UNCHANGED <<today, ruleOn, accounts, log, stamps, sender, byWorker>>
  BY DEF SendGroup, world
<1>3. RemindersTypeOK'
  BY <1>0, <1>1, <1>2 DEF RemindersTypeOK
<1>4. \A u \in Ticks : \A k : k \in KeysOf(u)' => k \in KeysOf(u)
  BY <1>0, <1>1, <1>3, KeysAre, KeysAreAfter, BetweenIs DEF Becomes
<1>5. HandsInv'
  BY <1>0, <1>1, <1>2, BetweenIs DEF RemindersInv, HandsInv, Becomes
<1>6. ClaimInv'
  BY <1>0, <1>1, <1>2, BetweenIs
     DEF RemindersInv, ClaimInv, LogInv, HandsInv, Sending, Becomes, NoTick
<1>7. LogInv'
  BY <1>0, <1>1, <1>2 DEF RemindersInv, LogInv, ClaimInv, Sending
<1>8. OwnerInv'
  BY <1>0, <1>1, <1>2, <1>4 DEF RemindersInv, OwnerInv, Mine, EngineOwns
<1>9. StampInv'
  <2>0. \A k \in tick[t].held : k \in KeysOf(t) /\ k \in Key
    BY <1>0, <1>1, TickFields DEF KeysOf
  <2>1. \A k \in tick[t].held : Mine(k)' => byWorker[k] = 0
    BY <1>1, <2>0 DEF RemindersInv, OwnerInv, Mine
  <2>2. \A u \in Ticks, k \in Key : TickOwesStamp(u, k) => TickOwesStamp(u, k)'
    BY <1>1 DEF TickOwesStamp, Becomes
  <2>3. \A k \in tick[t].held : ~throws => TickOwesStamp(t, k)'
    BY <1>1, <1>3 DEF TickOwesStamp, Becomes, NoTick
  <2>4. \A k \in Key : WorkerOwesStamp(k)' = WorkerOwesStamp(k)
    BY <1>2 DEF WorkerOwesStamp
  <2>5. \A k \in tick[t].held : delivered /\ Mine(k)' => ~throws
    BY <1>1 DEF Mine
  <2>6. \A k \in Key : byEngine'[k] # byEngine[k] => delivered /\ k \in tick[t].held
    BY <1>1
  <2>7. \A k \in Key : Mine(k)' => Mine(k)
    BY <1>1 DEF Mine
  <2> SUFFICES ASSUME NEW k \in Key, Mine(k)'
               PROVE  /\ byEngine'[k] > 0 =>
                           byWorker[k] = 0
                           /\ (k.stage \in stamps[k.bill] \/ \E u \in Ticks : TickOwesStamp(u, k)')
                      /\ byWorker[k] > 0 =>
                           byWorker[k] = 1 /\ (k.stage \in stamps[k.bill] \/ WorkerOwesStamp(k)')
    BY <1>2 DEF StampInv
  <2>8. CASE delivered /\ k \in tick[t].held
    BY <2>1, <2>3, <2>5, <2>8
  <2>9. CASE ~(delivered /\ k \in tick[t].held)
    BY <2>2, <2>4, <2>6, <2>7, <2>9 DEF RemindersInv, StampInv
  <2> QED
    BY <2>8, <2>9
<1>10. UnsentInv'
  <2>1. \A k \in tick[t].held : k \in KeysOf(t)
    BY <1>1 DEF KeysOf
  <2>2. \A k \in Key : Mine(k) /\ k \in tick[t].held /\ sender # NoSender => k.bill \notin sender.mine
    BY <2>1 DEF RemindersInv, OwnerInv, Mine
  <2> QED
    BY <1>1, <1>2, <2>2 DEF RemindersInv, UnsentInv, Mine, NoSender
<1>11. StrangerInv'
  BY <1>0, <1>1, <1>2 DEF RemindersInv, StrangerInv
<1> QED
  BY <1>3, <1>5, <1>6, <1>7, <1>8, <1>9, <1>10, <1>11 DEF RemindersInv

LEMMA SettleLogsKeeps ==
  ASSUME RemindersInv, NEW t \in Ticks, NEW ok \in BOOLEAN, SettleLogs(t, ok)
  PROVE  RemindersInv'
<1>0. RemindersTypeOK
  BY DEF RemindersInv
<1>1. PICK r \in Tick :
        /\ tick[t] # NoTick /\ tick[t].at \in {"settle", "failed"}
        /\ Becomes(t, r) /\ tick' \in [Ticks -> {NoTick} \cup Tick]
        /\ r.todo = tick[t].todo
        /\ \/ /\ tick[t].at = "settle" /\ r.at = "read"
              /\ r.rows = tick[t].rows /\ r.held = tick[t].held
           \/ tick[t].at = "failed" /\ r = Between(tick[t].todo)
        /\ log' \in [Key -> {"none", "claimed", "sent", "failed"}]
        /\ \A k \in Key : log'[k] # log[k] => k \in tick[t].held /\ log'[k] # "none"
        /\ mishaps' \in 0..MaxMishaps
  BY <1>0, SettleLogsDoes
<1>2. UNCHANGED <<today, ruleOn, accounts, stamps, sender, byEngine, byWorker, contested>>
  BY DEF SettleLogs, world
<1>3. RemindersTypeOK'
  BY <1>0, <1>1, <1>2 DEF RemindersTypeOK
<1>4. \A u \in Ticks : \A k : k \in KeysOf(u)' => k \in KeysOf(u)
  BY <1>0, <1>1, <1>3, KeysAre, KeysAreAfter, BetweenIs DEF Becomes
<1>5. HandsInv'
  BY <1>0, <1>1, <1>2, BetweenIs DEF RemindersInv, HandsInv, Becomes
<1>6. ClaimInv'
  BY <1>0, <1>1, <1>2, BetweenIs
     DEF RemindersInv, ClaimInv, LogInv, HandsInv, Sending, Becomes, NoTick
<1>7. LogInv'
  BY <1>0, <1>1, <1>2 DEF RemindersInv, LogInv, ClaimInv, Sending
<1>8. OwnerInv'
  BY <1>0, <1>1, <1>2, <1>4 DEF RemindersInv, OwnerInv, Mine, EngineOwns
<1>9. StampInv'
  BY <1>0, <1>1, <1>2, BetweenIs
     DEF RemindersInv, StampInv, TickOwesStamp, WorkerOwesStamp, Mine, Becomes, NoTick
<1>10. UnsentInv'
  BY <1>0, <1>1, <1>2 DEF RemindersInv, UnsentInv, Mine
<1>11. StrangerInv'
  BY <1>0, <1>1, <1>2 DEF RemindersInv, StrangerInv
<1> QED
  BY <1>3, <1>5, <1>6, <1>7, <1>8, <1>9, <1>10, <1>11 DEF RemindersInv

LEMMA ReadMetadataKeeps ==
  ASSUME RemindersInv, NEW t \in Ticks, ReadMetadata(t)
  PROVE  RemindersInv'
<1>0. RemindersTypeOK
  BY DEF RemindersInv
<1>1. PICK r \in Tick :
        /\ tick[t] # NoTick /\ tick[t].at = "read"
        /\ Becomes(t, r) /\ tick' \in [Ticks -> {NoTick} \cup Tick]
        /\ r.at = "stamp" /\ r.todo = tick[t].todo /\ r.rows = tick[t].rows
        /\ r.held = tick[t].held
        /\ \A k \in r.held : k.bill \in r.bills
  BY <1>0, ReadMetadataDoes
<1>2. UNCHANGED <<today, ruleOn, accounts, log, stamps, sender, byEngine, byWorker,
                 contested, mishaps>>
  BY DEF ReadMetadata, world
<1>3. RemindersTypeOK'
  BY <1>0, <1>1, <1>2 DEF RemindersTypeOK
<1>4. \A u \in Ticks : \A k : k \in KeysOf(u)' => k \in KeysOf(u)
  BY <1>0, <1>1, <1>3, KeysAre, KeysAreAfter, BetweenIs DEF Becomes
<1>5. HandsInv'
  BY <1>0, <1>1, <1>2, BetweenIs DEF RemindersInv, HandsInv, Becomes
<1>6. ClaimInv'
  BY <1>0, <1>1, <1>2, BetweenIs
     DEF RemindersInv, ClaimInv, LogInv, HandsInv, Sending, Becomes, NoTick
<1>7. LogInv'
  BY <1>0, <1>1, <1>2 DEF RemindersInv, LogInv, ClaimInv, Sending
<1>8. OwnerInv'
  BY <1>0, <1>1, <1>2, <1>4 DEF RemindersInv, OwnerInv, Mine, EngineOwns
<1>9. StampInv'
  BY <1>0, <1>1, <1>2, BetweenIs
     DEF RemindersInv, StampInv, TickOwesStamp, WorkerOwesStamp, Mine, Becomes, NoTick
<1>10. UnsentInv'
  BY <1>0, <1>1, <1>2 DEF RemindersInv, UnsentInv, Mine
<1>11. StrangerInv'
  BY <1>0, <1>1, <1>2 DEF RemindersInv, StrangerInv
<1> QED
  BY <1>3, <1>5, <1>6, <1>7, <1>8, <1>9, <1>10, <1>11 DEF RemindersInv

LEMMA StampChargeKeeps ==
  ASSUME RemindersInv, NEW t \in Ticks, NEW b \in Bills, StampCharge(t, b)
  PROVE  RemindersInv'
<1>0. RemindersTypeOK
  BY DEF RemindersInv
<1>1. PICK r \in Tick :
        /\ tick[t] # NoTick /\ tick[t].at = "stamp" /\ b \in tick[t].bills
        /\ Becomes(t, r) /\ tick' \in [Ticks -> {NoTick} \cup Tick]
        /\ r.todo = tick[t].todo
        /\ \/ tick[t].bills = {b} /\ r = Between(tick[t].todo)
           \/ /\ r.at = "stamp" /\ r.bills = tick[t].bills \ {b}
              /\ r.rows = tick[t].rows /\ r.held = tick[t].held
        /\ stamps' \in [Bills -> SUBSET Stages] /\ contested' \subseteq Bills
        /\ contested \subseteq contested'
        /\ \A k \in tick[t].held : k.stage \in stamps'[b]
        /\ \A c \in Bills : c \notin contested' => stamps[c] \subseteq stamps'[c]
  BY <1>0, StampChargeDoes
<1>2. UNCHANGED <<today, ruleOn, accounts, log, sender, byEngine, byWorker, mishaps>>
  BY DEF StampCharge, world
<1>3. RemindersTypeOK'
  BY <1>0, <1>1, <1>2 DEF RemindersTypeOK
<1>4. \A u \in Ticks : \A k : k \in KeysOf(u)' => k \in KeysOf(u)
  BY <1>0, <1>1, <1>3, KeysAre, KeysAreAfter, BetweenIs DEF Becomes
<1>5. HandsInv'
  BY <1>0, <1>1, <1>2, BetweenIs DEF RemindersInv, HandsInv, Becomes
<1>6. ClaimInv'
  BY <1>0, <1>1, <1>2, BetweenIs
     DEF RemindersInv, ClaimInv, LogInv, HandsInv, Sending, Becomes, NoTick
<1>7. LogInv'
  BY <1>0, <1>1, <1>2 DEF RemindersInv, LogInv, ClaimInv, Sending
<1>8. OwnerInv'
  BY <1>0, <1>1, <1>2, <1>4 DEF RemindersInv, OwnerInv, Mine, EngineOwns
<1>9. StampInv'
  <2>1. \A u \in Ticks, k \in Key : TickOwesStamp(u, k) =>
          TickOwesStamp(u, k)' \/ k.stage \in stamps'[k.bill]
    BY <1>1, <1>3 DEF TickOwesStamp, Becomes, NoTick
  <2>2. \A k \in Key : WorkerOwesStamp(k)' = WorkerOwesStamp(k)
    BY <1>2 DEF WorkerOwesStamp
  <2>3. \A k \in Key : Mine(k)' => Mine(k) /\ stamps[k.bill] \subseteq stamps'[k.bill]
    BY <1>1 DEF Mine, Key
  <2> QED
    BY <1>2, <2>1, <2>2, <2>3 DEF RemindersInv, StampInv
<1>10. UnsentInv'
  BY <1>0, <1>1, <1>2 DEF RemindersInv, UnsentInv, Mine
<1>11. StrangerInv'
  BY <1>0, <1>1, <1>2 DEF RemindersInv, StrangerInv
<1> QED
  BY <1>3, <1>5, <1>6, <1>7, <1>8, <1>9, <1>10, <1>11 DEF RemindersInv

LEMMA StampFailsKeeps ==
  ASSUME RemindersInv, NEW t \in Ticks, StampFails(t)
  PROVE  RemindersInv'
<1>0. RemindersTypeOK
  BY DEF RemindersInv
<1>1. /\ tick[t] # NoTick /\ tick[t].at \in {"read", "stamp"}
      /\ Becomes(t, Between(tick[t].todo)) /\ tick' \in [Ticks -> {NoTick} \cup Tick]
      /\ contested' \subseteq Bills /\ contested \subseteq contested'
      /\ \A k \in tick[t].held : k.bill \in contested'
      /\ mishaps' \in 0..MaxMishaps
  BY <1>0, StampFailsDoes
<1>2. UNCHANGED <<today, ruleOn, accounts, log, stamps, sender, byEngine, byWorker>>
  BY DEF StampFails, world
<1>3. RemindersTypeOK'
  BY <1>0, <1>1, <1>2 DEF RemindersTypeOK
<1>4. \A u \in Ticks : \A k : k \in KeysOf(u)' => k \in KeysOf(u)
  BY <1>0, <1>1, <1>3, KeysAre, KeysAreAfter, BetweenIs DEF Becomes
<1>5. HandsInv'
  BY <1>0, <1>1, <1>2, BetweenIs DEF RemindersInv, HandsInv, Becomes
<1>6. ClaimInv'
  BY <1>0, <1>1, <1>2, BetweenIs
     DEF RemindersInv, ClaimInv, LogInv, HandsInv, Sending, Becomes, NoTick
<1>7. LogInv'
  BY <1>0, <1>1, <1>2 DEF RemindersInv, LogInv, ClaimInv, Sending
<1>8. OwnerInv'
  BY <1>0, <1>1, <1>2, <1>4 DEF RemindersInv, OwnerInv, Mine, EngineOwns
<1>9. StampInv'
  BY <1>0, <1>1, <1>2, BetweenIs
     DEF RemindersInv, StampInv, TickOwesStamp, WorkerOwesStamp, Mine, Becomes, NoTick
<1>10. UnsentInv'
  BY <1>0, <1>1, <1>2 DEF RemindersInv, UnsentInv, Mine
<1>11. StrangerInv'
  BY <1>0, <1>1, <1>2 DEF RemindersInv, StrangerInv
<1> QED
  BY <1>3, <1>5, <1>6, <1>7, <1>8, <1>9, <1>10, <1>11 DEF RemindersInv

LEMMA TickEndsKeeps ==
  ASSUME RemindersInv, NEW t \in Ticks, TickEnds(t)
  PROVE  RemindersInv'
<1>0. RemindersTypeOK
  BY DEF RemindersInv
<1>1. /\ tick[t] # NoTick /\ tick[t].at = "next"
      /\ Becomes(t, NoTick) /\ tick' \in [Ticks -> {NoTick} \cup Tick]
  BY <1>0, TickEndsDoes
<1>2. UNCHANGED <<today, ruleOn, accounts, log, stamps, sender, byEngine, byWorker,
                 contested, mishaps>>
  BY DEF TickEnds, world
<1>3. RemindersTypeOK'
  BY <1>0, <1>1, <1>2 DEF RemindersTypeOK
<1>4. \A u \in Ticks : \A k : k \in KeysOf(u)' => k \in KeysOf(u)
  BY <1>0, <1>1, <1>3, KeysAre, KeysAreAfter, BetweenIs DEF Becomes
<1>5. HandsInv'
  BY <1>0, <1>1, <1>2, BetweenIs DEF RemindersInv, HandsInv, Becomes
<1>6. ClaimInv'
  BY <1>0, <1>1, <1>2, BetweenIs
     DEF RemindersInv, ClaimInv, LogInv, HandsInv, Sending, Becomes, NoTick
<1>7. LogInv'
  BY <1>0, <1>1, <1>2 DEF RemindersInv, LogInv, ClaimInv, Sending
<1>8. OwnerInv'
  BY <1>0, <1>1, <1>2, <1>4 DEF RemindersInv, OwnerInv, Mine, EngineOwns
<1>9. StampInv'
  BY <1>0, <1>1, <1>2, BetweenIs
     DEF RemindersInv, StampInv, TickOwesStamp, WorkerOwesStamp, Mine, Becomes, NoTick
<1>10. UnsentInv'
  BY <1>0, <1>1, <1>2 DEF RemindersInv, UnsentInv, Mine
<1>11. StrangerInv'
  BY <1>0, <1>1, <1>2 DEF RemindersInv, StrangerInv
<1> QED
  BY <1>3, <1>5, <1>6, <1>7, <1>8, <1>9, <1>10, <1>11 DEF RemindersInv

LEMMA TickDiesKeeps ==
  ASSUME RemindersInv, NEW t \in Ticks, TickDies(t)
  PROVE  RemindersInv'
<1>0. RemindersTypeOK
  BY DEF RemindersInv
<1>1. /\ tick[t] # NoTick
      /\ Becomes(t, NoTick) /\ tick' \in [Ticks -> {NoTick} \cup Tick]
      /\ contested' \subseteq Bills /\ contested \subseteq contested'
      /\ \A k \in tick[t].held : k.bill \in contested'
      /\ mishaps' \in 0..MaxMishaps
  BY <1>0, TickDiesDoes
<1>2. UNCHANGED <<today, ruleOn, accounts, log, stamps, sender, byEngine, byWorker>>
  BY DEF TickDies, world
<1>3. RemindersTypeOK'
  BY <1>0, <1>1, <1>2 DEF RemindersTypeOK
<1>4. \A u \in Ticks : \A k : k \in KeysOf(u)' => k \in KeysOf(u)
  BY <1>0, <1>1, <1>3, KeysAre, KeysAreAfter, BetweenIs DEF Becomes
<1>5. HandsInv'
  BY <1>0, <1>1, <1>2, BetweenIs DEF RemindersInv, HandsInv, Becomes
<1>6. ClaimInv'
  BY <1>0, <1>1, <1>2, BetweenIs
     DEF RemindersInv, ClaimInv, LogInv, HandsInv, Sending, Becomes, NoTick
<1>7. LogInv'
  BY <1>0, <1>1, <1>2 DEF RemindersInv, LogInv, ClaimInv, Sending
<1>8. OwnerInv'
  BY <1>0, <1>1, <1>2, <1>4 DEF RemindersInv, OwnerInv, Mine, EngineOwns
<1>9. StampInv'
  BY <1>0, <1>1, <1>2, BetweenIs
     DEF RemindersInv, StampInv, TickOwesStamp, WorkerOwesStamp, Mine, Becomes, NoTick
<1>10. UnsentInv'
  BY <1>0, <1>1, <1>2 DEF RemindersInv, UnsentInv, Mine
<1>11. StrangerInv'
  BY <1>0, <1>1, <1>2 DEF RemindersInv, StrangerInv
<1> QED
  BY <1>3, <1>5, <1>6, <1>7, <1>8, <1>9, <1>10, <1>11 DEF RemindersInv

LEMMA WorkerReadsKeeps ==
  ASSUME RemindersInv, WorkerReads
  PROVE  RemindersInv'
<1>0. RemindersTypeOK
  BY DEF RemindersInv
<1>1. /\ sender = NoSender /\ ~EngineOwns
      /\ sender' \in Sender /\ sender'.at = "next"
      /\ \A b \in sender'.mine : sender'.stage[b] \notin stamps[b]
  BY <1>0, WorkerReadsDoes
<1>2. UNCHANGED <<today, ruleOn, accounts, log, stamps, tick, byEngine, byWorker,
                 contested, mishaps>>
  BY DEF WorkerReads, world
<1>3. RemindersTypeOK'
  BY <1>0, <1>1, <1>2 DEF RemindersTypeOK
<1>4. \A u \in Ticks : \A k : k \in KeysOf(u)' => k \in KeysOf(u)
  BY <1>2 DEF KeysOf
<1>5. HandsInv'
  BY <1>0, <1>1, <1>2, BetweenIs DEF RemindersInv, HandsInv, Becomes
<1>6. ClaimInv'
  BY <1>0, <1>1, <1>2, BetweenIs
     DEF RemindersInv, ClaimInv, LogInv, HandsInv, Sending, Becomes, NoTick
<1>7. LogInv'
  BY <1>0, <1>1, <1>2 DEF RemindersInv, LogInv, ClaimInv, Sending
<1>8. OwnerInv'
  BY <1>0, <1>1, <1>2, <1>4 DEF RemindersInv, OwnerInv, Mine, EngineOwns
<1>9. StampInv'
  <2>1. \A u \in Ticks, k \in Key : TickOwesStamp(u, k)' = TickOwesStamp(u, k)
    BY <1>2 DEF TickOwesStamp
  <2>2. \A k \in Key : WorkerOwesStamp(k) => FALSE
    BY <1>1 DEF WorkerOwesStamp, NoSender
  <2> QED
    BY <1>0, <1>1, <1>2, <2>1, <2>2 DEF RemindersInv, StampInv, Mine
<1>10. UnsentInv'
  <2> SUFFICES ASSUME NEW k \in Key, Mine(k), k.bill \in sender'.mine,
                      sender'.stage[k.bill] = k.stage
               PROVE  byEngine[k] = 0 /\ byWorker[k] = 0
    BY <1>2 DEF UnsentInv, Mine
  <2>1. k.stage \notin stamps[k.bill]
    BY <1>1
  <2>2. ~WorkerOwesStamp(k)
    BY <1>1 DEF WorkerOwesStamp, NoSender
  <2>3. \A u \in Ticks : ~TickOwesStamp(u, k)
    <3>1. \A u \in Ticks : TickOwesStamp(u, k) => k \in KeysOf(u)
      BY DEF TickOwesStamp, KeysOf
    <3> QED
      BY <1>1, <3>1 DEF RemindersInv, OwnerInv
  <2>4. byEngine[k] \in Nat /\ byWorker[k] \in Nat
    BY <1>0 DEF RemindersTypeOK
  <2> QED
    BY <2>1, <2>2, <2>3, <2>4 DEF RemindersInv, StampInv
<1>11. StrangerInv'
  BY <1>0, <1>1, <1>2 DEF RemindersInv, StrangerInv
<1> QED
  BY <1>3, <1>5, <1>6, <1>7, <1>8, <1>9, <1>10, <1>11 DEF RemindersInv

LEMMA RemindMemberKeeps ==
  ASSUME RemindersInv, NEW delivered \in BOOLEAN, RemindMember(delivered)
  PROVE  RemindersInv'
<1>0. RemindersTypeOK
  BY DEF RemindersInv
<1>1. /\ sender # NoSender /\ sender.at = "next"
      /\ \/ /\ delivered /\ sender' \in Sender /\ sender'.at = "stamp"
            /\ sender'.mine = sender.mine /\ sender'.stage = sender.stage
         \/ ~delivered /\ sender' = NoSender
      /\ byWorker' \in [Key -> Nat]
      /\ \A k \in Key :
           byWorker'[k] = IF /\ delivered /\ k.bill \in sender.mine /\ k.person = Billed
                             /\ k.stage = sender.stage[k.bill]
                          THEN byWorker[k] + 1 ELSE byWorker[k]
  BY <1>0, RemindMemberDoes
<1>2. UNCHANGED <<today, ruleOn, accounts, log, stamps, tick, byEngine, contested, mishaps>>
  BY DEF RemindMember, world
<1>3. RemindersTypeOK'
  BY <1>0, <1>1, <1>2 DEF RemindersTypeOK
<1>4. \A u \in Ticks : \A k : k \in KeysOf(u)' => k \in KeysOf(u)
  BY <1>2 DEF KeysOf
<1>5. HandsInv'
  BY <1>0, <1>1, <1>2, BetweenIs DEF RemindersInv, HandsInv, Becomes
<1>6. ClaimInv'
  BY <1>0, <1>1, <1>2, BetweenIs
     DEF RemindersInv, ClaimInv, LogInv, HandsInv, Sending, Becomes, NoTick
<1>7. LogInv'
  BY <1>0, <1>1, <1>2 DEF RemindersInv, LogInv, ClaimInv, Sending
<1>8. OwnerInv'
  BY <1>0, <1>1, <1>2, <1>4 DEF RemindersInv, OwnerInv, Mine, EngineOwns
<1>9. StampInv'
  <2>1. \A u \in Ticks, k \in Key : TickOwesStamp(u, k)' = TickOwesStamp(u, k)
    BY <1>2 DEF TickOwesStamp
  <2> DEFINE sent(k) == /\ delivered /\ k.bill \in sender.mine /\ k.person = Billed
                        /\ k.stage = sender.stage[k.bill]
  <2>2. \A k \in Key : Mine(k) /\ sent(k) =>
          byWorker'[k] = 1 /\ byEngine[k] = 0 /\ WorkerOwesStamp(k)'
    BY <1>1 DEF RemindersInv, UnsentInv, WorkerOwesStamp
  <2>3. \A k \in Key : ~sent(k) => byWorker'[k] = byWorker[k]
    BY <1>1
  <2>4. \A k \in Key : ~WorkerOwesStamp(k)
    BY <1>1 DEF WorkerOwesStamp
  <2>5. \A k \in Key : byEngine[k] \in Nat /\ byWorker[k] \in Nat
    BY <1>0 DEF RemindersTypeOK
  <2> HIDE DEF sent
  <2> SUFFICES ASSUME NEW k \in Key, Mine(k)
               PROVE  /\ byEngine[k] > 0 =>
                           byWorker'[k] = 0
                           /\ (k.stage \in stamps[k.bill] \/ \E u \in Ticks : TickOwesStamp(u, k)')
                      /\ byWorker'[k] > 0 =>
                           byWorker'[k] = 1 /\ (k.stage \in stamps[k.bill] \/ WorkerOwesStamp(k)')
    BY <1>2 DEF StampInv, Mine
  <2>6. CASE sent(k)
    BY <2>2, <2>5, <2>6
  <2>7. CASE ~sent(k)
    BY <2>1, <2>3, <2>4, <2>5, <2>7 DEF RemindersInv, StampInv
  <2> QED
    BY <2>6, <2>7
<1>10. UnsentInv'
  BY <1>0, <1>1, <1>2 DEF RemindersInv, UnsentInv, Mine, NoSender
<1>11. StrangerInv'
  BY <1>0, <1>1, <1>2 DEF RemindersInv, StrangerInv
<1> QED
  BY <1>3, <1>5, <1>6, <1>7, <1>8, <1>9, <1>10, <1>11 DEF RemindersInv

LEMMA StampFromReadKeeps ==
  ASSUME RemindersInv, NEW b \in Bills, StampFromRead(b)
  PROVE  RemindersInv'
<1>0. RemindersTypeOK
  BY DEF RemindersInv
<1>1. /\ sender # NoSender /\ sender.at = "stamp" /\ b \in sender.mine
      /\ \/ sender' = NoSender /\ sender.mine = {b}
         \/ /\ sender' \in Sender /\ sender'.at = "stamp" /\ sender'.mine = sender.mine \ {b}
            /\ sender'.stage = sender.stage
      /\ stamps' \in [Bills -> SUBSET Stages] /\ contested' \subseteq Bills
      /\ contested \subseteq contested'
      /\ \A n \in Stages : n = sender.stage[b] => n \in stamps'[b]
      /\ \A c \in Bills : c \notin contested' => stamps[c] \subseteq stamps'[c]
  BY <1>0, StampFromReadDoes
<1>2. UNCHANGED <<today, ruleOn, accounts, log, tick, byEngine, byWorker, mishaps>>
  BY DEF StampFromRead, world
<1>3. RemindersTypeOK'
  BY <1>0, <1>1, <1>2 DEF RemindersTypeOK
<1>4. \A u \in Ticks : \A k : k \in KeysOf(u)' => k \in KeysOf(u)
  BY <1>2 DEF KeysOf
<1>5. HandsInv'
  BY <1>0, <1>1, <1>2, BetweenIs DEF RemindersInv, HandsInv, Becomes
<1>6. ClaimInv'
  BY <1>0, <1>1, <1>2, BetweenIs
     DEF RemindersInv, ClaimInv, LogInv, HandsInv, Sending, Becomes, NoTick
<1>7. LogInv'
  BY <1>0, <1>1, <1>2 DEF RemindersInv, LogInv, ClaimInv, Sending
<1>8. OwnerInv'
  BY <1>0, <1>1, <1>2, <1>4 DEF RemindersInv, OwnerInv, Mine, EngineOwns
<1>9. StampInv'
  <2>1. \A u \in Ticks, k \in Key : TickOwesStamp(u, k)' = TickOwesStamp(u, k)
    BY <1>2 DEF TickOwesStamp
  <2>2. \A k \in Key : WorkerOwesStamp(k) => WorkerOwesStamp(k)' \/ k.stage \in stamps'[k.bill]
    BY <1>1 DEF WorkerOwesStamp, Key
  <2>3. \A k \in Key : Mine(k)' => Mine(k) /\ stamps[k.bill] \subseteq stamps'[k.bill]
    BY <1>1, <1>2 DEF Mine, Key
  <2> QED
    BY <1>0, <1>1, <1>2, <2>1, <2>2, <2>3 DEF RemindersInv, StampInv, RemindersTypeOK
<1>10. UnsentInv'
  BY <1>0, <1>1, <1>2 DEF RemindersInv, UnsentInv, Mine, NoSender
<1>11. StrangerInv'
  BY <1>0, <1>1, <1>2 DEF RemindersInv, StrangerInv
<1> QED
  BY <1>3, <1>5, <1>6, <1>7, <1>8, <1>9, <1>10, <1>11 DEF RemindersInv

LEMMA WorkerKilledKeeps ==
  ASSUME RemindersInv, WorkerKilled
  PROVE  RemindersInv'
<1>0. RemindersTypeOK
  BY DEF RemindersInv
<1>1. /\ sender # NoSender /\ sender' = NoSender /\ contested \subseteq contested'
      /\ contested' \subseteq Bills /\ mishaps' \in 0..MaxMishaps
      /\ sender.at = "stamp" => sender.mine \subseteq contested'
  BY <1>0, SenderFields, ReminderConstants DEF WorkerKilled, Mishap, RemindersTypeOK
<1>2. UNCHANGED <<today, ruleOn, accounts, log, stamps, tick, byEngine, byWorker>>
  BY DEF WorkerKilled, world
<1>3. RemindersTypeOK'
  BY <1>0, <1>1, <1>2 DEF RemindersTypeOK
<1>4. \A u \in Ticks : \A k : k \in KeysOf(u)' => k \in KeysOf(u)
  BY <1>2 DEF KeysOf
<1>5. HandsInv'
  BY <1>0, <1>1, <1>2, BetweenIs DEF RemindersInv, HandsInv, Becomes
<1>6. ClaimInv'
  BY <1>0, <1>1, <1>2, BetweenIs
     DEF RemindersInv, ClaimInv, LogInv, HandsInv, Sending, Becomes, NoTick
<1>7. LogInv'
  BY <1>0, <1>1, <1>2 DEF RemindersInv, LogInv, ClaimInv, Sending
<1>8. OwnerInv'
  BY <1>0, <1>1, <1>2, <1>4 DEF RemindersInv, OwnerInv, Mine, EngineOwns
<1>9. StampInv'
  <2>1. \A u \in Ticks, k \in Key : TickOwesStamp(u, k)' = TickOwesStamp(u, k)
    BY <1>2 DEF TickOwesStamp
  <2>2. \A k \in Key : Mine(k)' /\ WorkerOwesStamp(k) => FALSE
    BY <1>1 DEF WorkerOwesStamp, Mine
  <2>3. \A k \in Key : Mine(k)' => Mine(k)
    BY <1>1, <1>2 DEF Mine
  <2> QED
    BY <1>0, <1>1, <1>2, <2>1, <2>2, <2>3 DEF RemindersInv, StampInv, RemindersTypeOK
<1>10. UnsentInv'
  BY <1>0, <1>1, <1>2 DEF RemindersInv, UnsentInv, Mine, NoSender
<1>11. StrangerInv'
  BY <1>0, <1>1, <1>2 DEF RemindersInv, StrangerInv
<1> QED
  BY <1>3, <1>5, <1>6, <1>7, <1>8, <1>9, <1>10, <1>11 DEF RemindersInv

LEMMA DayPassesKeeps ==
  ASSUME RemindersInv, DayPasses
  PROVE  RemindersInv'
<1>0. RemindersTypeOK
  BY DEF RemindersInv
<1>1. today' \in 0..LastWindow
  BY <1>0, ReminderConstants DEF DayPasses, RemindersTypeOK
<1>2. UNCHANGED <<ruleOn, accounts, log, stamps, tick, sender, byEngine, byWorker,
                 contested, mishaps>>
  BY DEF DayPasses, world
<1>3. RemindersTypeOK'
  BY <1>0, <1>1, <1>2 DEF RemindersTypeOK
<1>4. \A u \in Ticks : \A k : k \in KeysOf(u)' => k \in KeysOf(u)
  BY <1>2 DEF KeysOf
<1>5. HandsInv'
  BY <1>0, <1>1, <1>2, BetweenIs DEF RemindersInv, HandsInv, Becomes
<1>6. ClaimInv'
  BY <1>0, <1>1, <1>2, BetweenIs
     DEF RemindersInv, ClaimInv, LogInv, HandsInv, Sending, Becomes, NoTick
<1>7. LogInv'
  BY <1>0, <1>1, <1>2 DEF RemindersInv, LogInv, ClaimInv, Sending
<1>8. OwnerInv'
  BY <1>0, <1>1, <1>2, <1>4 DEF RemindersInv, OwnerInv, Mine, EngineOwns
<1>9. StampInv'
  BY <1>0, <1>1, <1>2, BetweenIs
     DEF RemindersInv, StampInv, TickOwesStamp, WorkerOwesStamp, Mine, Becomes, NoTick
<1>10. UnsentInv'
  BY <1>0, <1>1, <1>2 DEF RemindersInv, UnsentInv, Mine
<1>11. StrangerInv'
  BY <1>0, <1>1, <1>2 DEF RemindersInv, StrangerInv
<1> QED
  BY <1>3, <1>5, <1>6, <1>7, <1>8, <1>9, <1>10, <1>11 DEF RemindersInv

LEMMA ChangeKeeps ==
  ASSUME RemindersInv, Change
  PROVE  RemindersInv'
<1>0. RemindersTypeOK
  BY DEF RemindersInv
<1>1. /\ contested \subseteq contested' /\ contested' \subseteq Bills
      /\ \A t \in Ticks : \A k \in KeysOf(t) : k.bill \in contested'
      /\ sender # NoSender => sender.mine \subseteq contested'
      /\ ruleOn' \in BOOLEAN /\ accounts' \subseteq People /\ mishaps' \in 0..MaxMishaps
  <2>1. /\ contested \subseteq contested' /\ contested' \subseteq Bills
        /\ \A t \in Ticks : \A k \in KeysOf(t) : k.bill \in contested'
    <3>1. \A t \in Ticks : \A k \in KeysOf(t) : k.bill \in BillsOf(KeysOf(t)) /\ k.bill \in Bills
      BY <1>0, KeysAre DEF BillsOf, Key
    <3>2. \A t \in Ticks : BillsOf(KeysOf(t)) \subseteq Bills
      BY <3>1 DEF BillsOf
    <3> QED
      <4> DEFINE read == UNION {BillsOf(KeysOf(t)) : t \in Ticks}
                 kept == IF sender = NoSender THEN {} ELSE sender.mine
      <4>1. read \subseteq Bills /\ \A t \in Ticks : BillsOf(KeysOf(t)) \subseteq read
        BY <3>2
      <4>2. kept \subseteq Bills
        BY <1>0, SenderFields
      <4>3. contested' = contested \cup read \cup kept
        BY DEF Change
      <4> HIDE DEF read, kept
      <4> QED
        BY <1>0, <3>1, <4>1, <4>2, <4>3 DEF RemindersTypeOK
  <2>2. /\ sender # NoSender => sender.mine \subseteq contested'
        /\ ruleOn' \in BOOLEAN /\ accounts' \subseteq People /\ mishaps' \in 0..MaxMishaps
    <3>1. sender # NoSender => sender.mine \subseteq contested'
      BY DEF Change
    <3>2. ruleOn' \in BOOLEAN /\ accounts' \subseteq People
      BY <1>0 DEF Change, RemindersTypeOK
    <3>3. mishaps' \in 0..MaxMishaps
      BY <1>0, ReminderConstants DEF Change, Mishap, RemindersTypeOK
    <3> QED
      BY <3>1, <3>2, <3>3
  <2> QED
    BY <2>1, <2>2
<1>2. UNCHANGED <<today, log, stamps, tick, sender, byEngine, byWorker>>
  BY DEF Change, world
<1>3. RemindersTypeOK'
  BY <1>0, <1>1, <1>2 DEF RemindersTypeOK
<1>4. \A u \in Ticks : \A k : k \in KeysOf(u)' => k \in KeysOf(u)
  BY <1>2 DEF KeysOf
<1>5. HandsInv'
  BY <1>0, <1>1, <1>2, BetweenIs DEF RemindersInv, HandsInv, Becomes
<1>6. ClaimInv'
  BY <1>0, <1>1, <1>2, BetweenIs
     DEF RemindersInv, ClaimInv, LogInv, HandsInv, Sending, Becomes, NoTick
<1>7. LogInv'
  BY <1>0, <1>1, <1>2 DEF RemindersInv, LogInv, ClaimInv, Sending
<1>8. OwnerInv'
  BY <1>0, <1>1, <1>2, <1>4 DEF RemindersInv, OwnerInv, Mine, EngineOwns
<1>9. StampInv'
  BY <1>0, <1>1, <1>2, BetweenIs
     DEF RemindersInv, StampInv, TickOwesStamp, WorkerOwesStamp, Mine, Becomes, NoTick
<1>10. UnsentInv'
  BY <1>0, <1>1, <1>2 DEF RemindersInv, UnsentInv, Mine
<1>11. StrangerInv'
  BY <1>0, <1>1, <1>2 DEF RemindersInv, StrangerInv
<1> QED
  BY <1>3, <1>5, <1>6, <1>7, <1>8, <1>9, <1>10, <1>11 DEF RemindersInv

-----------------------------------------------------------------------------
LEMMA RemindersInitially == ReminderInit => RemindersInv
<1> SUFFICES ASSUME ReminderInit PROVE RemindersInv
  OBVIOUS
<1>1. RemindersTypeOK
  BY ReminderConstants DEF ReminderInit, RemindersTypeOK
<1>2. \A t \in Ticks : tick[t] = NoTick
  BY DEF ReminderInit
<1>3. HandsInv /\ ClaimInv /\ LogInv /\ StrangerInv
  BY <1>2 DEF ReminderInit, HandsInv, ClaimInv, LogInv, StrangerInv, Sending, NoTick
<1>4. OwnerInv /\ StampInv /\ UnsentInv
  BY <1>2 DEF ReminderInit, OwnerInv, StampInv, UnsentInv, KeysOf, NoSender
<1> QED
  BY <1>1, <1>3, <1>4 DEF RemindersInv

LEMMA RemindersStep == RemindersInv /\ [ReminderNext]_reminderVars => RemindersInv'
<1> SUFFICES ASSUME RemindersInv, [ReminderNext]_reminderVars PROVE RemindersInv'
  OBVIOUS
<1>1. ASSUME NEW t \in Ticks, Load(t) PROVE RemindersInv'
  BY <1>1, LoadKeeps
<1>2. ASSUME NEW t \in Ticks, ReadMetadata(t) PROVE RemindersInv'
  BY <1>2, ReadMetadataKeeps
<1>3. ASSUME NEW t \in Ticks, StampFails(t) PROVE RemindersInv'
  BY <1>3, StampFailsKeeps
<1>4. ASSUME NEW t \in Ticks, TickEnds(t) PROVE RemindersInv'
  BY <1>4, TickEndsKeeps
<1>5. ASSUME NEW t \in Ticks, TickDies(t) PROVE RemindersInv'
  BY <1>5, TickDiesKeeps
<1>6. ASSUME NEW t \in Ticks, NEW stage \in Stages, NEW p \in People, ClaimGroup(t, stage, p)
      PROVE  RemindersInv'
  BY <1>6, ClaimGroupKeeps
<1>7. ASSUME NEW t \in Ticks, NEW k \in Key, ClaimRow(t, k) PROVE RemindersInv'
  BY <1>7, ClaimRowKeeps
<1>8. ASSUME NEW t \in Ticks, NEW delivered \in BOOLEAN, NEW throws \in BOOLEAN,
             SendGroup(t, delivered, throws)
      PROVE  RemindersInv'
  BY <1>8, SendGroupKeeps
<1>9. ASSUME NEW t \in Ticks, NEW ok \in BOOLEAN, SettleLogs(t, ok) PROVE RemindersInv'
  BY <1>9, SettleLogsKeeps
<1>10. ASSUME NEW t \in Ticks, NEW b \in Bills, StampCharge(t, b) PROVE RemindersInv'
  BY <1>10, StampChargeKeeps
<1>11. CASE WorkerReads
  BY <1>11, WorkerReadsKeeps
<1>12. CASE WorkerKilled
  BY <1>12, WorkerKilledKeeps
<1>13. CASE DayPasses
  BY <1>13, DayPassesKeeps
<1>14. CASE Change
  BY <1>14, ChangeKeeps
<1>15. ASSUME NEW delivered \in BOOLEAN, RemindMember(delivered) PROVE RemindersInv'
  BY <1>15, RemindMemberKeeps
<1>16. ASSUME NEW b \in Bills, StampFromRead(b) PROVE RemindersInv'
  BY <1>16, StampFromReadKeeps
<1>17. CASE UNCHANGED reminderVars
  BY <1>17 DEF reminderVars, RemindersInv, RemindersTypeOK, HandsInv, ClaimInv, LogInv, OwnerInv,
       StampInv, UnsentInv, StrangerInv, Sending, KeysOf, Mine, EngineOwns, TickOwesStamp,
       WorkerOwesStamp
<1> QED
  BY <1>1, <1>2, <1>3, <1>4, <1>5, <1>6, <1>7, <1>8, <1>9, <1>10, <1>11, <1>12, <1>13, <1>14,
     <1>15, <1>16, <1>17 DEF ReminderNext

\* What the two reminder programs know of each other is consistent at every moment.
THEOREM RemindersInvariant == ReminderSpec => []RemindersInv
<1> QED
  BY RemindersInitially, RemindersStep, PTL DEF ReminderSpec

\* The reminders keep their types.
THEOREM RemindersTyped == ReminderSpec => []RemindersTypeOK
<1>1. RemindersInv => RemindersTypeOK
  BY DEF RemindersInv
<1> QED
  BY <1>1, RemindersInvariant, PTL

LEMMA OnceOfInv == RemindersInv => RemindedOnce
<1> SUFFICES ASSUME RemindersInv, NEW k \in Key
             PROVE  /\ byEngine[k] <= 1
                    /\ k.bill \notin contested => byEngine[k] + byWorker[k] <= 1
  BY DEF RemindedOnce
<1>1. byEngine[k] \in Nat /\ byWorker[k] \in Nat /\ byEngine[k] <= 1
  BY DEF RemindersInv, RemindersTypeOK, LogInv
<1>2. CASE k.person = Billed
  BY <1>1, <1>2 DEF RemindersInv, StampInv, Mine
<1>3. CASE k.person # Billed
  BY <1>1, <1>3 DEF RemindersInv, StrangerInv
<1> QED
  BY <1>1, <1>2, <1>3

\* However many ticks overlap, wherever one dies, and whenever the worker runs:
\* nobody is told twice of one stage of a charge, unless a stamp was lost, or the
\* rule or an account changed under those who had read it.
THEOREM RemindedOnceAlways == ReminderSpec => []RemindedOnce
<1> QED
  BY RemindersInvariant, OnceOfInv, PTL

-----------------------------------------------------------------------------
(* Payments.  Only one delivery of a booking is under way, so what it read of   *)
(* the transactions stays true until it has written one; and a transaction of a *)
(* payment that was not refunded reads succeeded, which the guard looks for.    *)

\* What an invocation carries, and what a transaction has: no value is lost when
\* one field is assigned.
Entry(r) ==
    r = [do |-> r.do, at |-> r.at, intent |-> r.intent, charge |-> r.charge,
         seen |-> r.seen, left |-> r.left]
Transaction(r) ==
    r = [intent |-> r.intent, amount |-> r.amount, status |-> r.status,
         request |-> r.request, linked |-> r.linked]

\* The webhook's invocations work for events that happened, an admin's for none.
FunInv ==
    /\ DOMAIN fun = Functions
    /\ \A f \in Functions : fun[f] # Free =>
         /\ Entry(fun[f])
         /\ \/ fun[f].do = "recording" /\ fun[f].intent = Manual
            \/ /\ fun[f].do \in {"booking", "linking", "refunding"}
               /\ fun[f].intent \in Intents /\ <<fun[f].intent, fun[f].do>> \in happened
LedgerInv ==
    /\ \E S : booked \in Seq(S)
    /\ \A n \in DOMAIN booked : Transaction(booked[n])
    /\ told \in [Intents -> Nat]

Undisturbed(i) == i \notin raced /\ <<i, "refunding">> \notin happened
BookedFor(i) ==
    /\ \A f, g \in Booking(i) : f = g
    /\ \A m, n \in RowsOf(i) : m = n
    /\ \A n \in RowsOf(i) : booked[n].status = "succeeded"
    /\ \A f \in Booking(i) : fun[f].at = "create" => RowsOf(i) = {}
    /\ \A f \in Booking(i) : fun[f].at \in {"split", "update", "write"} =>
         RowsOf(i) # {} /\ told[i] = 0
    /\ told[i] <= 1 /\ (told[i] = 1 => RowsOf(i) # {})
BookingInv ==
    /\ FunInv /\ LedgerInv
    /\ \A i \in Intents : Undisturbed(i) => BookedFor(i)
-----------------------------------------------------------------------------
(* Dues and late fees.  A run writes what it did not see when it began, and no  *)
(* other run is under way: what has no charge for the run has none at all.      *)

Blank == {"none", "canceled"}
ChargeRow(r) == r = [status |-> r.status, paid |-> r.paid, due |-> r.due]
ChargesInv ==
    /\ DOMAIN charge = Charges /\ \A c \in Charges : ChargeRow(charge[c])
    /\ rows \in [Charges -> Nat]
    /\ \A c \in Charges : rows[c] <= 1 /\ (charge[c].status \in Blank => rows[c] = 0)

WorkerInv ==
    worker # Asleep =>
        /\ worker = [at |-> worker.at, seen |-> worker.seen, todo |-> worker.todo,
                     newest |-> worker.newest]
        /\ DOMAIN worker.seen = Charges /\ \A c \in Charges : ChargeRow(worker.seen[c])
        /\ \A c \in Charges : worker.seen[c].status \in Blank => rows[c] = 0
        /\ worker.todo \subseteq Charges
        /\ \A c \in worker.todo : worker.seen[c].status \in Blank
ChargingInv == ChargesInv /\ WorkerInv

-----------------------------------------------------------------------------
LEMMA MinIn ==
  ASSUME NEW S \in SUBSET Nat, S # {}
  PROVE  Min(S) \in S
<1>1. PICK m \in S : \A k \in S : m <= k
  BY LeastNumber
<1> QED
  BY <1>1 DEF Min

\* One invocation's state, or what was booked, after a step.
FunBecomes(f, r) ==
    fun'[f] = r /\ DOMAIN fun' = Functions /\ \A g \in Functions : g # f => fun'[g] = fun[g]
LEMMA FunMoves ==
  ASSUME FunInv, NEW f \in Functions, NEW r, fun' = [fun EXCEPT ![f] = r]
  PROVE  FunBecomes(f, r)
  BY DEF FunInv, FunBecomes

LEMMA AppendIs ==
  ASSUME NEW S, NEW s \in Seq(S), NEW e
  PROVE  /\ Append(s, e) \in Seq(S \cup {e})
         /\ DOMAIN Append(s, e) = DOMAIN s \cup {Len(s) + 1} /\ Len(s) + 1 \notin DOMAIN s
         /\ Append(s, e)[Len(s) + 1] = e /\ \A n \in DOMAIN s : Append(s, e)[n] = s[n]
<1>1. s \in Seq(S \cup {e}) /\ e \in S \cup {e}
  OBVIOUS
<1> DEFINE T == S \cup {e}
<1> HIDE DEF T
<1>2. s \in Seq(T) /\ e \in T
  BY <1>1 DEF T
<1>3. Append(s, e) \in Seq(T) /\ Len(s) \in Nat /\ DOMAIN s = 1..Len(s)
      /\ Len(Append(s, e)) = Len(s) + 1
  BY <1>2
<1>4. DOMAIN Append(s, e) = 1..(Len(s) + 1)
  BY <1>2, <1>3
<1>5. Append(s, e)[Len(s) + 1] = e /\ \A n \in DOMAIN s : Append(s, e)[n] = s[n]
  BY <1>2, <1>3
<1> QED
  BY <1>3, <1>4, <1>5 DEF T

LEMMA Appended ==
  ASSUME LedgerInv, NEW e, Transaction(e), booked' = Append(booked, e)
  PROVE  \E m :
           /\ m \notin DOMAIN booked /\ DOMAIN booked' = DOMAIN booked \cup {m} /\ booked'[m] = e
           /\ \A n \in DOMAIN booked : booked'[n] = booked[n]
           /\ \E S : booked' \in Seq(S)
           /\ \A n \in DOMAIN booked' : Transaction(booked'[n])
<1>1. PICK S : booked \in Seq(S)
  BY DEF LedgerInv
<1> DEFINE m == Len(booked) + 1
<1>2. /\ booked' \in Seq(S \cup {e})
      /\ DOMAIN booked' = DOMAIN booked \cup {m} /\ m \notin DOMAIN booked
      /\ booked'[m] = e /\ \A n \in DOMAIN booked : booked'[n] = booked[n]
  BY <1>1, AppendIs
<1> HIDE DEF m
<1>3. \A n \in DOMAIN booked' : Transaction(booked'[n])
  BY <1>2 DEF LedgerInv
<1> QED
  BY <1>2, <1>3

\* One transaction is replaced by another.
LEMMA Replaced ==
  ASSUME LedgerInv, NEW m \in DOMAIN booked, NEW e, Transaction(e),
         booked' = [booked EXCEPT ![m] = e]
  PROVE  /\ DOMAIN booked' = DOMAIN booked /\ booked'[m] = e
         /\ \A n \in DOMAIN booked : n # m => booked'[n] = booked[n]
         /\ \E S : booked' \in Seq(S)
         /\ \A n \in DOMAIN booked' : Transaction(booked'[n])
<1>1. PICK S : booked \in Seq(S)
  BY DEF LedgerInv
<1>2. /\ DOMAIN booked' = DOMAIN booked /\ booked'[m] = e
      /\ \A n \in DOMAIN booked : n # m => booked'[n] = booked[n]
  OBVIOUS
<1>3. booked' \in Seq(S \cup {e})
  <2> DEFINE T == S \cup {e}
  <2>1. booked \in Seq(T) /\ e \in T
    BY <1>1
  <2> HIDE DEF T
  <2>2. booked' \in Seq(T)
    BY <2>1
  <2> QED
    BY <2>2 DEF T
<1> QED
  BY <1>2, <1>3 DEF LedgerInv

LEMMA EntryMoves ==
  ASSUME NEW r, Entry(r), NEW place
  PROVE  /\ Entry([r EXCEPT !.at = place]) /\ [r EXCEPT !.at = place].at = place
         /\ [r EXCEPT !.at = place].do = r.do /\ [r EXCEPT !.at = place].intent = r.intent
         /\ [r EXCEPT !.at = place] # Free
  BY DEF Entry, Free

\* (with the shares that are left, and with the charge that was read)
WithShares(r, place, left) == [r EXCEPT !.at = place, !.left = left]
LEMMA EntryShares ==
  ASSUME NEW r, Entry(r), NEW place, NEW left
  PROVE  /\ Entry(WithShares(r, place, left)) /\ WithShares(r, place, left).at = place
         /\ WithShares(r, place, left).do = r.do /\ WithShares(r, place, left).intent = r.intent
         /\ WithShares(r, place, left) # Free
<1> DEFINE p == [r EXCEPT !.at = place]
           q == WithShares(r, place, left)
<1>1. q = [p EXCEPT !.left = left]
  BY DEF Entry, WithShares
<1>2. Entry(p) /\ p.at = place /\ p.do = r.do /\ p.intent = r.intent
  BY EntryMoves
<1> HIDE DEF p, q
<1>3. Entry(q) /\ q.at = p.at /\ q.do = p.do /\ q.intent = p.intent
  BY <1>1, <1>2 DEF Entry
<1>4. q # Free
  BY <1>3 DEF Entry, Free
<1> QED
  BY <1>2, <1>3, <1>4 DEF q

WithSeen(r, place, seen) == [r EXCEPT !.at = place, !.seen = seen]
LEMMA EntrySeen ==
  ASSUME NEW r, Entry(r), NEW place, NEW seen
  PROVE  /\ Entry(WithSeen(r, place, seen)) /\ WithSeen(r, place, seen).at = place
         /\ WithSeen(r, place, seen).do = r.do /\ WithSeen(r, place, seen).intent = r.intent
         /\ WithSeen(r, place, seen) # Free
<1> DEFINE p == [r EXCEPT !.at = place]
           q == WithSeen(r, place, seen)
<1>1. q = [p EXCEPT !.seen = seen]
  BY DEF Entry, WithSeen
<1>2. Entry(p) /\ p.at = place /\ p.do = r.do /\ p.intent = r.intent
  BY EntryMoves
<1> HIDE DEF p, q
<1>3. Entry(q) /\ q.at = p.at /\ q.do = p.do /\ q.intent = p.intent
  BY <1>1, <1>2 DEF Entry
<1>4. q # Free
  BY <1>3 DEF Entry, Free
<1> QED
  BY <1>2, <1>3, <1>4 DEF q

LEMMA TransactionFields ==
  ASSUME NEW r, Transaction(r), NEW status, NEW linked
  PROVE  /\ Transaction([r EXCEPT !.status = status])
         /\ [r EXCEPT !.status = status].intent = r.intent
         /\ Transaction([r EXCEPT !.linked = linked])
         /\ [r EXCEPT !.linked = linked].intent = r.intent
         /\ [r EXCEPT !.linked = linked].status = r.status
<1>1. DOMAIN r = {"intent", "amount", "status", "request", "linked"}
  BY DEF Transaction
<1> QED
  BY <1>1 DEF Transaction

-----------------------------------------------------------------------------
(* Payments: every step keeps the invariant *)

\* An invocation moves on: it has not come to the point before its transaction,
\* and comes behind it only from behind it.
Late == {"split", "update", "write"}
LEMMA MovingKeeps ==
  ASSUME BookingInv, NEW f \in Functions, NEW r, fun[f] # Free, FunBecomes(f, r),
         Entry(r), r # Free, r.do = fun[f].do, r.intent = fun[f].intent,
         r.do = "booking" => r.at # "create" /\ (r.at \in Late => fun[f].at \in Late),
         UNCHANGED <<happened, booked, told, raced>>
  PROVE  BookingInv'
<1>1. FunInv' /\ LedgerInv'
  BY DEF BookingInv, FunInv, LedgerInv, FunBecomes
<1>2. \A i \in Intents : Booking(i)' = Booking(i) /\ RowsOf(i)' = RowsOf(i)
  BY DEF Booking, Active, RowsOf, FunBecomes
<1>3. ASSUME NEW i \in Intents, Undisturbed(i)' PROVE BookedFor(i)'
  <2>1. BookedFor(i)
    BY <1>3 DEF BookingInv, Undisturbed
  <2>2. ASSUME NEW g \in Booking(i)
        PROVE  /\ fun'[g].at # "create" \/ fun[g].at = "create"
               /\ fun'[g].at \in Late => fun[g].at \in Late
    <3>1. CASE g = f
      <4>1. r.do = "booking"
        BY <3>1 DEF Booking
      <4> QED
        BY <3>1, <4>1 DEF FunBecomes
    <3>2. CASE g # f
      BY <3>2 DEF FunBecomes, Booking, Active
    <3> QED
      BY <3>1, <3>2
  <2> QED
    BY <1>2, <2>1, <2>2 DEF BookedFor, Late
<1> QED
  BY <1>1, <1>3 DEF BookingInv

\* An invocation ends, or leaves its transactions as they were for whoever looks
\* at intent and status.
LEMMA LeavingKeeps ==
  ASSUME BookingInv, NEW f \in Functions, fun[f] # Free, FunBecomes(f, Free), LedgerInv',
         DOMAIN booked' = DOMAIN booked,
         \A n \in DOMAIN booked :
            booked'[n].intent = booked[n].intent /\ booked'[n].status = booked[n].status,
         UNCHANGED <<happened, told, raced>>
  PROVE  BookingInv'
<1>1. FunInv'
  BY DEF BookingInv, FunInv, FunBecomes
<1>2. \A i \in Intents : /\ Booking(i)' = Booking(i) \ {f} /\ RowsOf(i)' = RowsOf(i)
                         /\ \A g \in Booking(i)' : fun'[g] = fun[g]
  BY DEF Booking, Active, RowsOf, FunBecomes
<1>3. ASSUME NEW i \in Intents, Undisturbed(i)' PROVE BookedFor(i)'
  BY <1>2, <1>3 DEF BookingInv, BookedFor, Undisturbed, RowsOf
<1> QED
  BY <1>1, <1>3 DEF BookingInv

\* (the same, where the transactions are not touched)
LEMMA EndingKeeps ==
  ASSUME BookingInv, NEW f \in Functions, fun[f] # Free, fun' = [fun EXCEPT ![f] = Free],
         UNCHANGED <<happened, booked, told, raced>>
  PROVE  BookingInv'
<1>1. FunBecomes(f, Free) /\ LedgerInv'
  BY FunMoves DEF BookingInv, LedgerInv
<1> QED
  BY <1>1, LeavingKeeps

\* Goto, and assignments of seen and left with it.
LEMMA FunFields ==
  ASSUME BookingInv, NEW f \in Functions, fun[f] # Free
  PROVE  /\ Entry(fun[f]) /\ DOMAIN fun = Functions
         /\ fun[f].do \in {"booking", "linking", "refunding", "recording"}
  BY DEF BookingInv, FunInv

LEMMA FunAtActive ==
  ASSUME NEW f, NEW do, NEW place, FunAt(f, do, place), do # "none"
  PROVE  fun[f] # Free /\ fun[f].do = do /\ fun[f].at = place
  BY DEF FunAt, Free

LEMMA CheckBookedKeeps ==
  ASSUME BookingInv, NEW f \in Functions, CheckBooked(f)
  PROVE  BookingInv'
<1>1. fun[f] # Free /\ fun[f].do = "booking" /\ fun[f].at = "read"
  BY FunAtActive DEF CheckBooked
<1>2. CASE AlreadyBooked(fun[f].intent)
  BY <1>1, <1>2, EndingKeeps DEF CheckBooked, Answer
<1>3. CASE ~AlreadyBooked(fun[f].intent)
  <2> DEFINE r == [fun[f] EXCEPT !.at = "create"]
  <2>1. /\ fun' = [fun EXCEPT ![f].at = "create"]
        /\ UNCHANGED <<happened, booked, told, raced>>
    BY <1>3 DEF CheckBooked, Goto
  <2>2. Entry(r) /\ r.at = "create" /\ r.do = fun[f].do /\ r.intent = fun[f].intent /\ r # Free
    BY <1>1, FunFields, EntryMoves
  <2>3. FunBecomes(f, r)
    BY <2>1, FunMoves DEF BookingInv
  <2> HIDE DEF r
  <2>4. FunInv' /\ LedgerInv'
    <3>1. FunInv'
      BY <1>1, <2>1, <2>2, <2>3 DEF BookingInv, FunInv, FunBecomes
    <3>2. LedgerInv'
      BY <2>1 DEF BookingInv, LedgerInv
    <3> QED
      BY <3>1, <3>2
  <2>5. \A i \in Intents : Booking(i)' = Booking(i) /\ RowsOf(i)' = RowsOf(i)
    BY <1>1, <2>1, <2>2, <2>3 DEF Booking, Active, RowsOf, FunBecomes
  <2>6. ASSUME NEW i \in Intents, Undisturbed(i)' PROVE BookedFor(i)'
    <3>1. BookedFor(i)
      BY <2>1, <2>6 DEF BookingInv, Undisturbed
    <3>2. f \in Booking(i) => RowsOf(i) = {}
      BY <1>3, <3>1 DEF BookedFor, AlreadyBooked, RowsOf, Booking
    <3> QED
      BY <2>1, <2>2, <2>3, <2>5, <3>1, <3>2 DEF BookedFor, FunBecomes
  <2> QED
    BY <2>4, <2>6 DEF BookingInv
<1> QED
  BY <1>2, <1>3

LEMMA CreateTransactionKeeps ==
  ASSUME BookingInv, NEW f \in Functions, CreateTransaction(f)
  PROVE  BookingInv'
<1>1. fun[f] # Free /\ fun[f].do = "booking" /\ fun[f].at = "create"
  BY FunAtActive DEF CreateTransaction
<1> DEFINE j == fun[f].intent
           e == Row(j, intent[j].amount, intent[j].request)
<1>2. j \in Intents /\ booked' = Append(booked, e) /\ UNCHANGED <<happened, told, raced>>
  BY <1>1 DEF CreateTransaction, BookingInv, FunInv
<1>3. Transaction(e) /\ e.intent = j /\ e.status = "succeeded"
  BY DEF Row, Transaction
<1>4. PICK r : /\ FunBecomes(f, r) /\ Entry(r) /\ r # Free /\ r.do = "booking" /\ r.intent = j
               /\ r.at \in {"split", "update"}
  <2>1. CASE intent[j].charges # {}
    <3>1. fun' = [fun EXCEPT ![f].at = "split"]
      BY <2>1 DEF CreateTransaction, Goto
    <3> DEFINE r == [fun[f] EXCEPT !.at = "split"]
    <3>2. Entry(r) /\ r.at = "split" /\ r.do = fun[f].do /\ r.intent = fun[f].intent /\ r # Free
      BY <1>1, FunFields, EntryMoves
    <3>3. FunBecomes(f, r)
      BY <3>1, FunMoves DEF BookingInv
    <3> HIDE DEF r
    <3> QED
      BY <1>1, <3>2, <3>3
  <2>2. CASE intent[j].charges = {}
    <3> DEFINE left == OneShare(intent[j].request, intent[j].amount)
               r == [fun[f] EXCEPT !.at = "update", !.left = left]
    <3>1. fun' = [fun EXCEPT ![f].at = "update", ![f].left = left]
      BY <2>2 DEF CreateTransaction
    <3> HIDE DEF left
    <3>2. Entry(r) /\ r.at = "update" /\ r.do = fun[f].do /\ r.intent = fun[f].intent /\ r # Free
      <4>1. r = WithShares(fun[f], "update", left)
        BY DEF WithShares
      <4> HIDE DEF r
      <4>2. Entry(fun[f])
        BY <1>1, FunFields
      <4> QED
        BY <4>1, <4>2, EntryShares
    <3>3. fun' = [fun EXCEPT ![f] = r]
      BY <1>1, <3>1, FunFields
    <3> HIDE DEF r
    <3>4. FunBecomes(f, r)
      BY <3>3, FunMoves DEF BookingInv
    <3> QED
      BY <1>1, <3>2, <3>4
  <2> QED
    BY <2>1, <2>2
<1> HIDE DEF e
<1>5. PICK m :
        /\ m \notin DOMAIN booked /\ DOMAIN booked' = DOMAIN booked \cup {m} /\ booked'[m] = e
        /\ \A n \in DOMAIN booked : booked'[n] = booked[n]
        /\ \E S : booked' \in Seq(S)
        /\ \A n \in DOMAIN booked' : Transaction(booked'[n])
  BY <1>2, <1>3, Appended DEF BookingInv
<1>6. FunInv' /\ LedgerInv'
  BY <1>1, <1>2, <1>4, <1>5 DEF BookingInv, FunInv, LedgerInv, FunBecomes
<1>7. ASSUME NEW i \in Intents, Undisturbed(i)' PROVE BookedFor(i)'
  <2>1. BookedFor(i) /\ told'[i] = told[i] /\ told[i] \in Nat
    BY <1>2, <1>7 DEF BookingInv, Undisturbed, LedgerInv
  <2>2. Booking(i)' = Booking(i)
    BY <1>1, <1>4 DEF Booking, Active, FunBecomes
  <2>3. CASE i = j
    <3>1. Booking(i) = {f} /\ RowsOf(i) = {}
      BY <1>1, <2>1, <2>3 DEF BookedFor, Booking, Active
    <3>2. RowsOf(i)' = {m} /\ booked'[m].status = "succeeded"
      BY <1>3, <1>5, <2>3, <3>1 DEF RowsOf
    <3>3. told[i] = 0
      BY <2>1, <3>1 DEF BookedFor
    <3> QED
      BY <1>4, <2>1, <2>2, <3>1, <3>2, <3>3 DEF BookedFor, FunBecomes
  <2>4. CASE i # j
    <3>1. RowsOf(i)' = RowsOf(i) /\ f \notin Booking(i)
      BY <1>3, <1>5, <2>4 DEF RowsOf, Booking
    <3>2. \A g \in Booking(i) : fun'[g] = fun[g]
      BY <1>4, <3>1 DEF Booking, Active, FunBecomes
    <3>3. \A n \in RowsOf(i) : booked'[n] = booked[n]
      BY <1>5 DEF RowsOf
    <3> QED
      BY <2>1, <2>2, <3>1, <3>2, <3>3 DEF BookedFor
  <2> QED
    BY <2>3, <2>4
<1> QED
  BY <1>6, <1>7 DEF BookingInv

LEMMA SplitKeeps ==
  ASSUME BookingInv, NEW f \in Functions, Split(f)
  PROVE  BookingInv'
<1>1. fun[f] # Free /\ fun[f].do = "booking" /\ fun[f].at = "split"
  BY FunAtActive DEF Split
<1> DEFINE left == Shares(intent[fun[f].intent].charges, intent[fun[f].intent].amount)
           r == [fun[f] EXCEPT !.at = "update", !.left = left]
<1>2. /\ fun' = [fun EXCEPT ![f].at = "update", ![f].left = left]
      /\ UNCHANGED <<happened, booked, told, raced>>
  BY DEF Split
<1> HIDE DEF left
<1>3. Entry(r) /\ r.at = "update" /\ r.do = fun[f].do /\ r.intent = fun[f].intent /\ r # Free
  <2>1. r = WithShares(fun[f], "update", left)
    BY DEF WithShares
  <2> HIDE DEF r
  <2>2. Entry(fun[f])
    BY <1>1, FunFields
  <2> QED
    BY <2>1, <2>2, EntryShares
<1>4. fun' = [fun EXCEPT ![f] = r]
  BY <1>1, <1>2, FunFields
<1> HIDE DEF r
<1> QED
  BY <1>1, <1>2, <1>3, <1>4, FunMoves, MovingKeeps DEF Late, BookingInv

LEMMA ReadChargeKeeps ==
  ASSUME BookingInv, NEW f \in Functions, ReadCharge(f)
  PROVE  BookingInv'
<1> DEFINE seen == charge[Current(f)]
           r == [fun[f] EXCEPT !.at = "write", !.seen = seen]
<1>1. fun[f] # Free /\ fun[f].at = "update"
  BY DEF ReadCharge
<1>2. /\ fun' = [fun EXCEPT ![f].at = "write", ![f].seen = seen]
      /\ UNCHANGED <<happened, booked, told, raced>>
  BY DEF ReadCharge
<1> HIDE DEF seen
<1>3. Entry(r) /\ r.at = "write" /\ r.do = fun[f].do /\ r.intent = fun[f].intent /\ r # Free
  <2>1. r = WithSeen(fun[f], "write", seen)
    BY DEF WithSeen
  <2> HIDE DEF r
  <2>2. Entry(fun[f])
    BY <1>1, FunFields
  <2> QED
    BY <2>1, <2>2, EntrySeen
<1>4. fun' = [fun EXCEPT ![f] = r]
  BY <1>1, <1>2, FunFields
<1> HIDE DEF r
<1> QED
  BY <1>1, <1>2, <1>3, <1>4, FunMoves, MovingKeeps DEF Late, BookingInv

\* The rest of an invocation's shares, whatever becomes of the current one.
LEMMA NextShareKeeps ==
  ASSUME BookingInv, NEW f \in Functions, fun[f] # Free, fun[f].at \in {"update", "write"},
         fun' = [fun EXCEPT ![f].at = "update", ![f].left = WithoutCurrent(f)],
         UNCHANGED <<happened, booked, told, raced>>
  PROVE  BookingInv'
<1> DEFINE left == WithoutCurrent(f)
           r == [fun[f] EXCEPT !.at = "update", !.left = left]
<1>2. fun' = [fun EXCEPT ![f].at = "update", ![f].left = left]
  OBVIOUS
<1> HIDE DEF left
<1>3. Entry(r) /\ r.at = "update" /\ r.do = fun[f].do /\ r.intent = fun[f].intent /\ r # Free
  <2>1. r = WithShares(fun[f], "update", left)
    BY DEF WithShares
  <2> HIDE DEF r
  <2>2. Entry(fun[f])
    BY FunFields
  <2> QED
    BY <2>1, <2>2, EntryShares
<1>4. fun' = [fun EXCEPT ![f] = r]
  BY <1>2, FunFields
<1> HIDE DEF r
<1> QED
  BY <1>3, <1>4, FunMoves, MovingKeeps DEF Late, BookingInv

LEMMA WriteChargeKeeps ==
  ASSUME BookingInv, NEW f \in Functions, WriteCharge(f)
  PROVE  BookingInv'
<1>1. fun[f] # Free /\ fun[f].at = "write"
  BY DEF WriteCharge
<1>2. /\ fun' = [fun EXCEPT ![f].at = "update", ![f].left = WithoutCurrent(f)]
      /\ UNCHANGED <<happened, booked, told, raced>>
  BY DEF WriteCharge
<1> QED
  BY <1>1, <1>2, NextShareKeeps

LEMMA WriteLedgerKeeps ==
  ASSUME BookingInv, NEW f \in Functions, WriteLedger(f)
  PROVE  BookingInv'
<1>1. fun[f] # Free /\ fun[f].do = "booking" /\ fun[f].at = "update"
  BY FunAtActive DEF WriteLedger
<1> DEFINE j == fun[f].intent
<1>2. /\ j \in Intents /\ told' = [told EXCEPT ![j] = @ + 1]
      /\ fun' = [fun EXCEPT ![f] = Free] /\ UNCHANGED <<happened, booked, raced>>
  BY <1>1 DEF WriteLedger, Answer, BookingInv, FunInv
<1>3. FunBecomes(f, Free)
  BY <1>2, FunMoves DEF BookingInv
<1>4. FunInv' /\ LedgerInv'
  BY <1>2, <1>3 DEF BookingInv, FunInv, LedgerInv, FunBecomes
<1>5. ASSUME NEW i \in Intents, Undisturbed(i)' PROVE BookedFor(i)'
  <2>1. BookedFor(i) /\ told[i] \in Nat
    BY <1>2, <1>5 DEF BookingInv, Undisturbed, LedgerInv
  <2>2. Booking(i)' = Booking(i) \ {f} /\ RowsOf(i)' = RowsOf(i)
    BY <1>2, <1>3 DEF Booking, Active, RowsOf, FunBecomes
  <2>3. \A g \in Booking(i)' : fun'[g] = fun[g]
    BY <1>3, <2>2 DEF Booking, Active, FunBecomes
  <2>4. CASE i = j
    <3>1. Booking(i) = {f} /\ told[i] = 0 /\ RowsOf(i) # {}
      BY <1>1, <2>1, <2>4 DEF BookedFor, Booking, Active
    <3>2. told'[i] = 1
      BY <1>2, <2>4, <3>1 DEF BookingInv, LedgerInv
    <3> QED
      BY <1>2, <2>1, <2>2, <3>1, <3>2 DEF BookedFor
  <2>5. CASE i # j
    <3>1. told'[i] = told[i]
      BY <1>2, <2>5 DEF BookingInv, LedgerInv
    <3> QED
      BY <1>2, <2>1, <2>2, <2>3, <3>1 DEF BookedFor
  <2> QED
    BY <2>4, <2>5
<1> QED
  BY <1>4, <1>5 DEF BookingInv

\* Linking writes one field of one transaction, which nobody looks at to book.
LEMMA LinkKeeps ==
  ASSUME BookingInv, NEW f \in Functions, Link(f)
  PROVE  BookingInv'
<1>1. fun[f] # Free
  BY FunAtActive DEF Link
<1>2. fun' = [fun EXCEPT ![f] = Free] /\ UNCHANGED <<happened, told, raced>>
  BY DEF Link, Answer
<1> DEFINE found == RowsOf(fun[f].intent)
           m == Min(found)
<1>3. booked' = IF found = {} THEN booked ELSE [booked EXCEPT ![m].linked = TRUE]
  BY DEF Link
<1>4. CASE found = {}
  BY <1>1, <1>2, <1>3, <1>4, EndingKeeps
<1>5. CASE found # {}
  <2>1. m \in DOMAIN booked
    <3>1. found \subseteq Nat /\ found \subseteq DOMAIN booked
      BY DEF RowsOf, BookingInv, LedgerInv
    <3> QED
      BY <1>5, <3>1, MinIn
  <2> HIDE DEF m, found
  <2> DEFINE e == [booked[m] EXCEPT !.linked = TRUE]
  <2>2. Transaction(e) /\ e.intent = booked[m].intent /\ e.status = booked[m].status
    BY <2>1, TransactionFields DEF BookingInv, LedgerInv
  <2>3. booked' = [booked EXCEPT ![m] = e]
    BY <1>3, <1>5
  <2> HIDE DEF e
  <2>4. /\ DOMAIN booked' = DOMAIN booked /\ booked'[m] = e
        /\ \A n \in DOMAIN booked : n # m => booked'[n] = booked[n]
        /\ \E S : booked' \in Seq(S)
        /\ \A n \in DOMAIN booked' : Transaction(booked'[n])
    BY <2>1, <2>2, <2>3, Replaced DEF BookingInv
  <2>5. LedgerInv'
    BY <1>2, <2>4 DEF BookingInv, LedgerInv
  <2> QED
    BY <1>1, <1>2, <2>2, <2>4, <2>5, FunMoves, LeavingKeeps DEF BookingInv
<1> QED
  BY <1>4, <1>5

\* A refund changes a status, of a transaction of the refunded payment.
LEMMA MarkRefundedKeeps ==
  ASSUME BookingInv, NEW f \in Functions, MarkRefunded(f)
  PROVE  BookingInv'
<1>1. fun[f] # Free /\ fun[f].do = "refunding" /\ fun[f].at = "read"
  BY FunAtActive DEF MarkRefunded
<1> DEFINE j == fun[f].intent
           found == LinkedRows(j)
           m == Min(found)
<1>2. /\ j \in Intents /\ <<j, "refunding">> \in happened
      /\ UNCHANGED <<happened, told, raced>>
  BY <1>1 DEF MarkRefunded, BookingInv, FunInv
<1>3. CASE found = {}
  BY <1>1, <1>2, <1>3, EndingKeeps DEF MarkRefunded, Answer
<1>4. CASE found # {}
  <2>1. m \in DOMAIN booked /\ booked[m].intent = j
    <3>1. found \subseteq Nat /\ found \subseteq DOMAIN booked
          /\ \A n \in found : booked[n].intent = j
      BY DEF LinkedRows, RowsOf, BookingInv, LedgerInv
    <3> QED
      BY <1>4, <3>1, MinIn
  <2> DEFINE left == OneShare(booked[m].request, -booked[m].amount)
             r == [fun[f] EXCEPT !.at = "update", !.left = left]
             e == [booked[m] EXCEPT !.status = "refunded"]
  <2>2. /\ booked' = [booked EXCEPT ![m].status = "refunded"]
        /\ fun' = [fun EXCEPT ![f].at = "update", ![f].left = left]
    BY <1>4 DEF MarkRefunded
  <2> HIDE DEF left, found, m
  <2>3. Entry(r) /\ r.do = fun[f].do /\ r.intent = j /\ r # Free
    <3>1. r = WithShares(fun[f], "update", left)
      BY DEF WithShares
    <3> HIDE DEF r
    <3>2. Entry(fun[f])
      BY <1>1, FunFields
    <3> QED
      BY <3>1, <3>2, EntryShares
  <2>4. fun' = [fun EXCEPT ![f] = r]
    BY <1>1, <2>2, FunFields
  <2>5. Transaction(e) /\ e.intent = booked[m].intent
    BY <2>1, TransactionFields DEF BookingInv, LedgerInv
  <2>6. booked' = [booked EXCEPT ![m] = e]
    BY <2>2
  <2> HIDE DEF r, e
  <2>7. FunBecomes(f, r)
    BY <2>4, FunMoves DEF BookingInv
  <2>8. /\ DOMAIN booked' = DOMAIN booked /\ booked'[m] = e
        /\ \A n \in DOMAIN booked : n # m => booked'[n] = booked[n]
        /\ \E S : booked' \in Seq(S)
        /\ \A n \in DOMAIN booked' : Transaction(booked'[n])
    BY <2>1, <2>5, <2>6, Replaced DEF BookingInv
  <2>9. FunInv' /\ LedgerInv'
    BY <1>1, <1>2, <2>3, <2>7, <2>8 DEF BookingInv, FunInv, LedgerInv, FunBecomes
  <2>10. ASSUME NEW i \in Intents, Undisturbed(i)' PROVE BookedFor(i)'
    <3>1. BookedFor(i) /\ i # j
      BY <1>2, <2>10 DEF BookingInv, Undisturbed
    <3>2. Booking(i)' = Booking(i) /\ RowsOf(i)' = RowsOf(i) /\ m \notin RowsOf(i) /\ f \notin Booking(i)
      BY <1>1, <2>1, <2>3, <2>5, <2>7, <2>8, <3>1 DEF Booking, Active, RowsOf, FunBecomes
    <3>3. \A g \in Booking(i) : fun'[g] = fun[g]
      BY <2>7, <3>2 DEF Booking, Active, FunBecomes
    <3>4. \A n \in RowsOf(i) : booked'[n] = booked[n]
      BY <2>8, <3>2 DEF RowsOf
    <3> QED
      BY <1>2, <3>1, <3>2, <3>3, <3>4 DEF BookedFor
  <2> QED
    BY <2>9, <2>10 DEF BookingInv
<1> QED
  BY <1>3, <1>4

LEMMA RefundDoneKeeps ==
  ASSUME BookingInv, NEW f \in Functions, RefundDone(f)
  PROVE  BookingInv'
<1>1. fun[f] # Free
  BY FunAtActive DEF RefundDone
<1> QED
  BY <1>1, EndingKeeps DEF RefundDone, Answer

LEMMA ReadForRecordKeeps ==
  ASSUME BookingInv, NEW f \in Functions, ReadForRecord(f)
  PROVE  BookingInv'
<1>1. fun[f] # Free /\ fun[f].do = "recording"
  BY FunAtActive DEF ReadForRecord
<1> DEFINE row == charge[fun[f].charge]
<1>2. CASE Settled(row)
  BY <1>1, <1>2, EndingKeeps DEF ReadForRecord
<1>3. CASE ~Settled(row)
  <2> DEFINE r == [fun[f] EXCEPT !.at = "create", !.seen = row]
  <2>1. /\ fun' = [fun EXCEPT ![f].seen = row, ![f].at = "create"]
        /\ UNCHANGED <<happened, booked, told, raced>>
    BY <1>3 DEF ReadForRecord
  <2> HIDE DEF row
  <2>2. Entry(r) /\ r.do = fun[f].do /\ r.intent = fun[f].intent /\ r # Free
    <3>1. r = WithSeen(fun[f], "create", row)
      BY DEF WithSeen
    <3> HIDE DEF r
    <3>2. Entry(fun[f])
      BY <1>1, FunFields
    <3> QED
      BY <3>1, <3>2, EntrySeen
  <2>3. fun' = [fun EXCEPT ![f] = r]
    BY <1>1, <2>1, FunFields
  <2> HIDE DEF r
  <2> QED
    BY <1>1, <2>1, <2>2, <2>3, FunMoves, MovingKeeps DEF BookingInv
<1> QED
  BY <1>2, <1>3

\* An offline payment is booked under no intent.
LEMMA BookOfflineKeeps ==
  ASSUME BookingInv, NEW f \in Functions, BookOffline(f)
  PROVE  BookingInv'
<1>1. fun[f] # Free /\ fun[f].do = "recording"
  BY FunAtActive DEF BookOffline
<1> DEFINE e == Row(Manual, OfflineAmount(fun[f].charge, fun[f].seen.paid), fun[f].charge)
           r == [fun[f] EXCEPT !.at = "settle"]
<1>2. /\ booked' = Append(booked, e) /\ fun' = [fun EXCEPT ![f].at = "settle"]
      /\ UNCHANGED <<happened, told, raced>>
  BY DEF BookOffline, Goto
<1>3. Transaction(e) /\ e.intent = Manual
  BY DEF Row, Transaction
<1>4. Entry(r) /\ r.do = fun[f].do /\ r.intent = fun[f].intent /\ r # Free
  BY <1>1, FunFields, EntryMoves
<1>5. FunBecomes(f, r)
  BY <1>2, FunMoves DEF BookingInv
<1> HIDE DEF e, r
<1>6. PICK m :
        /\ m \notin DOMAIN booked /\ DOMAIN booked' = DOMAIN booked \cup {m} /\ booked'[m] = e
        /\ \A n \in DOMAIN booked : booked'[n] = booked[n]
        /\ \E S : booked' \in Seq(S)
        /\ \A n \in DOMAIN booked' : Transaction(booked'[n])
  BY <1>2, <1>3, Appended DEF BookingInv
<1>7. FunInv' /\ LedgerInv'
  BY <1>1, <1>2, <1>4, <1>5, <1>6 DEF BookingInv, FunInv, LedgerInv, FunBecomes
<1>8. ASSUME NEW i \in Intents, Undisturbed(i)' PROVE BookedFor(i)'
  <2>1. BookedFor(i)
    BY <1>2, <1>8 DEF BookingInv, Undisturbed
  <2>2. Booking(i)' = Booking(i) /\ RowsOf(i)' = RowsOf(i) /\ f \notin Booking(i)
    BY <1>1, <1>3, <1>4, <1>5, <1>6, PaymentConstants DEF Booking, Active, RowsOf, FunBecomes
  <2>3. \A g \in Booking(i) : fun'[g] = fun[g]
    BY <1>5, <2>2 DEF Booking, Active, FunBecomes
  <2>4. \A n \in RowsOf(i) : booked'[n] = booked[n]
    BY <1>6 DEF RowsOf
  <2> QED
    BY <1>2, <2>1, <2>2, <2>3, <2>4 DEF BookedFor
<1> QED
  BY <1>7, <1>8 DEF BookingInv

LEMMA SettleKeeps ==
  ASSUME BookingInv, NEW f \in Functions, Settle(f)
  PROVE  BookingInv'
<1>1. fun[f] # Free
  BY FunAtActive DEF Settle
<1> QED
  BY <1>1, EndingKeeps DEF Settle

LEMMA RequestFailsKeeps ==
  ASSUME BookingInv, NEW f \in Functions, RequestFails(f)
  PROVE  BookingInv'
<1>1. fun[f] # Free /\ UNCHANGED <<happened, booked, told, raced>>
  BY DEF RequestFails
<1>2. \/ /\ fun[f].at \in {"update", "write"}
         /\ fun' = [fun EXCEPT ![f].at = "update", ![f].left = WithoutCurrent(f)]
      \/ fun[f].at = "split" /\ fun' = [fun EXCEPT ![f].at = "update"]
      \/ fun' = [fun EXCEPT ![f] = Free]
  BY DEF RequestFails, Goto, Answer
<1>3. CASE fun[f].at = "split" /\ fun' = [fun EXCEPT ![f].at = "update"]
  <2> DEFINE r == [fun[f] EXCEPT !.at = "update"]
  <2>1. Entry(r) /\ r.at = "update" /\ r.do = fun[f].do /\ r.intent = fun[f].intent /\ r # Free
    BY <1>1, FunFields, EntryMoves
  <2>2. FunBecomes(f, r)
    BY <1>3, FunMoves DEF BookingInv
  <2> HIDE DEF r
  <2> QED
    BY <1>1, <1>3, <2>1, <2>2, MovingKeeps DEF Late
<1> QED
  BY <1>1, <1>2, <1>3, NextShareKeeps, EndingKeeps

LEMMA KilledKeeps ==
  ASSUME BookingInv, NEW f \in Functions, Killed(f)
  PROVE  BookingInv'
  BY EndingKeeps DEF Killed

\* An invocation begins: it has read nothing yet.
LEMMA EnterKeeps ==
  ASSUME BookingInv, NEW f \in Functions, NEW do, NEW j, NEW c, Enter(f, do, j, c),
         \/ do = "recording" /\ j = Manual /\ raced' = raced
         \/ /\ do \in {"booking", "linking", "refunding"} /\ j \in Intents /\ <<j, do>> \in happened
            /\ raced' = IF do = "booking" /\ Booking(j) # {} THEN raced \cup {j} ELSE raced
  PROVE  BookingInv'
<1> DEFINE r == [do |-> do, at |-> "read", intent |-> j, charge |-> c,
                 seen |-> NoCharge, left |-> NoShares]
<1>1. fun[f] = Free /\ fun' = [fun EXCEPT ![f] = r] /\ UNCHANGED <<happened, booked, told>>
  BY DEF Enter
<1>2. Entry(r) /\ r # Free /\ r.do = do /\ r.at = "read" /\ r.intent = j
  BY DEF Entry, Free
<1>3. FunBecomes(f, r)
  BY <1>1, FunMoves DEF BookingInv
<1> HIDE DEF r
<1>4. FunInv' /\ LedgerInv'
  BY <1>1, <1>2, <1>3 DEF BookingInv, FunInv, LedgerInv, FunBecomes
<1>5. ASSUME NEW i \in Intents, Undisturbed(i)' PROVE BookedFor(i)'
  <2>1. BookedFor(i)
    BY <1>1, <1>5 DEF BookingInv, Undisturbed
  <2>2. RowsOf(i)' = RowsOf(i) /\ f \notin Booking(i)
    BY <1>1 DEF Booking, Active, RowsOf
  <2>3. \A g \in Booking(i)' : g # f => g \in Booking(i) /\ fun'[g] = fun[g]
    BY <1>3 DEF Booking, Active, FunBecomes
  <2>4. f \in Booking(i)' => Booking(i) = {}
    BY <1>2, <1>3, <1>5 DEF Booking, Active, FunBecomes, Undisturbed
  <2> QED
    BY <1>1, <1>2, <1>3, <2>1, <2>2, <2>3, <2>4 DEF BookedFor, FunBecomes
<1> QED
  BY <1>4, <1>5 DEF BookingInv

LEMMA DeliverKeeps ==
  ASSUME BookingInv, NEW f \in Functions, NEW i \in Intents, NEW event \in Events,
         Deliver(f, i, event)
  PROVE  BookingInv'
<1>1. event \in {"booking", "linking", "refunding"}
  BY PaymentConstants
<1> QED
  BY <1>1, EnterKeeps DEF Deliver

LEMMA RecordOfflineKeeps ==
  ASSUME BookingInv, NEW f \in Functions, NEW c \in Charges, RecordOffline(f, c)
  PROVE  BookingInv'
  BY EnterKeeps DEF RecordOffline

\* What happens at Stripe, or to the charges, leaves the bookings alone.
LEMMA HappeningKeeps ==
  ASSUME BookingInv, happened \subseteq happened', UNCHANGED <<booked, fun, told, raced>>
  PROVE  BookingInv'
<1>1. FunInv' /\ LedgerInv'
  BY DEF BookingInv, FunInv, LedgerInv
<1>2. ASSUME NEW i \in Intents, Undisturbed(i)' PROVE BookedFor(i)'
  <2>1. BookedFor(i)
    BY <1>2 DEF BookingInv, Undisturbed
  <2>2. RowsOf(i)' = RowsOf(i) /\ Booking(i)' = Booking(i)
    BY DEF Booking, Active, RowsOf
  <2> QED
    BY <2>1, <2>2 DEF BookedFor
<1> QED
  BY <1>1, <1>2 DEF BookingInv

LEMMA PaymentsStep ==
  ASSUME BookingInv, PaymentsNext
  PROVE  BookingInv'
<1>1. ASSUME NEW f \in Functions, FunctionStep(f) PROVE BookingInv'
  BY <1>1, CheckBookedKeeps, CreateTransactionKeeps, SplitKeeps, ReadChargeKeeps,
     WriteChargeKeeps, WriteLedgerKeeps, LinkKeeps, MarkRefundedKeeps, RefundDoneKeeps,
     ReadForRecordKeeps, BookOfflineKeeps, SettleKeeps DEF FunctionStep
<1>2. ASSUME NEW f \in Functions, RequestFails(f) \/ Killed(f) PROVE BookingInv'
  BY <1>2, RequestFailsKeeps, KilledKeeps
<1>3. ASSUME NEW f \in Functions, NEW i \in Intents, NEW event \in Events, Deliver(f, i, event)
      PROVE  BookingInv'
  BY <1>3, DeliverKeeps
<1>4. ASSUME NEW f \in Functions, NEW c \in Charges, RecordOffline(f, c) PROVE BookingInv'
  BY <1>4, RecordOfflineKeeps
<1>5. ASSUME NEW i \in Intents, Refund(i) PROVE BookingInv'
  BY <1>5, HappeningKeeps DEF Refund
<1>6. ASSUME NEW i \in Intents, NEW c \in Charges, Pay(i, c) PROVE BookingInv'
  BY <1>6, HappeningKeeps DEF Pay, Collect
<1> QED
  BY <1>1, <1>2, <1>3, <1>4, <1>5, <1>6 DEF PaymentsNext

LEMMA NothingPaidBooks == NothingPaid => BookingInv
<1> SUFFICES ASSUME NothingPaid PROVE BookingInv
  OBVIOUS
<1>1. FunInv
  BY DEF NothingPaid, FunInv
<1>2. booked = <<>> /\ booked \in Seq({}) /\ DOMAIN booked = {}
  BY DEF NothingPaid
<1>3. LedgerInv
  BY <1>2 DEF NothingPaid, LedgerInv
<1>4. \A i \in Intents : BookedFor(i)
  BY <1>2 DEF NothingPaid, BookedFor, Booking, Active, RowsOf
<1> QED
  BY <1>1, <1>3, <1>4 DEF BookingInv

LEMMA BookedOnceOfInv == BookingInv => BookedOnce
<1> SUFFICES ASSUME BookingInv, NEW i \in Intents, Undisturbed(i)
             PROVE  Cardinality(RowsOf(i)) <= 1 /\ told[i] <= 1
  BY DEF BookedOnce, Undisturbed
<1>1. BookedFor(i)
  BY DEF BookingInv
<1>2. CASE RowsOf(i) = {}
  BY <1>1, <1>2, FS_EmptySet DEF BookedFor
<1>3. CASE RowsOf(i) # {}
  <2>1. PICK n \in RowsOf(i) : RowsOf(i) = {n}
    BY <1>1, <1>3 DEF BookedFor
  <2> QED
    BY <1>1, <2>1, FS_Singleton DEF BookedFor
<1> QED
  BY <1>2, <1>3

LEMMA PaymentsAloneStep ==
  BookingInv /\ [PaymentsAlone]_paymentVars => BookingInv'
<1> SUFFICES ASSUME BookingInv, [PaymentsAlone]_paymentVars PROVE BookingInv'
  OBVIOUS
<1>1. CASE PaymentsNext
  BY <1>1, PaymentsStep
<1>2. ASSUME NEW i \in Intents, NEW charges \in (SUBSET Charges) \ {{}}, PaySeveral(i, charges)
      PROVE  BookingInv'
  BY <1>2, HappeningKeeps DEF PaySeveral, Collect
<1>3. CASE UNCHANGED paymentVars
  BY <1>3, HappeningKeeps DEF paymentVars
<1> QED
  BY <1>1, <1>2, <1>3 DEF PaymentsAlone

\* However often Stripe delivers a payment and wherever an invocation dies: it is
\* booked once and told once, unless two deliveries of it overlap.
THEOREM RoutesBookOnce == PaymentsSpec => []BookedOnce
<1>1. PaymentsInit(Charges) => BookingInv
  BY NothingPaidBooks DEF PaymentsInit
<1> QED
  BY <1>1, PaymentsAloneStep, BookedOnceOfInv, PTL DEF PaymentsSpec

-----------------------------------------------------------------------------
(* The billing worker: every step keeps the invariants *)

NotPayment == <<day, floor, worker, keys, rows, canceled>>

\* A charge gets another row, which is not blank.
LEMMA RowReplaced ==
  ASSUME ChargingInv, NEW c, NEW row, ChargeRow(row), row.status \notin Blank,
         charge' = [charge EXCEPT ![c] = row], UNCHANGED NotPayment
  PROVE  ChargingInv'
<1>1. ChargesInv'
  BY DEF ChargingInv, ChargesInv, NotPayment
<1>2. WorkerInv'
  BY DEF ChargingInv, WorkerInv, NotPayment
<1> QED
  BY <1>1, <1>2 DEF ChargingInv

LEMMA ChargesUntouched ==
  ASSUME ChargingInv, UNCHANGED charge, UNCHANGED NotPayment
  PROVE  ChargingInv'
  BY DEF ChargingInv, ChargesInv, WorkerInv, NotPayment

LEMMA RowPaid ==
  ASSUME NEW r, ChargeRow(r), NEW paid, NEW status, status \notin Blank
  PROVE  /\ ChargeRow([[r EXCEPT !.paid = paid] EXCEPT !.status = status])
         /\ [[r EXCEPT !.paid = paid] EXCEPT !.status = status].status \notin Blank
         /\ ChargeRow([[r EXCEPT !.status = status] EXCEPT !.paid = paid])
         /\ [[r EXCEPT !.status = status] EXCEPT !.paid = paid].status \notin Blank
         /\ ChargeRow([r EXCEPT !.status = status]) /\ [r EXCEPT !.status = status].status = status
<1>1. ASSUME NEW q, ChargeRow(q)
      PROVE  /\ ChargeRow([q EXCEPT !.paid = paid]) /\ [q EXCEPT !.paid = paid].status = q.status
             /\ ChargeRow([q EXCEPT !.status = status]) /\ [q EXCEPT !.status = status].status = status
  BY <1>1 DEF ChargeRow
<1> DEFINE p == [r EXCEPT !.paid = paid]
           s == [r EXCEPT !.status = status]
<1>2. ChargeRow(p) /\ ChargeRow(s) /\ s.status = status
  BY <1>1
<1> HIDE DEF p, s
<1>3. /\ ChargeRow([p EXCEPT !.status = status]) /\ [p EXCEPT !.status = status].status = status
      /\ ChargeRow([s EXCEPT !.paid = paid]) /\ [s EXCEPT !.paid = paid].status = status
  BY <1>1, <1>2
<1> QED
  BY <1>2, <1>3 DEF p, s

LEMMA StatusOfPaid ==
  ASSUME NEW c, NEW paid
  PROVE  StatusOf(c, paid) \notin Blank
  BY DEF StatusOf, Blank

LEMMA WriteChargeRow ==
  ASSUME ChargingInv, NEW f \in Functions, WriteCharge(f), UNCHANGED NotPayment
  PROVE  ChargingInv'
<1> DEFINE c == Current(f)
           paid == NewPaid(fun[f].seen, fun[f].left[c])
           status == StatusOf(c, paid)
<1>1. charge' = [charge EXCEPT ![c].paid = paid, ![c].status = status]
  BY DEF WriteCharge
<1>2. status \notin Blank
  BY StatusOfPaid
<1> HIDE DEF c, paid, status
<1>3. CASE c \in Charges
  <2> DEFINE row == [[charge[c] EXCEPT !.paid = paid] EXCEPT !.status = status]
  <2>1. ChargeRow(row) /\ row.status \notin Blank
    BY <1>2, <1>3, RowPaid DEF ChargingInv, ChargesInv
  <2>2. charge' = [charge EXCEPT ![c] = row]
    BY <1>1, <1>3 DEF ChargingInv, ChargesInv
  <2> HIDE DEF row
  <2> QED
    BY <2>1, <2>2, RowReplaced
<1>4. CASE c \notin Charges
  <2>1. /\ DOMAIN charge' = Charges /\ \A d \in Charges : charge'[d] = charge[d]
    BY <1>1, <1>4 DEF ChargingInv, ChargesInv
  <2> QED
    BY <2>1 DEF ChargingInv, ChargesInv, WorkerInv, NotPayment
<1> QED
  BY <1>3, <1>4

LEMMA SettleRow ==
  ASSUME ChargingInv, NEW f \in Functions, Settle(f), UNCHANGED NotPayment
  PROVE  ChargingInv'
<1> DEFINE c == fun[f].charge
           paid == Amount(c)
<1>1. charge' = [charge EXCEPT ![c].status = "paid", ![c].paid = paid]
  BY DEF Settle
<1>2. "paid" \notin Blank
  BY DEF Blank
<1> HIDE DEF c, paid
<1>3. CASE c \in Charges
  <2> DEFINE row == [[charge[c] EXCEPT !.status = "paid"] EXCEPT !.paid = paid]
  <2>1. ChargeRow(row) /\ row.status \notin Blank
    BY <1>2, <1>3, RowPaid DEF ChargingInv, ChargesInv
  <2>2. charge' = [charge EXCEPT ![c] = row]
    BY <1>1, <1>3 DEF ChargingInv, ChargesInv
  <2> HIDE DEF row
  <2> QED
    BY <2>1, <2>2, RowReplaced
<1>4. CASE c \notin Charges
  <2>1. /\ DOMAIN charge' = Charges /\ \A d \in Charges : charge'[d] = charge[d]
    BY <1>1, <1>4 DEF ChargingInv, ChargesInv
  <2> QED
    BY <2>1 DEF ChargingInv, ChargesInv, WorkerInv, NotPayment
<1> QED
  BY <1>3, <1>4

LEMMA PaymentsKeepRows ==
  ASSUME ChargingInv, PaymentsNext, UNCHANGED workerVars
  PROVE  ChargingInv'
<1>0. UNCHANGED NotPayment
  BY DEF workerVars, NotPayment
<1>1. ASSUME NEW f \in Functions, FunctionStep(f) PROVE ChargingInv'
  <2>1. CASE WriteCharge(f) \/ Settle(f)
    BY <1>0, <2>1, WriteChargeRow, SettleRow
  <2>2. CASE ~(WriteCharge(f) \/ Settle(f))
    <3>1. UNCHANGED charge
      BY <1>1, <2>2 DEF FunctionStep, CheckBooked, CreateTransaction, Split, ReadCharge, WriteLedger,
           Link, MarkRefunded, RefundDone, ReadForRecord, BookOffline
    <3> QED
      BY <1>0, <3>1, ChargesUntouched
  <2> QED
    BY <2>1, <2>2
<1>2. ASSUME NEW f \in Functions, RequestFails(f) \/ Killed(f) PROVE ChargingInv'
  BY <1>0, <1>2, ChargesUntouched DEF RequestFails, Killed
<1>3. ASSUME NEW f \in Functions, NEW i \in Intents, NEW event \in Events, Deliver(f, i, event)
      PROVE  ChargingInv'
  BY <1>0, <1>3, ChargesUntouched DEF Deliver, Enter
<1>4. ASSUME NEW f \in Functions, NEW c \in Charges, RecordOffline(f, c) PROVE ChargingInv'
  BY <1>0, <1>4, ChargesUntouched DEF RecordOffline, Enter
<1>5. ASSUME NEW i \in Intents, Refund(i) PROVE ChargingInv'
  BY <1>0, <1>5, ChargesUntouched DEF Refund
<1>6. ASSUME NEW i \in Intents, NEW c \in Charges, Pay(i, c) PROVE ChargingInv'
  BY <1>0, <1>6, ChargesUntouched DEF Pay, Collect
<1> QED
  BY <1>1, <1>2, <1>3, <1>4, <1>5, <1>6 DEF PaymentsNext

\* A run as it was read at the beginning.
LEMMA RunFields ==
  ASSUME NEW at, NEW seen, NEW todo, NEW newest
  PROVE  LET w == [at |-> at, seen |-> seen, todo |-> todo, newest |-> newest]
         IN /\ w = [at |-> w.at, seen |-> w.seen, todo |-> w.todo, newest |-> w.newest]
            /\ w.seen = seen /\ w.todo = todo /\ w.at = at
  OBVIOUS

LEMMA BeginRows ==
  ASSUME ChargingInv, Begin
  PROVE  ChargingInv'
<1> DEFINE todo == Drafts(charge)
           w == [at |-> "generate", seen |-> charge, todo |-> todo, newest |-> floor]
<1>1. worker' = w /\ UNCHANGED <<charge, rows>>
  BY DEF Begin, paymentVars
<1>2. todo \subseteq Charges /\ \A c \in todo : charge[c].status \in Blank
  BY BillingConstants DEF Drafts, Blank
<1> HIDE DEF todo
<1>3. ChargesInv'
  BY <1>1 DEF ChargingInv, ChargesInv
<1>4. WorkerInv'
  BY <1>1, <1>2 DEF ChargingInv, ChargesInv, WorkerInv
<1> QED
  BY <1>3, <1>4 DEF ChargingInv

LEMMA RunIs ==
  ASSUME WorkerInv, worker # Asleep
  PROVE  DOMAIN worker = {"at", "seen", "todo", "newest"}
  BY DEF WorkerInv

\* The run writes a charge, or a fee, that it has not seen: there is none.
LEMMA InsertRows ==
  ASSUME ChargingInv, worker # Asleep, NEW c \in worker.todo, NEW due, Insert(c, due)
  PROVE  ChargingInv'
<1> DEFINE row == [status |-> "active", paid |-> 0, due |-> due]
           todo == worker.todo \ {c}
           seen == [worker.seen EXCEPT ![c] = row]
           newest == IF c \in Periods THEN c ELSE worker.newest
           w == [at |-> worker.at, seen |-> seen, todo |-> todo, newest |-> newest]
<1>1. charge' = [charge EXCEPT ![c] = row] /\ rows' = [rows EXCEPT ![c] = @ + 1]
  BY DEF Insert
<1>2. worker' = w
  <2> DEFINE at == worker.at
             s == worker.seen
             t == worker.todo
             n == worker.newest
  <2>1. worker = [at |-> at, seen |-> s, todo |-> t, newest |-> n]
    BY DEF ChargingInv, WorkerInv
  <2>2. worker' = [worker EXCEPT !.todo = worker.todo \ {c}, !.seen = seen, !.newest = newest]
    BY DEF Insert
  <2> QED
    BY <2>1, <2>2
<1>3. ChargeRow(row) /\ row.status \notin Blank
  BY DEF ChargeRow, Blank
<1>4. c \in Charges /\ rows[c] = 0 /\ rows[c] \in Nat
  BY DEF ChargingInv, WorkerInv, ChargesInv
<1> HIDE DEF row
<1>5. ChargesInv'
  BY <1>1, <1>3, <1>4 DEF ChargingInv, ChargesInv
<1>6. WorkerInv'
  <2>1. DOMAIN seen = Charges /\ \A d \in Charges : ChargeRow(seen[d])
    BY <1>3, <1>4 DEF ChargingInv, WorkerInv
  <2>2. \A d \in Charges : seen[d].status \in Blank => rows'[d] = 0
    BY <1>1, <1>3, <1>4 DEF ChargingInv, WorkerInv, ChargesInv
  <2>3. todo \subseteq Charges /\ \A d \in todo : seen[d].status \in Blank
    BY <1>4 DEF ChargingInv, WorkerInv
  <2> HIDE DEF seen, todo, newest
  <2>4. /\ w = [at |-> w.at, seen |-> w.seen, todo |-> w.todo, newest |-> w.newest]
        /\ w.seen = seen /\ w.todo = todo
    OBVIOUS
  <2> HIDE DEF w
  <2> QED
    BY <1>2, <2>1, <2>2, <2>3, <2>4 DEF WorkerInv
<1> QED
  BY <1>5, <1>6 DEF ChargingInv

LEMMA TodoMin ==
  ASSUME ChargingInv, worker # Asleep, worker.todo # {}
  PROVE  Min(worker.todo) \in worker.todo
<1>1. worker.todo \subseteq Nat
  BY PaymentConstants DEF ChargingInv, WorkerInv
<1> QED
  BY <1>1, MinIn

LEMMA AtAwake ==
  ASSUME NEW place, At(place), place # "none"
  PROVE  worker # Asleep
  BY DEF At, Asleep

LEMMA GenerateChargeRows ==
  ASSUME ChargingInv, GenerateCharge
  PROVE  ChargingInv'
<1>1. worker # Asleep /\ worker.todo # {} /\ Insert(Min(worker.todo), DueOn[Min(worker.todo)])
  BY AtAwake DEF GenerateCharge
<1> QED
  BY <1>1, TodoMin, InsertRows

LEMMA ApplyFeeRows ==
  ASSUME ChargingInv, ApplyFee
  PROVE  ChargingInv'
<1>1. worker # Asleep /\ worker.todo # {} /\ Insert(Min(worker.todo), day)
  BY AtAwake DEF ApplyFee
<1> QED
  BY <1>1, TodoMin, InsertRows

\* The run goes on to other steps, with what it has seen.
LEMMA RunMoves ==
  ASSUME ChargingInv, worker # Asleep, NEW place, NEW todo, todo \subseteq Charges,
         \A c \in todo : worker.seen[c].status \in Blank,
         worker' = [worker EXCEPT !.at = place, !.todo = todo], UNCHANGED <<charge, rows>>
  PROVE  ChargingInv'
<1> DEFINE w == [at |-> place, seen |-> worker.seen, todo |-> todo, newest |-> worker.newest]
<1>1. worker' = w
  BY DEF ChargingInv, WorkerInv
<1>2. ChargesInv'
  BY DEF ChargingInv, ChargesInv
<1>3. WorkerInv'
  BY <1>1 DEF ChargingInv, WorkerInv
<1> QED
  BY <1>2, <1>3 DEF ChargingInv

LEMMA PatchScheduleRows ==
  ASSUME ChargingInv, PatchSchedule
  PROVE  ChargingInv'
<1>1. worker # Asleep
  BY AtAwake DEF PatchSchedule
<1>2. worker' = [worker EXCEPT !.at = "fees", !.todo = FeesDue] /\ UNCHANGED <<charge, rows>>
  BY DEF PatchSchedule, paymentVars
<1>3. FeesDue \subseteq Charges /\ \A c \in FeesDue : worker.seen[c].status \in Blank
  BY BillingConstants DEF FeesDue, Known, Blank
<1> QED
  BY <1>1, <1>2, <1>3, RunMoves

LEMMA MarkOverdueRows ==
  ASSUME ChargingInv, MarkOverdue
  PROVE  ChargingInv'
<1>1. worker # Asleep /\ worker.todo = {} /\ UNCHANGED rows
  BY AtAwake DEF MarkOverdue
<1>2. CASE ToMark = {}
  <2>1. worker' = [worker EXCEPT !.at = "autopay"] /\ UNCHANGED charge
    BY <1>2 DEF MarkOverdue
  <2> DEFINE w == [at |-> "autopay", seen |-> worker.seen, todo |-> worker.todo,
                   newest |-> worker.newest]
  <2>2. worker' = w
    BY <1>1, <2>1 DEF ChargingInv, WorkerInv
  <2>3. ChargesInv'
    BY <1>1, <2>1 DEF ChargingInv, ChargesInv
  <2>4. WorkerInv'
    BY <1>1, <2>2 DEF ChargingInv, WorkerInv
  <2> QED
    BY <2>3, <2>4 DEF ChargingInv
<1>3. CASE ToMark # {}
  <2> DEFINE p == Min(ToMark)
             marked == [worker.seen[p] EXCEPT !.status = "overdue"]
             seen == [worker.seen EXCEPT ![p] = marked]
             row == [charge[p] EXCEPT !.status = "overdue"]
             w == [at |-> worker.at, seen |-> seen, todo |-> worker.todo,
                   newest |-> worker.newest]
  <2>1. p \in Charges
    <3>1. ToMark \subseteq Charges /\ ToMark \subseteq Nat
      BY BillingConstants, PaymentConstants DEF ToMark
    <3> QED
      BY <1>3, <3>1, MinIn
  <2>2. /\ charge' = [charge EXCEPT ![p] = row]
        /\ worker' = [worker EXCEPT !.seen = seen]
    BY <1>3 DEF MarkOverdue
  <2> HIDE DEF p
  <2>3. ChargeRow(row) /\ row.status = "overdue" /\ ChargeRow(marked) /\ marked.status = "overdue"
    <3>1. ChargeRow(charge[p]) /\ ChargeRow(worker.seen[p])
      BY <1>1, <2>1 DEF ChargingInv, ChargesInv, WorkerInv
    <3> QED
      BY <3>1 DEF ChargeRow
  <2> HIDE DEF row, marked
  <2>4. ChargesInv'
    BY <1>1, <2>1, <2>2, <2>3 DEF ChargingInv, ChargesInv, Blank
  <2>5. worker' = w
    <3> HIDE DEF seen
    <3> QED
      BY <1>1, <2>2 DEF ChargingInv, WorkerInv
  <2>6. DOMAIN seen = Charges /\ \A c \in Charges : ChargeRow(seen[c])
    BY <1>1, <2>1, <2>3 DEF ChargingInv, WorkerInv
  <2>7. \A c \in Charges : seen[c].status \in Blank => rows[c] = 0
    BY <1>1, <2>1, <2>3 DEF ChargingInv, WorkerInv, Blank
  <2> HIDE DEF seen
  <2>8. WorkerInv'
    BY <1>1, <2>5, <2>6, <2>7 DEF WorkerInv
  <2> QED
    BY <2>4, <2>8 DEF ChargingInv
<1> QED
  BY <1>2, <1>3

\* No run is left.
LEMMA RunOver ==
  ASSUME ChargingInv, worker' = Asleep, UNCHANGED <<charge, rows>>
  PROVE  ChargingInv'
  BY DEF ChargingInv, ChargesInv, WorkerInv

\* A canceled charge has no rows to count.
LEMMA CancelRows ==
  ASSUME ChargingInv, NEW c \in Charges, Cancel(c)
  PROVE  ChargingInv'
<1> DEFINE row == [charge[c] EXCEPT !.status = "canceled"]
<1>1. /\ charge' = [charge EXCEPT ![c] = row] /\ rows' = [rows EXCEPT ![c] = 0]
      /\ worker' = worker
  BY DEF Cancel
<1>2. ChargeRow(row)
  BY DEF ChargingInv, ChargesInv, ChargeRow
<1> HIDE DEF row
<1>3. ChargesInv'
  BY <1>1, <1>2 DEF ChargingInv, ChargesInv
<1>4. WorkerInv'
  BY <1>1 DEF ChargingInv, ChargesInv, WorkerInv
<1> QED
  BY <1>3, <1>4 DEF ChargingInv

LEMMA AutopayRows ==
  ASSUME ChargingInv, NEW i \in Intents, NEW declined \in BOOLEAN, Autopay(i, declined)
  PROVE  ChargingInv'
<1>1. worker' = Asleep /\ UNCHANGED <<charge, rows>>
  BY DEF Autopay, Collect, paymentVars
<1> QED
  BY <1>1, RunOver

LEMMA ChargingStep == ChargingInv /\ [BillingNext]_billingVars => ChargingInv'
<1> SUFFICES ASSUME ChargingInv, [BillingNext]_billingVars PROVE ChargingInv'
  OBVIOUS
<1>1. CASE PaymentsNext /\ UNCHANGED workerVars
  BY <1>1, PaymentsKeepRows
<1>2. CASE Begin
  BY <1>2, BeginRows
<1>3. CASE WorkerStep
  BY <1>3, GenerateChargeRows, PatchScheduleRows, ApplyFeeRows, MarkOverdueRows, AutopayRows
     DEF WorkerStep
<1>4. CASE RunEnds
  BY <1>4, RunOver DEF RunEnds
<1>5. CASE NextDay
  <2>1. UNCHANGED <<charge, rows, worker>>
    BY <1>5 DEF NextDay, paymentVars
  <2> QED
    BY <2>1 DEF ChargingInv, ChargesInv, WorkerInv
<1>6. ASSUME NEW c \in Charges, Cancel(c) PROVE ChargingInv'
  BY <1>6, CancelRows
<1>7. CASE UNCHANGED billingVars
  BY <1>7, ChargesUntouched DEF billingVars, paymentVars, workerVars, NotPayment
<1> QED
  BY <1>1, <1>2, <1>3, <1>4, <1>5, <1>6, <1>7 DEF BillingNext

LEMMA BillingInitially == BillingInit => ChargingInv /\ BookingInv
<1> SUFFICES ASSUME BillingInit PROVE ChargingInv /\ BookingInv
  OBVIOUS
<1>1. BookingInv
  BY NothingPaidBooks DEF BillingInit
<1>2. ChargesInv
  BY DEF BillingInit, ChargesInv, NoCharge, ChargeRow
<1>3. WorkerInv
  BY DEF BillingInit, WorkerInv
<1> QED
  BY <1>1, <1>2, <1>3 DEF ChargingInv

\* No period is charged twice and no charge gets two late fees, however often a
\* run is killed and repeated, and whatever is paid or canceled meanwhile.
THEOREM WorkerChargesOnce == BillingSpec => []ChargedOnce
<1>1. ChargingInv => ChargedOnce
  BY DEF ChargingInv, ChargesInv, ChargedOnce
<1> QED
  BY <1>1, BillingInitially, ChargingStep, PTL DEF BillingSpec

LEMMA BillingBookingStep == BookingInv /\ [BillingNext]_billingVars => BookingInv'
<1> SUFFICES ASSUME BookingInv, [BillingNext]_billingVars PROVE BookingInv'
  OBVIOUS
<1>1. CASE PaymentsNext
  BY <1>1, PaymentsStep
<1>2. CASE Begin \/ NextDay \/ RunEnds \/ UNCHANGED billingVars
  BY <1>2, HappeningKeeps DEF Begin, NextDay, RunEnds, billingVars, paymentVars
<1>3. CASE WorkerStep
  <2>1. CASE GenerateCharge \/ PatchSchedule \/ ApplyFee \/ MarkOverdue
    BY <2>1, HappeningKeeps DEF GenerateCharge, PatchSchedule, ApplyFee, MarkOverdue, paymentVars
  <2>2. ASSUME NEW i \in Intents, NEW declined \in BOOLEAN, Autopay(i, declined)
        PROVE  BookingInv'
    BY <2>2, HappeningKeeps DEF Autopay, Collect, paymentVars
  <2> QED
    BY <1>3, <2>1, <2>2 DEF WorkerStep
<1>4. ASSUME NEW c \in Charges, Cancel(c) PROVE BookingInv'
  BY <1>4, HappeningKeeps DEF Cancel
<1> QED
  BY <1>1, <1>2, <1>3, <1>4 DEF BillingNext

\* The same guard holds with the worker's autopay beside the members' payments.
THEOREM WorkerBooksOnce == BillingSpec => []BookedOnce
<1> QED
  BY BillingInitially, BillingBookingStep, BookedOnceOfInv, PTL DEF BillingSpec
=============================================================================
