------------------------------ MODULE Reminders ------------------------------
(***************************************************************************)
(* Dues reminders, which two programs send: the hourly tick of             *)
(* core/server/utils/reminders.ts to everybody of the unit who has an app  *)
(* account, once the board's rule is on, and scripts/billing-worker.ts,    *)
(* daily, to the billed member.  The tick claims a key per person and      *)
(* stage in hoa_reminder_log before it sends; what both know of each other *)
(* is the stages stamped in a charge's metadata.  Ticks may overlap, the   *)
(* worker's runs do not, and a step is one request.  The charges are one   *)
(* unit's.                                                                 *)
(***************************************************************************)
EXTENDS Naturals, FiniteSets, FiniteSetsExt

CONSTANTS
    Bills,       \* open charges of the unit
    People,      \* its residents
    Billed,      \* the member its charges are billed to
    Ticks,       \* invocations of /api/reminders/run
    Opens,       \* the day on which each charge's due_soon window opens
    LastWindow,  \* bound: days
    MaxMishaps   \* bound: failed requests, killed programs, and changes of the rule
                 \* or of who has an account

ASSUME ReminderConstants ==
    /\ Billed \in People /\ IsFiniteSet(Bills)
    /\ Opens \in [Bills -> Nat] /\ LastWindow \in Nat /\ MaxMishaps \in Nat

VARIABLES
    today,      \* each day stands for one window of a charge
    ruleOn,     \* the board's dues rule
    accounts,   \* people with an app account
    log,        \* hoa_reminder_log: the result under each key
    stamps,     \* metadata.reminders of each charge
    tick,       \* every tick's place, what it read and what it claimed
    sender,     \* the same of the worker's last step
    byEngine,   \* (history) notifications of each key
    byWorker,
    contested,  \* (history) charges whose stamps were lost or late, or that were
                \* read before the rule or an account changed
    mishaps

reminderVars == <<today, ruleOn, accounts, log, stamps, tick, sender, byEngine,
                  byWorker, contested, mishaps>>
world == <<today, ruleOn, accounts>>

Stages == 1..3    \* due_soon, due, past_grace (the engine's before, due, overdue)
Key == [bill : Bills, stage : Stages, person : People]

\* dues() and stageFor(), by where the day is: before every window, days before the
\* due day, on it, in the days of grace (the engine is silent), after them.
Phase(b) == IF today < Opens[b] THEN 0 ELSE Min({today - Opens[b] + 1, 4})
EngineStage(n) == <<0, 1, 2, 0, 3>>[n + 1]
WorkerStage(n) == <<0, 1, 2, 2, 3>>[n + 1]

NoTick == [at |-> "none"]
NoSender == [at |-> "none"]
Tick == [at : {"next", "rows", "send", "failed", "settle", "read", "stamp"},
         todo : SUBSET Key, rows : SUBSET Key, held : SUBSET Key,
         seen : [Bills -> SUBSET Stages], bills : SUBSET Bills]
Sender == [at : {"next", "stamp"}, mine : SUBSET Bills, seen : [Bills -> SUBSET Stages],
           stage : [Bills -> 0..3]]

ReminderInit ==
    /\ today = 0 /\ ruleOn \in BOOLEAN /\ accounts \in SUBSET People
    /\ log = [k \in Key |-> "none"] /\ stamps = [b \in Bills |-> {}]
    /\ tick = [t \in Ticks |-> NoTick] /\ sender = NoSender
    /\ byEngine = [k \in Key |-> 0] /\ byWorker = [k \in Key |-> 0]
    /\ contested = {} /\ mishaps = 0

Between(todo) ==    \* the tick is about to take its next group
    [at |-> "next", todo |-> todo, rows |-> {}, held |-> {}, bills |-> {},
     seen |-> [b \in Bills |-> {}]]
TickAt(t, place) == tick[t].at = place
KeysOf(t) == IF tick[t] = NoTick THEN {} ELSE tick[t].todo \cup tick[t].rows \cup tick[t].held
BillsOf(keys) == {k.bill : k \in keys}
Mishap == mishaps < MaxMishaps /\ mishaps' = mishaps + 1
Counted(ok) == IF ok THEN UNCHANGED mishaps ELSE Mishap

\* evaluateReminders: who is to hear of which stage now.
Due == {k \in Key : /\ k.person \in accounts
                    /\ k.stage = EngineStage(Phase(k.bill))
                    /\ k.stage \notin stamps[k.bill]}

-----------------------------------------------------------------------------
\* A tick reads the charges and which keys are logged already: of that second
\* request nothing depends, for a key logged meanwhile is found when it is claimed.
Load(t) ==
    /\ tick[t] = NoTick
    /\ ruleOn
    /\ LET todo == {k \in Due : log[k] = "none"} IN
       /\ todo # {}
       /\ tick' = [tick EXCEPT ![t] = Between(todo)]
    /\ UNCHANGED <<world, log, stamps, sender, byEngine, byWorker, contested, mishaps>>

\* claimGroup: all keys of one stage and person in one insert, and when it collides
\* one by one.  reminder_key is unique.
TakenNever(k) == FALSE     \* (mutant: no unique index)
Taken(k) == log[k] # "none"
ClaimGroup(t, stage, person) ==
    /\ TickAt(t, "next")
    /\ LET group == {k \in tick[t].todo : k.stage = stage /\ k.person = person}
           collides == \E k \in group : Taken(k)
       IN /\ group # {}
          /\ log' = IF collides THEN log
                    ELSE [k \in Key |-> IF k \in group THEN "claimed" ELSE log[k]]
          /\ tick' = [tick EXCEPT ![t].at = IF collides THEN "rows" ELSE "send",
                                  ![t].todo = @ \ group,
                                  ![t].rows = IF collides THEN group ELSE {},
                                  ![t].held = IF collides THEN {} ELSE group]
    /\ UNCHANGED <<world, stamps, sender, byEngine, byWorker, contested, mishaps>>
ClaimRow(t, k) ==
    /\ TickAt(t, "rows") /\ k \in tick[t].rows
    /\ log' = IF Taken(k) THEN log ELSE [log EXCEPT ![k] = "claimed"]
    /\ LET held == IF Taken(k) THEN tick[t].held ELSE tick[t].held \cup {k}
       IN tick' = [tick EXCEPT ![t].rows = @ \ {k}, ![t].held = held,
                               ![t].at = IF tick[t].rows # {k} THEN @
                                         ELSE IF held = {} THEN "next" ELSE "send"]
    /\ UNCHANGED <<world, stamps, sender, byEngine, byWorker, contested, mishaps>>

\* notifyUsers: what was claimed, as one notification.  It may throw after all.
SendGroup(t, delivered, throws) ==
    /\ TickAt(t, "send")
    /\ Counted(delivered /\ ~throws) /\ (delivered \/ throws)
    /\ byEngine' = [k \in Key |-> byEngine[k] + IF delivered /\ k \in tick[t].held THEN 1 ELSE 0]
    /\ contested' = IF delivered /\ throws THEN contested \cup BillsOf(tick[t].held) ELSE contested
    /\ tick' = [tick EXCEPT ![t].at = IF throws THEN "failed" ELSE "settle"]
    /\ UNCHANGED <<world, log, stamps, sender, byWorker>>

\* The rows' result; an error here is only logged.
SettleLogs(t, ok) ==
    /\ tick[t].at \in {"settle", "failed"}
    /\ Counted(ok)
    /\ log' = [k \in Key |-> IF ok /\ k \in tick[t].held
                             THEN IF TickAt(t, "settle") THEN "sent" ELSE "failed" ELSE log[k]]
    /\ tick' = [tick EXCEPT ![t] = IF TickAt(t, "settle") THEN [@ EXCEPT !.at = "read"]
                                         ELSE Between(@.todo)]
    /\ UNCHANGED <<world, stamps, sender, byEngine, byWorker, contested>>

\* stampCharges: the metadata of all of them, then each written back with the stage.
ReadMetadata(t) ==
    /\ TickAt(t, "read")
    /\ tick' = [tick EXCEPT ![t].at = "stamp", ![t].seen = stamps, ![t].bills = BillsOf(tick[t].held)]
    /\ UNCHANGED <<world, log, stamps, sender, byEngine, byWorker, contested, mishaps>>
LostBy(b, written) == IF stamps[b] \subseteq written THEN contested ELSE contested \cup {b}
StampCharge(t, b) ==
    /\ TickAt(t, "stamp") /\ b \in tick[t].bills
    /\ LET written == tick[t].seen[b] \cup {k.stage : k \in tick[t].held}
       IN stamps' = [stamps EXCEPT ![b] = written] /\ contested' = LostBy(b, written)
    /\ tick' = [tick EXCEPT ![t] = IF @.bills = {b} THEN Between(@.todo)
                                   ELSE [@ EXCEPT !.bills = tick[t].bills \ {b}]]
    /\ UNCHANGED <<world, log, sender, byEngine, byWorker, mishaps>>
StampFails(t) ==
    /\ tick[t].at \in {"read", "stamp"}
    /\ Mishap
    /\ contested' = contested \cup BillsOf(tick[t].held)
    /\ tick' = [tick EXCEPT ![t] = Between(@.todo)]
    /\ UNCHANGED <<world, log, stamps, sender, byEngine, byWorker>>

\* No group is left, or the 40 s are over.
TickEnds(t) ==
    /\ TickAt(t, "next")
    /\ tick' = [tick EXCEPT ![t] = NoTick]
    /\ UNCHANGED <<world, log, stamps, sender, byEngine, byWorker, contested, mishaps>>

TickDies(t) ==
    /\ tick[t] # NoTick
    /\ Mishap
    /\ contested' = contested \cup BillsOf(tick[t].held)
    /\ tick' = [tick EXCEPT ![t] = NoTick]
    /\ UNCHANGED <<world, log, stamps, sender, byEngine, byWorker>>

-----------------------------------------------------------------------------
\* The worker works with what runOrg read at its start: the charges with their
\* metadata, the members, and whether the engine owns the dues reminders.
WorkerReads ==
    /\ sender = NoSender
    /\ ~(ruleOn /\ Billed \in accounts)
    /\ LET stage == [b \in Bills |-> WorkerStage(Phase(b))]
           mine == {b \in Bills : stage[b] # 0 /\ stage[b] \notin stamps[b]}
       IN /\ mine # {}
          /\ sender' = [at |-> "next", mine |-> mine, seen |-> stamps, stage |-> stage]
    /\ UNCHANGED <<world, log, stamps, tick, byEngine, byWorker, contested, mishaps>>

\* One email about everything the member has open, or no channel for it.
RemindMember(delivered) ==
    /\ sender.at = "next"
    /\ byWorker' = [k \in Key |-> byWorker[k] +
         IF delivered /\ k.bill \in sender.mine /\ k.person = Billed
              /\ k.stage = sender.stage[k.bill] THEN 1 ELSE 0]
    /\ sender' = IF delivered THEN [sender EXCEPT !.at = "stamp"] ELSE NoSender
    /\ UNCHANGED <<world, log, stamps, tick, byEngine, contested, mishaps>>

\* The stage and those it skipped, over the metadata as it was read.
StampFromRead(b) ==
    /\ sender.at = "stamp" /\ b \in sender.mine
    /\ LET written == sender.seen[b] \cup 1..sender.stage[b]
       IN stamps' = [stamps EXCEPT ![b] = written] /\ contested' = LostBy(b, written)
    /\ sender' = IF sender.mine = {b} THEN NoSender ELSE [sender EXCEPT !.mine = @ \ {b}]
    /\ UNCHANGED <<world, log, tick, byEngine, byWorker, mishaps>>
WorkerKilled ==
    /\ sender # NoSender
    /\ Mishap
    /\ contested' = IF sender.at = "stamp" THEN contested \cup sender.mine ELSE contested
    /\ sender' = NoSender
    /\ UNCHANGED <<world, log, stamps, tick, byEngine, byWorker>>

-----------------------------------------------------------------------------
DayPasses ==
    /\ today < LastWindow
    /\ today' = today + 1
    /\ UNCHANGED <<ruleOn, accounts, log, stamps, tick, sender, byEngine,
                   byWorker, contested, mishaps>>

\* The board changes the rule, or somebody gets an account; what is under way goes
\* on with what it read.
Change ==
    /\ Mishap
    /\ \/ ruleOn' = ~ruleOn /\ UNCHANGED accounts
       \/ UNCHANGED ruleOn /\ \E p \in People \ accounts : accounts' = accounts \cup {p}
    /\ contested' = contested \cup (UNION {BillsOf(KeysOf(t)) : t \in Ticks})
                              \cup (IF sender = NoSender THEN {} ELSE sender.mine)
    /\ UNCHANGED <<today, log, stamps, tick, sender, byEngine, byWorker>>

ReminderNext ==
    \/ \E t \in Ticks :
         \/ Load(t) \/ ReadMetadata(t)
         \/ StampFails(t) \/ TickEnds(t) \/ TickDies(t)
         \/ \E stage \in Stages, p \in People : ClaimGroup(t, stage, p)
         \/ \E k \in Key : ClaimRow(t, k)
         \/ \E delivered, throws \in BOOLEAN : SendGroup(t, delivered, throws)
         \/ \E ok \in BOOLEAN : SettleLogs(t, ok)
         \/ \E b \in Bills : StampCharge(t, b)
    \/ WorkerReads \/ WorkerKilled \/ DayPasses \/ Change
    \/ \E delivered \in BOOLEAN : RemindMember(delivered)
    \/ \E b \in Bills : StampFromRead(b)

ReminderSpec == ReminderInit /\ [][ReminderNext]_reminderVars

-----------------------------------------------------------------------------
RemindersTypeOK ==
    /\ today \in 0..LastWindow /\ ruleOn \in BOOLEAN /\ accounts \subseteq People
    /\ log \in [Key -> {"none", "claimed", "sent", "failed"}]
    /\ stamps \in [Bills -> SUBSET Stages]
    /\ tick \in [Ticks -> {NoTick} \cup Tick]
    /\ sender \in {NoSender} \cup Sender
    /\ byEngine \in [Key -> Nat] /\ byWorker \in [Key -> Nat]
    /\ contested \subseteq Bills
    /\ mishaps \in 0..MaxMishaps

\* Nobody hears twice of one stage of a charge: not from two ticks, however they
\* overlap and wherever one dies, and neither program "repeats a stage the other
\* sent" unless a stamp was lost or the rule or an account changed under them.
RemindedOnce ==
    \A k \in Key :
        /\ byEngine[k] <= 1
        /\ k.bill \notin contested => byEngine[k] + byWorker[k] <= 1
=============================================================================
