------------------------------- MODULE MCMoney -------------------------------
(* Three parts in one run: the routes by themselves, with two functions and   *)
(* one split payment among others; the billing worker with one function that  *)
(* books what it takes; and the dues reminders.                               *)
EXTENDS BillingWorker, Reminders

VARIABLE part

CONSTANTS Routes, Worker, Reminding, OneFunction, OneIntent

\* Three different parts; what the routes begin with is due within the days there are.
ASSUME PartsAssumption ==
    /\ Worker \notin {Routes, Reminding} /\ Routes # Reminding
    /\ Periods \subseteq 0..LastDay + Ahead

Prices == [c \in Charges |-> IF c \in Periods THEN 2 ELSE 1]
DueDays == [p \in Periods |-> IF p = 1 THEN 1 ELSE 4]

AtOnce == [b \in Bills |-> 0]

vars == <<billingVars, reminderVars, part>>

OnlyBooking ==
    /\ \A f \in Functions : IF f = OneFunction THEN fun[f].do # "linking" ELSE fun[f] = Free
    /\ \A i \in Intents : intent[i] = NoIntent \/ i = OneIntent
    /\ \A i \in Intents : <<i, "refunding">> \notin happened

OneExtra ==     \* a failure, or a refund, a repetition or an offline payment
    /\ repeats + faults <= 1
    /\ \A i \in Intents \ {OneIntent} : intent[i].charges = {}

Init ==
    /\ ReminderInit
    /\ \/ part = Worker /\ BillingInit
       \/ part \in {Routes, Reminding} /\ PaymentsInit(Periods)
            /\ day = 1 /\ floor = 0 /\ worker = Asleep /\ keys = {}
            /\ rows = [c \in Charges |-> 1] /\ canceled = {}
    /\ part # Reminding => ruleOn /\ accounts = {}

InWorker(action) ==
    part = Worker /\ action /\ OnlyBooking' /\ UNCHANGED <<reminderVars, part>>
Next ==
    \/ InWorker(BillingNext)
    \/ part = Routes /\ PaymentsAlone /\ OneExtra' /\ UNCHANGED <<workerVars, reminderVars, part>>
    \/ part = Reminding /\ ReminderNext /\ UNCHANGED <<billingVars, part>>

\* Days pass, the workflow runs again and again, and a run goes on until it ends.
Spec ==
    /\ Init /\ [][Next]_vars
    /\ WF_vars(InWorker(Begin)) /\ WF_vars(InWorker(WorkerStep)) /\ SF_vars(InWorker(NextDay))

\* All parts are well typed.
TypeOK == BillingTypeOK /\ RemindersTypeOK
=============================================================================
