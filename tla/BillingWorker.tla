---------------------------- MODULE BillingWorker ----------------------------
(***************************************************************************)
(* scripts/billing-worker.ts with core/shared/billing/engine.ts: the daily *)
(* run that charges a schedule's dues, adds late fees, marks what is       *)
(* overdue and takes autopay, for one unit and its owner; the reminders it *)
(* sends afterwards only read the charges and are left out.  A run reads   *)
(* everything at its start and writes row by row; it may be killed         *)
(* anywhere, repeated the same day or dropped, but two runs never overlap  *)
(* (the workflow's concurrency group).  Days are numbers, not a calendar.  *)
(***************************************************************************)
EXTENDS Payments

CONSTANTS
    Periods,      \* 1..n: each has the charge p and the late fee FeeOf(p)
    DueOn,        \* the day a period starts and its dues are due
    Ahead,        \* generate_days_ahead
    Grace,        \* payment_grace_period_days
    AutopayDays,  \* days on which the member's method is charged
    LastDay       \* bound: days

FeeOf(p) == p + Cardinality(Periods)
ASSUME BillingConstants ==
    /\ Periods = 1..Cardinality(Periods)
    /\ Charges = Periods \cup {FeeOf(p) : p \in Periods}
    /\ DueOn \in [Periods -> Nat] /\ Ahead \in Nat /\ Grace \in Nat
    /\ LastDay \in Nat \ {0}

VARIABLES
    day,
    floor,     \* last_generated_period
    worker,    \* the run's place, what it read, and what is left of its step
    keys,      \* days whose autopay idempotency key was used at Stripe
    rows,      \* (history) rows written of each charge since one was canceled
    canceled   \* (history) charges the board has canceled

workerVars == <<day, floor, worker, keys, rows, canceled>>
billingVars == <<paymentVars, workerVars>>

Asleep == [at |-> "none"]

BillingInit ==
    /\ NothingPaid
    /\ charge = [c \in Charges |-> NoCharge]
    /\ day = 1 /\ floor = 0 /\ worker = Asleep /\ keys = {}
    /\ rows = [c \in Charges |-> 0] /\ canceled = {}

Known == {c \in Charges : worker.seen[c].status \notin {"none", "canceled"}}
At(place) == worker.at = place

\* periodsFor and chargesDueForPeriod: the periods whose dues are due within the
\* days ahead, after the last one generated, that have no charge yet.
Drafts(seen) ==
    {p \in Periods : /\ DueOn[p] <= day + Ahead /\ p > floor
                     /\ seen[p].status \in {"none", "canceled"}}

\* runOrg reads the schedules, the members, their units and the charges at once.
BeginStampingFirst ==     \* (mutant: last_generated_period is written before the charges)
    /\ worker = Asleep
    /\ worker' = [at |-> "generate", seen |-> charge, todo |-> Drafts(charge), newest |-> floor]
    /\ floor' = IF Drafts(charge) = {} THEN floor ELSE Max(Drafts(charge))
    /\ UNCHANGED <<paymentVars, day, keys, rows, canceled>>
Begin ==
    /\ worker = Asleep
    /\ worker' = [at |-> "generate", seen |-> charge, todo |-> Drafts(charge), newest |-> floor]
    /\ UNCHANGED <<paymentVars, day, floor, keys, rows, canceled>>

Insert(c, due) ==
    LET row == [status |-> "active", paid |-> 0, due |-> due]
    IN /\ charge' = [charge EXCEPT ![c] = row]
       /\ rows' = [rows EXCEPT ![c] = @ + 1]
       /\ worker' = [worker EXCEPT !.todo = @ \ {c}, !.seen[c] = row,
                                   !.newest = IF c \in Periods THEN c ELSE @]

GenerateCharge ==
    /\ At("generate") /\ worker.todo # {}
    /\ LET p == Min(worker.todo) IN Insert(p, DueOn[p])
    /\ UNCHANGED <<intent, happened, answered, booked, fun, told, raced, met, repeats, faults,
                   day, floor, keys, canceled>>

\* lateFeesToApply, once per charge: open charges past the grace period without a
\* fee that was not canceled.
LateDays(c) == worker.seen[c].due + Grace < day
Overdue(c) == c \in Known /\ Open(c, worker.seen[c]) /\ LateDays(c)
FeesAgain == {FeeOf(p) : p \in {q \in Periods : Overdue(q)}}   \* (mutant: fees on record do not count)
FeesDue == {FeeOf(p) : p \in {q \in Periods : Overdue(q) /\ FeeOf(q) \notin Known}}
PatchSchedule ==
    /\ At("generate") /\ worker.todo = {}
    /\ floor' = worker.newest
    /\ worker' = [worker EXCEPT !.at = "fees", !.todo = FeesDue]
    /\ UNCHANGED <<paymentVars, day, keys, rows, canceled>>

ApplyFee ==
    /\ At("fees") /\ worker.todo # {}
    /\ Insert(Min(worker.todo), day)
    /\ UNCHANGED <<intent, happened, answered, booked, fun, told, raced, met, repeats, faults,
                   day, floor, keys, canceled>>

\* Open charges past the grace period read as overdue from here on, whatever was
\* paid since they were read.
ToMark == {p \in Periods : Overdue(p) /\ worker.seen[p].status # "overdue"}
MarkOverdue ==
    /\ At("fees") /\ worker.todo = {}
    /\ IF ToMark = {} THEN worker' = [worker EXCEPT !.at = "autopay"] /\ UNCHANGED <<charge, met>>
       ELSE LET p == Min(ToMark)
            IN /\ charge' = [charge EXCEPT ![p].status = "overdue"]
               /\ worker' = [worker EXCEPT !.seen[p].status = "overdue"]
               /\ met' = (met \/ Remaining(p, charge[p].paid) = 0)
    /\ UNCHANGED <<intent, happened, answered, booked, fun, told, raced, repeats, faults,
                   day, floor, keys, rows, canceled>>

\* runAutopay: one intent for everything the member has open, oldest first, under
\* a key of the day; or a decline, or nobody to charge.
OpenSeen == {c \in Known : Open(c, worker.seen[c])}
Autopay(i, declined) ==
    /\ At("autopay")
    /\ worker' = Asleep
    /\ IF day \in AutopayDays \ keys /\ OpenSeen # {}
       THEN /\ keys' = keys \cup {day}
            /\ IF declined THEN UNCHANGED paymentVars
               ELSE Collect(i, OpenSeen,
                      CHOOSE c \in OpenSeen : \A d \in OpenSeen \ {c} :
                        \/ worker.seen[c].due < worker.seen[d].due
                        \/ worker.seen[c].due = worker.seen[d].due /\ c < d,
                      MapThenSumSet(LAMBDA c : Remaining(c, worker.seen[c].paid), OpenSeen))
       ELSE UNCHANGED <<paymentVars, keys>>
    /\ UNCHANGED <<day, floor, rows, canceled>>

\* A request fails, and runOrg gives the organization up for the day; or the
\* workflow is killed.  What was asked may have been done.
RunEnds ==
    /\ worker # Asleep
    /\ Fault
    /\ worker' = Asleep
    /\ UNCHANGED <<charge, intent, happened, answered, booked, fun, told, raced, met, repeats,
                   day, floor, keys, rows, canceled>>

\* The board cancels a charge on the payments page, where it is not yet paid.
Cancel(c) ==
    /\ charge[c].status \in {"active", "overdue", "partially_paid"}
    /\ Repeat
    /\ charge' = [charge EXCEPT ![c].status = "canceled"]
    /\ canceled' = canceled \cup {c}
    /\ rows' = [rows EXCEPT ![c] = 0]
    /\ met' = TRUE
    /\ UNCHANGED <<intent, happened, answered, booked, fun, told, raced, faults,
                   day, floor, worker, keys>>

NextDay ==
    /\ worker = Asleep
    /\ day < LastDay
    /\ day' = day + 1
    /\ UNCHANGED <<paymentVars, floor, worker, keys, rows, canceled>>

WorkerStep ==
    \/ GenerateCharge \/ PatchSchedule \/ ApplyFee \/ MarkOverdue
    \/ \E i \in Intents, declined \in BOOLEAN : Autopay(i, declined)

BillingNext ==
    \/ PaymentsNext /\ UNCHANGED workerVars
    \/ Begin \/ WorkerStep \/ RunEnds \/ NextDay
    \/ \E c \in Charges : Cancel(c)

BillingSpec == BillingInit /\ [][BillingNext]_billingVars

-----------------------------------------------------------------------------
Statuses == {"none", "active", "partially_paid", "paid", "overdue", "canceled"}
BillingTypeOK ==
    /\ charge \in [Charges -> [status : Statuses, paid : Int, due : 0..LastDay + Ahead]]
    /\ intent \in [Intents -> [charges : SUBSET Charges, request : Charges \cup {0}, amount : Nat]]
    /\ happened \subseteq Intents \X {"booking", "linking", "refunding"}
    /\ answered \subseteq happened
    /\ booked \in Seq([intent : Intents \cup {Manual}, amount : Nat \ {0},
                       status : {"succeeded", "refunded"}, request : Charges, linked : BOOLEAN])
    /\ told \in [Intents -> Nat] /\ raced \subseteq Intents /\ met \in BOOLEAN
    /\ day \in 1..LastDay /\ floor \in {0} \cup Periods /\ keys \subseteq 1..LastDay

\* No period is charged twice and no charge gets two late fees, however often a
\* run is killed and repeated ("A run can be repeated, delayed, or run twice in a
\* morning without a duplicate").
ChargedOnce == \A c \in Charges : rows[c] <= 1

\* Every period's dues are charged in the end, whatever dies in between.
DuesGetCharged ==
    \A p \in Periods : DueOn[p] <= day + Ahead ~> rows[p] > 0 \/ p \in canceled
=============================================================================
