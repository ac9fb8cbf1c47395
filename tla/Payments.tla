------------------------------ MODULE Payments ------------------------------
(***************************************************************************)
(* How money reaches a member's charges: api/stripe/webhook.post.ts's      *)
(* payment handlers, retried by Stripe and running at the same time, and   *)
(* api/org/payments/record.post.ts, an admin recording an offline payment. *)
(* A step is one Directus request.  The webhook's handlers swallow every   *)
(* error and answer 200, so only a killed function is retried.             *)
(***************************************************************************)
EXTENDS Integers, Sequences, FiniteSets, FiniteSetsExt, SequencesExt

CONSTANTS
    Charges,    \* ids of payment_requests, in the order of their creation
    Price,      \* what each is for, in cents
    Intents,    \* payment intents
    Events,     \* which of booking (payment_intent.succeeded), linking
                \* (charge.succeeded) and refunding (charge.refunded) Stripe sends
    Functions,  \* invocations of the two routes
    MaxRepeats, \* bound: refunds, offline payments, events delivered again
    MaxFaults   \* bound: failed requests and killed functions

Manual == "manual"    \* in the place of an intent: a payment that was recorded by hand

ASSUME PaymentConstants ==
    /\ Charges \subseteq Nat /\ IsFiniteSet(Charges) /\ Price \in [Charges -> Nat \ {0}]
    /\ Manual \notin Intents
    /\ Events \subseteq {"booking", "linking", "refunding"}
    /\ MaxRepeats \in Nat /\ MaxFaults \in Nat

VARIABLES
    charge,     \* payment_requests: status, amount_paid, due_date
    intent,     \* Stripe's payment intents: charge_ids, the linked request, amount
    happened,   \* <<intent, event>> that happened at Stripe
    answered,   \* those answered with a 200
    booked,     \* payment_transactions, in the order they are written
    fun,        \* what every invocation is doing, and what it read
    told,       \* Community Ledger entries of each intent
    raced,      \* (history) intents of which two bookings overlapped
    met,        \* (history) two writers of amounts overlapped, one stopped short,
                \* or a refund was handled twice
    repeats, faults

paymentVars == <<charge, intent, happened, answered, booked, fun, told, raced, met, repeats, faults>>

NoIntent == [charges |-> {}, request |-> 0, amount |-> 0]
NoCharge == [status |-> "none", paid |-> 0, due |-> 0]
Free == [do |-> "none"]
NoShares == [c \in {} |-> 0]
OneShare(c, amount) == [d \in {c} |-> amount]

Issued == {c \in Charges : charge[c].status # "none"}
Amount(c) == Price[c]
Remaining(c, paid) == IF Amount(c) > paid THEN Amount(c) - paid ELSE 0
Open(c, row) == row.status \in {"active", "partially_paid", "overdue"} /\ Remaining(c, row.paid) > 0

Older(c, d) == charge[c].due < charge[d].due \/ (charge[c].due = charge[d].due /\ c < d)

Active == {f \in Functions : fun[f] # Free}
FunAt(f, do, place) == fun[f].do = do /\ fun[f].at = place
Booking(i) == {f \in Active : fun[f].do = "booking" /\ fun[f].intent = i}
MoneyWriters == {f \in Active : fun[f].do # "linking"}
Repeat == repeats < MaxRepeats /\ repeats' = repeats + 1
Fault == faults < MaxFaults /\ faults' = faults + 1

NothingPaid ==
    /\ intent = [i \in Intents |-> NoIntent]
    /\ happened = {} /\ answered = {} /\ booked = <<>>
    /\ fun = [f \in Functions |-> Free]
    /\ told = [i \in Intents |-> 0]
    /\ raced = {} /\ met = FALSE
    /\ repeats = 0 /\ faults = 0

-----------------------------------------------------------------------------
\* An intent that is created succeeds; Stripe refunds it later.
Collect(i, charges, request, amount) ==
    /\ intent[i] = NoIntent
    /\ intent' = [intent EXCEPT ![i] = [charges |-> charges, request |-> request, amount |-> amount]]
    /\ happened' = happened \cup ({i} \X (Events \ {"refunding"}))
    /\ UNCHANGED <<charge, answered, booked, fun, told, raced, met, repeats, faults>>

\* The member's Pay button: what is left of one open charge.
Pay(i, c) == Open(c, charge[c]) /\ Collect(i, {}, c, Remaining(c, charge[c].paid))

\* The autopay worker's intent for several open charges, as long as nothing has
\* changed since it read them; BillingWorker has it with the run around it.
PaySeveral(i, charges) ==
    /\ \A c \in charges : Open(c, charge[c])
    /\ Collect(i, charges, CHOOSE c \in charges : \A d \in charges \ {c} : Older(c, d),
               MapThenSumSet(LAMBDA c : Remaining(c, charge[c].paid), charges))

Refund(i) ==
    /\ "refunding" \in Events
    /\ intent[i] # NoIntent
    /\ <<i, "refunding">> \notin happened
    /\ Repeat
    /\ happened' = happened \cup {<<i, "refunding">>}
    /\ UNCHANGED <<charge, intent, answered, booked, fun, told, raced, met, faults>>

Enter(f, do, i, c) ==
    /\ fun[f] = Free
    /\ fun' = [fun EXCEPT ![f] = [do |-> do, at |-> "read", intent |-> i, charge |-> c,
                                  seen |-> NoCharge, left |-> NoShares]]
    /\ met' = (met \/ (do # "linking" /\ MoneyWriters # {})
                   \/ (do = "refunding" /\ <<i, do>> \in answered))
    /\ UNCHANGED <<charge, intent, happened, booked, told>>

\* payment_intent.succeeded, charge.succeeded and charge.refunded are delivered in
\* any order, at least once.
Deliver(f, i, event) ==
    /\ <<i, event>> \in happened
    /\ IF <<i, event>> \in answered \/ \E g \in Active : fun[g].do = event /\ fun[g].intent = i
       THEN Repeat ELSE UNCHANGED repeats
    /\ raced' = IF event = "booking" /\ Booking(i) # {} THEN raced \cup {i} ELSE raced
    /\ Enter(f, event, i, 0)
    /\ UNCHANGED <<answered, faults>>

\* An admin records an offline payment of a charge.
RecordOffline(f, c) ==
    /\ c \in Issued
    /\ Repeat
    /\ Enter(f, "recording", Manual, c)
    /\ UNCHANGED <<answered, raced, faults>>

Goto(f, place) == fun' = [fun EXCEPT ![f].at = place]
Answer(f) ==
    /\ fun' = [fun EXCEPT ![f] = Free]
    /\ answered' = IF fun[f].intent = Manual THEN answered
                   ELSE answered \cup {<<fun[f].intent, fun[f].do>>}

-----------------------------------------------------------------------------
\* handlePaymentIntentSucceeded: an intent with a succeeded transaction was booked.
Row(i, amount, request) ==
    [intent |-> i, amount |-> amount, status |-> "succeeded", request |-> request, linked |-> FALSE]
AlreadyBookedNever(i) == FALSE     \* (mutant: no duplicate guard)
AlreadyBooked(i) == \E n \in DOMAIN booked : booked[n].intent = i /\ booked[n].status = "succeeded"
CheckBooked(f) ==
    /\ FunAt(f, "booking", "read")
    /\ IF AlreadyBooked(fun[f].intent) THEN Answer(f)
       ELSE Goto(f, "create") /\ UNCHANGED answered
    /\ UNCHANGED <<charge, intent, happened, booked, told, raced, met, repeats, faults>>

CreateTransaction(f) ==
    /\ FunAt(f, "booking", "create")
    /\ LET i == fun[f].intent
           request == intent[i].request
       IN /\ booked' = Append(booked, Row(i, intent[i].amount, request))
          /\ IF intent[i].charges # {} THEN Goto(f, "split")
             ELSE fun' = [fun EXCEPT ![f].at = "update",
                                     ![f].left = OneShare(request, intent[i].amount)]
    /\ UNCHANGED <<charge, intent, happened, answered, told, raced, met, repeats, faults>>

\* splitPaymentAcrossCharges: the oldest due first, each up to what it lacks, and
\* whatever is left over on the last.
NewestFirst(c, d) == Older(d, c)     \* (mutant: sorted the other way)
InTurn(c, d) == Older(c, d)
Shares(charges, amount) ==
    LET lacks(c) == Remaining(c, charge[c].paid)
        left(c) == amount - MapThenSumSet(lacks, {d \in charges : InTurn(d, c)})
        last(c) == \A d \in charges \ {c} : InTurn(d, c)
        share(c) == IF left(c) <= 0 THEN 0
                    ELSE IF last(c) \/ left(c) < lacks(c) THEN left(c) ELSE lacks(c)
    IN [c \in {d \in charges : share(d) > 0} |-> share(c)]
Split(f) ==
    /\ FunAt(f, "booking", "split")
    /\ LET i == fun[f].intent
       IN fun' = [fun EXCEPT ![f].at = "update", ![f].left = Shares(intent[i].charges, intent[i].amount)]
    /\ UNCHANGED <<charge, intent, happened, answered, booked, told, raced, met, repeats, faults>>

\* updatePaymentRequest: read the charge, then write what was read and the share.
Current(f) ==
    CHOOSE c \in DOMAIN fun[f].left : \A d \in DOMAIN fun[f].left \ {c} : Older(c, d)
WithoutCurrent(f) == [c \in DOMAIN fun[f].left \ {Current(f)} |-> fun[f].left[c]]
ReadCharge(f) ==
    /\ fun[f] # Free /\ fun[f].at = "update" /\ fun[f].left # NoShares
    /\ fun' = [fun EXCEPT ![f].at = "write", ![f].seen = charge[Current(f)]]
    /\ UNCHANGED <<charge, intent, happened, answered, booked, told, raced, met, repeats, faults>>

StatusOf(c, paid) == IF paid >= Amount(c) THEN "paid" ELSE "partially_paid"
NewPaidForgets(seen, share) == share     \* (mutant: what was paid before is forgotten)
NewPaid(seen, share) == seen.paid + share
WriteCharge(f) ==
    /\ fun[f] # Free /\ fun[f].at = "write"
    /\ LET c == Current(f)
           paid == NewPaid(fun[f].seen, fun[f].left[c])
       IN charge' = [charge EXCEPT ![c].paid = paid, ![c].status = StatusOf(c, paid)]
    /\ fun' = [fun EXCEPT ![f].at = "update", ![f].left = WithoutCurrent(f)]
    /\ UNCHANGED <<intent, happened, answered, booked, told, raced, met, repeats, faults>>

\* recordPaymentInLedger, which never throws.
WriteLedger(f) ==
    /\ FunAt(f, "booking", "update") /\ fun[f].left = NoShares
    /\ told' = [told EXCEPT ![fun[f].intent] = @ + 1]
    /\ Answer(f)
    /\ UNCHANGED <<charge, intent, happened, booked, raced, met, repeats, faults>>

-----------------------------------------------------------------------------
RowsOf(i) == {n \in DOMAIN booked : booked[n].intent = i}
LinkedRows(i) == {n \in RowsOf(i) : booked[n].linked}

\* handleChargeSucceeded: the intent's transaction gets its charge, if it is there.
Link(f) ==
    /\ FunAt(f, "linking", "read")
    /\ LET rows == RowsOf(fun[f].intent)
       IN booked' = IF rows = {} THEN booked ELSE [booked EXCEPT ![Min(rows)].linked = TRUE]
    /\ Answer(f)
    /\ UNCHANGED <<charge, intent, happened, told, raced, met, repeats, faults>>

\* handleChargeRefunded: the transaction of that charge, and the whole amount off
\* the one request it is linked to.
MarkRefunded(f) ==
    /\ FunAt(f, "refunding", "read")
    /\ LET rows == LinkedRows(fun[f].intent)
           row == booked[Min(rows)]
       IN IF rows = {} THEN Answer(f) /\ UNCHANGED booked
          ELSE /\ booked' = [booked EXCEPT ![Min(rows)].status = "refunded"]
               /\ fun' = [fun EXCEPT ![f].at = "update",
                                     ![f].left = OneShare(row.request, -row.amount)]
               /\ UNCHANGED answered
    /\ UNCHANGED <<charge, intent, happened, told, raced, met, repeats, faults>>
RefundDone(f) ==
    /\ FunAt(f, "refunding", "update") /\ fun[f].left = NoShares
    /\ Answer(f)
    /\ UNCHANGED <<charge, intent, happened, booked, told, raced, met, repeats, faults>>

-----------------------------------------------------------------------------
\* record.post.ts: a settled charge is left alone, any other is settled with what
\* it lacked, and by all of it when it lacked nothing.
Settled(row) == row.status = "paid"
ReadForRecord(f) ==
    /\ FunAt(f, "recording", "read")
    /\ LET row == charge[fun[f].charge]
       IN IF Settled(row) THEN fun' = [fun EXCEPT ![f] = Free]
          ELSE fun' = [fun EXCEPT ![f].seen = row, ![f].at = "create"]
    /\ UNCHANGED <<charge, intent, happened, answered, booked, told, raced, met, repeats, faults>>
OfflineRemaining(c, paid) == Remaining(c, paid)     \* (mutant: even if that is nothing)
OfflineAmount(c, paid) == IF Remaining(c, paid) > 0 THEN Remaining(c, paid) ELSE Amount(c)
BookOffline(f) ==
    /\ FunAt(f, "recording", "create")
    /\ LET c == fun[f].charge
       IN booked' = Append(booked, Row(Manual, OfflineAmount(c, fun[f].seen.paid), c))
    /\ Goto(f, "settle")
    /\ UNCHANGED <<charge, intent, happened, answered, told, raced, met, repeats, faults>>
Settle(f) ==
    /\ FunAt(f, "recording", "settle")
    /\ LET c == fun[f].charge
       IN charge' = [charge EXCEPT ![c].status = "paid", ![c].paid = Amount(c)]
    /\ fun' = [fun EXCEPT ![f] = Free]
    /\ UNCHANGED <<intent, happened, answered, booked, told, raced, met, repeats, faults>>

-----------------------------------------------------------------------------
\* A Directus request of the webhook fails.  updatePaymentRequest goes on with the
\* next share and splitPaymentAcrossCharges with the ledger; elsewhere the handler
\* ends, answering 200.
RequestFails(f) ==
    /\ fun[f] # Free /\ fun[f].do # "recording"
    /\ Fault
    /\ met' = (met \/ fun[f].at \in {"update", "write", "split"})
    /\ CASE fun[f].at \in {"update", "write"} /\ fun[f].left # NoShares ->
              fun' = [fun EXCEPT ![f].at = "update", ![f].left = WithoutCurrent(f)] /\ UNCHANGED answered
         [] fun[f].at = "split" -> Goto(f, "update") /\ UNCHANGED answered
         [] OTHER -> Answer(f)
    /\ UNCHANGED <<charge, intent, happened, booked, told, raced, repeats>>

\* The function is killed; record.post.ts's failures end it the same way.
Killed(f) ==
    /\ fun[f] # Free
    /\ Fault
    /\ met' = (met \/ fun[f].at \in {"split", "update", "write", "settle"})
    /\ fun' = [fun EXCEPT ![f] = Free]
    /\ UNCHANGED <<charge, intent, happened, answered, booked, told, raced, repeats>>

FunctionStep(f) ==
    \/ CheckBooked(f) \/ CreateTransaction(f) \/ Split(f) \/ ReadCharge(f) \/ WriteCharge(f)
    \/ WriteLedger(f) \/ Link(f) \/ MarkRefunded(f) \/ RefundDone(f)
    \/ ReadForRecord(f) \/ BookOffline(f) \/ Settle(f)

PaymentsNext ==
    \/ \E f \in Functions :
         \/ FunctionStep(f) \/ RequestFails(f) \/ Killed(f)
         \/ \E i \in Intents, event \in Events : Deliver(f, i, event)
         \/ \E c \in Charges : RecordOffline(f, c)
    \/ \E i \in Intents : Refund(i) \/ \E c \in Charges : Pay(i, c)

\* The routes by themselves: charges that were issued on different days.
PaymentsInit(issued) ==
    /\ NothingPaid
    /\ charge = [c \in Charges |->
                   IF c \in issued THEN [status |-> "active", paid |-> 0, due |-> c] ELSE NoCharge]
PaymentsAlone ==
    \/ PaymentsNext
    \/ \E i \in Intents, charges \in (SUBSET Charges) \ {{}} : PaySeveral(i, charges)

PaymentsSpec == PaymentsInit(Charges) /\ [][PaymentsAlone]_paymentVars

-----------------------------------------------------------------------------
Quiet == Active = {}
Amounts(rows) == MapThenSumSet(LAMBDA n : booked[n].amount, rows)
Succeeded == {n \in DOMAIN booked : booked[n].status = "succeeded"}

\* A payment is booked once and told once however often Stripe delivers it and
\* wherever a function dies, unless two deliveries overlap ("the duplicate guard
\* above already makes it exactly-once"); a refunded one is not looked at.
BookedOnce ==
    \A i \in Intents \ raced :
        <<i, "refunding">> \notin happened => Cardinality(RowsOf(i)) <= 1 /\ told[i] <= 1

\* What the charges say was paid is what the transactions say was received, for
\* online, offline, split and refunded payments together, as long as no two
\* writers of amounts meet and none stops short.
MoneyAddsUp ==
    Quiet /\ ~met =>
        MapThenSumSet(LAMBDA c : charge[c].paid, Charges) = Amounts(Succeeded)

\* However a payment is split, the shares are the payment, and no charge gets a
\* cent before every older one is covered (splitPaymentAcrossCharges).
SplitOldestFirst ==
    Quiet => \A charges \in (SUBSET Issued) \ {{}}, amount \in 1..MapThenSumSet(Amount, Issued) :
        LET s == Shares(charges, amount)
        IN /\ MapThenSumSet(LAMBDA c : s[c], DOMAIN s) = amount
           /\ \A c \in charges, d \in DOMAIN s :
                Older(c, d) /\ Remaining(c, charge[c].paid) > 0
                  => c \in DOMAIN s /\ s[c] >= Remaining(c, charge[c].paid)

\* Every event handled, a refunded payment's transaction reads refunded ("Refunds
\* flow back through charge.refunded").
RefundFlowsBack ==
    \A n \in Succeeded :
        Quiet /\ happened \subseteq answered /\ faults = 0 =>
            <<booked[n].intent, "refunding">> \notin happened
=============================================================================
