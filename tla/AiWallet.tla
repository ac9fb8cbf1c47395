------------------------------ MODULE AiWallet ------------------------------
(***************************************************************************)
(* core/server/utils/ai-wallet.ts: an organization's AI-credit wallet, the *)
(* allowance that resets each month, the purchased credits that do not,    *)
(* and the ai_transactions ledger.  Every operation reads the wallet,      *)
(* computes, writes the pools and then appends its ledger row, each in a   *)
(* request of its own and without a lock.  chargeForEmbedding and          *)
(* rag-ingest.ts's chargeEmbeddingRest meter exactly as                    *)
(* chargeForCompletion does: all three are the operation "charge".         *)
(***************************************************************************)
EXTENDS Integers, Sequences, FiniteSets, FiniteSetsExt, SequencesExt

CONSTANTS
    Purchases,  \* credit packs bought, each with its payment intent
    Pack,       \* credits in a pack
    Included,   \* the plan's monthly credits
    Costs,      \* what a completion or an embedding may cost, in credits
    Invocations,
    MaxCalls,   \* bound: charges, balance reads, repeated deliveries, new months
    MaxMishaps  \* bound: failed requests and killed functions

ASSUME WalletConstants ==
    /\ Pack \in Nat \ {0} /\ Included \in Nat \ {0} /\ Costs \subseteq Nat \ {0}
    /\ MaxCalls \in Nat /\ MaxMishaps \in Nat /\ IsFiniteSet(Purchases)

VARIABLES
    wallets,    \* rows of ai_wallets, the oldest first: only that one is read
    entries,    \* ai_transactions, the oldest first
    op,         \* what every invocation is doing, and the wallet it read
    paid,       \* purchases Stripe took the money for
    answered,   \* the 200 of each purchase's event, after which Stripe stops
                \* retrying: none yet, after its work, or after an error
    credited,   \* (history) times a pack was written into a pool
    spent,      \* (history) purchased credits taken by charges
    contested,  \* (history) packs whose deliveries overlapped, or of which one
                \* ended between the pools and the ledger row
    met,        \* (history) a charge or a credit overlapped another, or ended
                \* before its ledger row
    mixed,      \* (history) as met, resets included
    lapsed,     \* (history) allowance left over that resets read and wrote over
    calls, mishaps

walletVars == <<wallets, entries, op, paid, answered, credited, spent, contested,
                met, mixed, lapsed, calls, mishaps>>

NewWallet == [allowance |-> 0, purchased |-> 0, fresh |-> FALSE]
Unused == [do |-> "none"]
Entry == [type : {"debit", "purchase", "grant"}, credits : Nat, purchase : Purchases \cup {"none"}]
Operation ==
    [do : {"charge", "credit", "summary"}, at : {"check", "find", "create", "write", "entry"},
     credits : Nat, purchase : Purchases \cup {"none"},
     id : Nat, seen : [allowance : Nat, purchased : Nat, fresh : BOOLEAN]]

WalletInit ==
    /\ wallets = <<>> /\ entries = <<>>
    /\ op = [i \in Invocations |-> Unused]
    /\ paid = {} /\ answered = [p \in Purchases |-> "none"]
    /\ credited = [p \in Purchases |-> 0] /\ spent = 0
    /\ contested = {} /\ met = FALSE /\ mixed = FALSE /\ lapsed = 0
    /\ calls = 0 /\ mishaps = 0

Busy == {i \in Invocations : op[i] # Unused}
Writers == {i \in Busy : op[i].do # "summary"}
OpAt(i, place) == op[i] # Unused /\ op[i].at = place
Crediting(p) == {i \in Writers : op[i].purchase = p}
Counts == calls < MaxCalls /\ calls' = calls + 1
Mishap == mishaps < MaxMishaps /\ mishaps' = mishaps + 1

Begin(i, do, credits, p) ==
    /\ op[i] = Unused
    /\ op' = [op EXCEPT ![i] =
                [do |-> do, at |-> IF do = "credit" THEN "check" ELSE "find", credits |-> credits,
                 purchase |-> p, id |-> 0, seen |-> NewWallet]]
    /\ mixed' = (mixed \/ Busy # {})
    /\ met' = (met \/ (do # "summary" /\ Writers # {}))
    /\ contested' = contested \cup {q \in Purchases : q = p /\ Crediting(p) # {}}
    /\ UNCHANGED <<wallets, entries, answered, credited, spent, lapsed>>

-----------------------------------------------------------------------------
\* getWalletSummary (before every completion, and the credits page); a completion
\* or an embedding is metered whatever the balance has become since.
ReadSummary(i) == Begin(i, "summary", 0, "none") /\ Counts /\ UNCHANGED <<paid, mishaps>>
Charge(i, cost) == Begin(i, "charge", cost, "none") /\ Counts /\ UNCHANGED <<paid, mishaps>>

\* Stripe delivers payment_intent.succeeded until it is answered, and sometimes
\* once more.
Pay(p) ==
    /\ p \notin paid
    /\ paid' = paid \cup {p}
    /\ UNCHANGED <<wallets, entries, op, answered, credited, spent, contested, met, mixed,
                   lapsed, calls, mishaps>>
Deliver(i, p) ==
    /\ p \in paid
    /\ IF answered[p] # "none" \/ Crediting(p) # {} THEN Counts ELSE UNCHANGED calls
    /\ Begin(i, "credit", Pack, p)
    /\ UNCHANGED <<paid, mishaps>>

\* creditWallet: a pack whose payment intent is in the ledger is only summarised.
AppliedNever(p) == FALSE     \* (mutant: stripe_id is not looked up)
Applied(p) == \E n \in DOMAIN entries : entries[n].purchase = p
Check(i) ==
    /\ OpAt(i, "check")
    /\ LET p == op[i].purchase
       IN op' = [op EXCEPT ![i].at = "find", ![i].do = IF Applied(p) THEN "summary" ELSE "credit"]
    /\ UNCHANGED <<wallets, entries, paid, answered, credited, spent, contested, met,
                   mixed, lapsed, calls, mishaps>>

\* The webhook answers 200 whatever happened to the pack.
Answer(i, how) ==
    answered' = [p \in Purchases |->
                   IF p = op[i].purchase /\ answered[p] = "none" THEN how ELSE answered[p]]
Finish(i) == op' = [op EXCEPT ![i] = Unused] /\ Answer(i, "done")

\* getOrCreateWallet, and ensurePlanAllowance's decision.
Proceed(i, id, wallet) ==
    IF op[i].do = "summary" /\ wallet.fresh THEN Finish(i)
    ELSE op' = [op EXCEPT ![i].at = "write", ![i].id = id, ![i].seen = wallet] /\ UNCHANGED answered
Find(i) ==
    /\ OpAt(i, "find")
    /\ IF wallets # <<>> THEN Proceed(i, 1, Head(wallets))
       ELSE op' = [op EXCEPT ![i].at = "create"] /\ UNCHANGED answered
    /\ UNCHANGED <<wallets, entries, paid, credited, spent, contested, met, mixed, lapsed,
                   calls, mishaps>>
Create(i) ==
    /\ OpAt(i, "create")
    /\ wallets' = Append(wallets, NewWallet)
    /\ Proceed(i, Len(wallets) + 1, NewWallet)
    /\ UNCHANGED <<entries, paid, credited, spent, contested, met, mixed, lapsed, calls, mishaps>>

\* A debit takes the allowance first and never more than a pool has.
Smaller(a, b) == IF a < b THEN a ELSE b
FromAllowance(w, credits) == Smaller(w.allowance, credits)
FromPurchased(w, credits) == Smaller(w.purchased, credits - FromAllowance(w, credits))
DebitedUnclamped(w, credits) ==          \* (mutant: an overrun is not clamped)
    [w EXCEPT !.allowance = @ - FromAllowance(w, credits),
              !.purchased = @ - (credits - FromAllowance(w, credits))]
Debited(w, credits) ==
    [w EXCEPT !.allowance = @ - FromAllowance(w, credits), !.purchased = @ - FromPurchased(w, credits)]

\* The pools are written from what was read; a reset writes the allowance only,
\* and a plan that cannot be read counts as one that includes nothing.
ResetWholeRow(now, seen, included) ==    \* (mutant: purchased is written back too)
    [seen EXCEPT !.allowance = included, !.fresh = TRUE]
Reset(now, seen, included) == [now EXCEPT !.allowance = included, !.fresh = TRUE]
Written(i, now, included) ==
    LET o == op[i]
        pools(w) == [now EXCEPT !.allowance = w.allowance, !.purchased = w.purchased]
    IN CASE o.do = "summary" -> Reset(now, o.seen, included)
         [] o.do = "charge" -> pools(Debited(o.seen, o.credits))
         [] o.do = "credit" -> pools([o.seen EXCEPT !.purchased = @ + o.credits])
WritePools(i, included) ==
    /\ OpAt(i, "write")
    /\ IF included = Included THEN UNCHANGED mishaps ELSE op[i].do = "summary" /\ Mishap
    /\ LET o == op[i]
       IN /\ wallets' = [wallets EXCEPT ![o.id] = Written(i, @, included)]
          /\ credited' = IF o.do = "credit" THEN [credited EXCEPT ![o.purchase] = @ + 1] ELSE credited
          /\ spent' = IF o.do = "charge" THEN spent + FromPurchased(o.seen, o.credits) ELSE spent
          /\ lapsed' = IF o.do = "summary" THEN lapsed + o.seen.allowance ELSE lapsed
          /\ IF o.do = "summary" /\ included = 0 THEN Finish(i)
             ELSE op' = [op EXCEPT ![i].at = "entry"] /\ UNCHANGED answered
    /\ UNCHANGED <<entries, paid, contested, met, mixed, calls>>

DebitOfTheAllowance(o) ==    \* (mutant: the row tells what the allowance paid)
    [type |-> "debit", credits |-> FromAllowance(o.seen, o.credits), purchase |-> "none"]
DebitOf(o) == [type |-> "debit", credits |-> o.credits, purchase |-> "none"]
WriteEntry(i) ==
    /\ OpAt(i, "entry")
    /\ entries' = Append(entries,
         CASE op[i].do = "summary" -> [type |-> "grant", credits |-> Included, purchase |-> "none"]
           [] op[i].do = "charge" -> DebitOf(op[i])
           [] op[i].do = "credit" ->
                [type |-> "purchase", credits |-> op[i].credits, purchase |-> op[i].purchase])
    /\ Finish(i)
    /\ UNCHANGED <<wallets, paid, credited, spent, contested, met, mixed, lapsed, calls, mishaps>>

\* A request fails: chat and ingest log it, and the webhook swallows it and
\* answers.  Or the function is killed, and Stripe will retry.
AnsweredFirst(i, killed) == Answer(i, "done")    \* (mutant: the 200 goes out before the work)
Answers(i, killed) == IF killed THEN UNCHANGED answered ELSE Answer(i, "error")
Breaks(i, killed) ==
    /\ i \in Busy
    /\ Mishap
    /\ op' = [op EXCEPT ![i] = Unused]
    /\ Answers(i, killed)
    /\ mixed' = (mixed \/ OpAt(i, "entry"))
    /\ met' = (met \/ (OpAt(i, "entry") /\ i \in Writers))
    /\ contested' = contested \cup {p \in Purchases : i \in Crediting(p) /\ OpAt(i, "entry")}
    /\ UNCHANGED <<wallets, entries, paid, credited, spent, lapsed, calls>>

\* period_resets_at passes; the bound on calls counts a month that begins during one.
NewMonth ==
    /\ \E n \in DOMAIN wallets : wallets[n].fresh
    /\ IF Busy = {} /\ ~mixed THEN UNCHANGED calls ELSE Counts
    /\ wallets' = [n \in DOMAIN wallets |-> [wallets[n] EXCEPT !.fresh = FALSE]]
    /\ UNCHANGED <<entries, op, paid, answered, credited, spent, contested, met, mixed, lapsed,
                   mishaps>>

WalletStep(i) ==
    Check(i) \/ Find(i) \/ Create(i) \/ WriteEntry(i) \/ \E n \in {0, Included} : WritePools(i, n)

WalletNext ==
    \/ \E i \in Invocations :
         \/ ReadSummary(i) \/ WalletStep(i)
         \/ \E cost \in Costs : Charge(i, cost)
         \/ \E p \in Purchases : Deliver(i, p)
         \/ \E killed \in BOOLEAN : Breaks(i, killed)
    \/ \E p \in Purchases : Pay(p)
    \/ NewMonth

WalletSpec == WalletInit /\ [][WalletNext]_walletVars

\* Stripe retries what was not answered.
Redeliver(p) == answered[p] = "none" /\ \E i \in Invocations : Deliver(i, p)

-----------------------------------------------------------------------------
WalletTypeOK ==
    /\ wallets \in Seq([allowance : Nat, purchased : Nat, fresh : BOOLEAN])
    /\ entries \in Seq(Entry)
    /\ \A i \in Invocations : op[i] \in {Unused} \cup Operation
    /\ paid \subseteq Purchases /\ answered \in [Purchases -> {"none", "done", "error"}]
    /\ credited \in [Purchases -> Nat] /\ spent \in Nat
    /\ contested \subseteq Purchases /\ met \in BOOLEAN /\ mixed \in BOOLEAN /\ lapsed \in Nat
    /\ calls \in 0..MaxCalls /\ mishaps \in 0..MaxMishaps

\* A pack is credited once however often Stripe delivers it, unless two
\* deliveries overlap or one dies with the pools written (creditWallet).
PackCreditedOnce == \A p \in Purchases \ contested : credited[p] <= 1

\* Whatever resets run in between - every chat turn may start one - no purchased
\* credit appears or is forgotten, as long as charges and credits do not overlap
\* (ensurePlanAllowance, "the permanent purchased pool is never touched").
PurchasesSurviveResets ==
    ~met /\ Len(wallets) = 1 =>
        Head(wallets).purchased + spent = Pack * MapThenSumSet(LAMBDA p : credited[p], Purchases)

\* So what was bought is credited once and stays (both of these).
PurchasesStand == PackCreditedOnce /\ PurchasesSurviveResets

\* deriveBalance: a credit is added to its pool, a debit is of what there is at most and
\* takes the allowance first.
Split(w, credits) ==
    [allowance |-> w.allowance - Smaller(w.allowance, credits),
     purchased |-> w.purchased - (credits - Smaller(w.allowance, credits))]
After(w, e) ==
    CASE e.type = "grant" -> [w EXCEPT !.allowance = @ + e.credits]
      [] e.type = "purchase" -> [w EXCEPT !.purchased = @ + e.credits]
      [] e.type = "debit" -> Split(w, Smaller(e.credits, w.allowance + w.purchased))
Replayed(log) == FoldLeft(After, [allowance |-> 0, purchased |-> 0], log)

\* The ledger against the wallet: no pool with less, and no more in all than the
\* allowance that lapsed.
Covers(told, kept) ==
    /\ told.allowance >= kept.allowance /\ told.purchased >= kept.purchased
    /\ told.allowance + told.purchased <= kept.allowance + kept.purchased + lapsed

\* One call after the other, the ledger tells the wallet, but for the allowance left over
\* at a new month, for which no row is written (ensurePlanAllowance): it never tells less,
\* and until some has lapsed it tells the same, whatever failed before the pools were
\* written (ai-wallet.ts:164-166, credits.ts:296-303).
LedgerCoversTheWallet ==
    ~mixed /\ Busy = {} /\ wallets # <<>> => Covers(Replayed(entries), Head(wallets))

\* A pack that was paid for reaches a pool, or its event was answered in error.
PaidArrives == \A p \in Purchases : p \in paid ~> credited[p] > 0 \/ answered[p] = "error"
=============================================================================
