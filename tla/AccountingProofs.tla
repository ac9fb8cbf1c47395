-------------------------- MODULE AccountingProofs --------------------------
(***************************************************************************)
(* The charges add up to the transactions: whatever is paid online, split, *)
(* refunded or recorded by hand, what the charges say was paid is what the *)
(* transactions say was received, unless two writers of amounts meet or    *)
(* one stops short.  And a split payment is the payment, oldest first.     *)
(***************************************************************************)
EXTENDS MoneyProofs, MCMoney

-----------------------------------------------------------------------------
(* What the charges say was paid, and what the transactions say was received *)

PaidOf == [c \in Charges |-> charge[c].paid]
AmountOf == [n \in DOMAIN booked |-> booked[n].amount]
Paid == Sum(PaidOf, Charges)
Received == Sum(AmountOf, Succeeded)

-----------------------------------------------------------------------------
(* Values *)

Oldest(c, S) == c \in S /\ \A d \in S \ {c} : Older(c, d)

ChargesTyped ==
    /\ DOMAIN charge = Charges
    /\ \A c \in Charges : ChargeRow(charge[c]) /\ charge[c].paid \in Int /\ charge[c].due \in Int

\* A payment is for charges that were issued.
Collected(i) ==
    /\ intent[i] # NoIntent
    /\ intent[i].request \in Issued /\ intent[i].charges \subseteq Issued
    /\ intent[i].amount \in Nat
IntentsTyped ==
    /\ DOMAIN intent = Intents
    /\ \A i \in Intents : intent[i] = NoIntent \/ Collected(i)
    /\ \A i \in Intents, event \in {"booking", "linking", "refunding"} :
         <<i, event>> \in happened => Collected(i)

BookedTyped ==
    \A n \in DOMAIN booked : booked[n].amount \in Int /\ booked[n].request \in Issued

PlacesOf(do) ==
    CASE do = "booking"   -> {"read", "create", "split", "update", "write"}
      [] do = "linking"   -> {"read"}
      [] do = "refunding" -> {"read", "update", "write"}
      [] do = "recording" -> {"read", "create", "settle"}
Carries(r) ==
    /\ r.at \in PlacesOf(r.do)
    /\ r.do = "recording" => r.charge \in Issued
    /\ r.left = [c \in DOMAIN r.left |-> r.left[c]]
    /\ DOMAIN r.left \subseteq Issued /\ \A c \in DOMAIN r.left : r.left[c] \in Int
    /\ r.at = "write" => DOMAIN r.left # {}
    /\ r.at = "write" \/ (r.do = "recording" /\ r.at = "create") => r.seen.paid \in Int
FunsTyped == \A f \in Functions : fun[f] # Free => Carries(fun[f])

AmountsTyped == ChargesTyped /\ IntentsTyped /\ BookedTyped /\ FunsTyped

-----------------------------------------------------------------------------
(* One writer of amounts at a time, and each of them done: the transactions are *)
(* what was paid, and what the one at work has still to write.                  *)

Owes(r) ==
    CASE r.at = "split"              -> intent[r.intent].amount
      [] r.at \in {"update", "write"} -> Sum(r.left, DOMAIN r.left)
      [] r.at = "settle"             -> Price[r.charge] - charge[r.charge].paid
      [] OTHER                       -> 0

\* It writes over the amount that it read, and splits among the charges it was told.
Read(r) ==
    /\ r.at = "split" => intent[r.intent].charges # {}
    /\ r.at = "write" => \A c \in Issued : Oldest(c, DOMAIN r.left) => r.seen.paid = charge[c].paid
    /\ r.do = "recording" /\ r.at = "create" =>
         r.seen.paid = charge[r.charge].paid /\ r.seen.paid < Price[r.charge]
    /\ r.do = "refunding" /\ r.at = "read" => <<r.intent, "refunding">> \notin answered

Balanced ==
    /\ \A f, g \in MoneyWriters : f = g
    /\ MoneyWriters = {} => Paid = Received
    /\ \A f \in MoneyWriters : Paid + Owes(fun[f]) = Received /\ Read(fun[f])

\* A payment whose refund was not handled has no refunded transaction.
Refunding(i) == {f \in MoneyWriters : fun[f].do = "refunding" /\ fun[f].intent = i}
Unrefunded(i) ==
    <<i, "refunding">> \notin answered /\ (\A f \in Refunding(i) : fun[f].at = "read")
      => \A n \in RowsOf(i) : booked[n].status = "succeeded"

\* A charge that does not read paid is not, and one that is not issued has nothing.
StatusAgrees(c) ==
    /\ charge[c].status # "paid" => charge[c].paid < Price[c]
    /\ charge[c].status = "none" => charge[c].paid = 0

BalanceInv ==
    ~met => /\ Balanced
            /\ \A i \in Intents : Unrefunded(i)
            /\ \A c \in Charges : StatusAgrees(c)
AmountsInv == AmountsTyped /\ BalanceInv

\* The worker has seen what was issued, and what has no row is not issued.
WorkerAmounts ==
    /\ day \in Int
    /\ worker # Asleep =>
         /\ \A c \in Charges : worker.seen[c].paid \in Int /\ worker.seen[c].due \in Int
         /\ \A c \in Charges : worker.seen[c].status # "none" => c \in Issued
         /\ worker.at = "generate" => worker.todo \subseteq Periods
    /\ ~met => \A c \in Charges : rows[c] = 0 => charge[c].status = "none"

-----------------------------------------------------------------------------
(* The order of charges *)

InOrder(S) == {ss \in S \X S : Older(ss[1], ss[2])}

LEMMA PriceIs == \A c \in Charges : Price[c] \in Nat /\ Price[c] > 0
BY PaymentConstants

LEMMA ChargesFinite ==
  ASSUME NEW S \in SUBSET Charges
  PROVE  IsFiniteSet(S) /\ S \subseteq Int
<1>1. IsFiniteSet(Charges) /\ Charges \subseteq Int
  BY PaymentConstants
<1> QED
  BY <1>1, FS_Subset

LEMMA OlderIs ==
  ASSUME ChargesTyped
  PROVE  /\ \A c \in Charges : ~Older(c, c)
         /\ \A c, d \in Charges : c # d => Older(c, d) \/ Older(d, c)
         /\ \A c, d, e \in Charges : Older(c, d) /\ Older(d, e) => Older(c, e)
<1>1. \A c \in Charges : c \in Int /\ charge[c].due \in Int
  BY PaymentConstants DEF ChargesTyped
<1> QED
  BY <1>1 DEF Older

LEMMA InOrderIs ==
  ASSUME NEW S, NEW c \in S, NEW d \in S
  PROVE  <<c, d>> \in InOrder(S) <=> Older(c, d)
  BY DEF InOrder

LEMMA InOrderOrders ==
  ASSUME ChargesTyped, NEW S \in SUBSET Charges
  PROVE  Orders(InOrder(S), S)
<1>1. \A c, d \in S : <<c, d>> \in InOrder(S) <=> Older(c, d)
  BY InOrderIs
<1> QED
  BY <1>1, OlderIs DEF Orders

LEMMA OldestExists ==
  ASSUME ChargesTyped, NEW S \in SUBSET Charges, S # {}
  PROVE  \E c : Oldest(c, S)
<1>1. PICK c : First(InOrder(S), S, c)
  BY ChargesFinite, InOrderOrders, FirstExists
<1> QED
  BY <1>1, InOrderIs DEF First, Oldest

LEMMA OldestUnique ==
  ASSUME ChargesTyped, NEW S \in SUBSET Charges, NEW c, Oldest(c, S), NEW d, Oldest(d, S)
  PROVE  c = d
  BY OlderIs DEF Oldest

LEMMA CurrentOldest ==
  ASSUME ChargesTyped, NEW f, DOMAIN fun[f].left \in SUBSET Charges, DOMAIN fun[f].left # {}
  PROVE  Oldest(Current(f), DOMAIN fun[f].left)
<1>1. PICK c : Oldest(c, DOMAIN fun[f].left)
  BY OldestExists
<1> QED
  BY <1>1 DEF Oldest, Current

-----------------------------------------------------------------------------
(* A payment that is split *)

LacksOf == [c \in Charges |-> Remaining(c, charge[c].paid)]

LEMMA LacksAre ==
  ASSUME ChargesTyped
  PROVE  /\ \A c \in Charges : LacksOf[c] = Remaining(c, charge[c].paid) /\ LacksOf[c] \in Nat
<1>1. \A c \in Charges : Price[c] \in Int /\ charge[c].paid \in Int
  BY PaymentConstants DEF ChargesTyped
<1> QED
  BY <1>1 DEF LacksOf, Remaining, Amount

LEMMA LacksSum ==
  ASSUME NEW T \in SUBSET Charges
  PROVE  MapThenSumSet(LAMBDA c : Remaining(c, charge[c].paid), T) = Sum(LacksOf, T)
<1> DEFINE P(it) == it = [s \in SUBSET T |->
                            IF s = {} THEN 0
                            ELSE Remaining(Chosen(s), charge[Chosen(s)].paid) + it[s \ {Chosen(s)}]]
<1>1. ASSUME NEW it PROVE P(it) <=> Sums(it, LacksOf, T)
  <2>1. \A s \in SUBSET T : s # {} =>
          LacksOf[Chosen(s)] = Remaining(Chosen(s), charge[Chosen(s)].paid)
    BY ChosenIn DEF LacksOf
  <2> QED
    BY <2>1 DEF Sums
<1>2. MapThenSumSet(LAMBDA c : Remaining(c, charge[c].paid), T) = (CHOOSE it : P(it))[T]
  BY DEF MapThenSumSet, MapThenFoldSet, Chosen
<1> HIDE DEF P
<1>3. \E it : P(it)
  BY <1>1, ChargesFinite, SumsExist
<1>4. Sums(CHOOSE it : P(it), LacksOf, T)
  BY <1>1, <1>3
<1> QED
  BY <1>2, <1>4, ChargesFinite, SumIs

\* The shares, as a function of all the charges of the payment.
Share(charges, amount, c) ==
    LET left == Remainder(InOrder(charges), charges, LacksOf, amount, c)
    IN IF left <= 0 THEN 0
       ELSE IF IsLast(InOrder(charges), charges, c) \/ left < LacksOf[c] THEN left ELSE LacksOf[c]
SharesOf(charges, amount) == [c \in charges |-> Share(charges, amount, c)]

LEMMA SharesAre ==
  ASSUME ChargesTyped, NEW charges \in SUBSET Charges, NEW amount \in Nat
  PROVE  Shares(charges, amount) =
           [c \in {d \in charges : SharesOf(charges, amount)[d] > 0} |-> SharesOf(charges, amount)[c]]
<1> DEFINE sum(c) == MapThenSumSet(LAMBDA d : Remaining(d, charge[d].paid), {d \in charges : InTurn(d, c)})
           left(c) == amount - sum(c)
           last(c) == \A d \in charges \ {c} : InTurn(d, c)
           share(c) == IF left(c) <= 0 THEN 0
                       ELSE IF last(c) \/ left(c) < Remaining(c, charge[c].paid) THEN left(c)
                       ELSE Remaining(c, charge[c].paid)
<1>1. Shares(charges, amount) = [c \in {d \in charges : share(d) > 0} |-> share(c)]
  BY DEF Shares
<1>2. ASSUME NEW c \in charges PROVE share(c) = Share(charges, amount, c)
  <2>1. {d \in charges : InTurn(d, c)} = {d \in charges : <<d, c>> \in InOrder(charges)}
    BY InOrderIs DEF InTurn
  <2>2. sum(c) = Sum(LacksOf, {d \in charges : <<d, c>> \in InOrder(charges)})
    BY <2>1, LacksSum
  <2>3. left(c) = Remainder(InOrder(charges), charges, LacksOf, amount, c)
    BY <2>2 DEF Remainder
  <2>4. last(c) <=> IsLast(InOrder(charges), charges, c)
    BY InOrderIs DEF IsLast, InTurn
  <2>5. LacksOf[c] = Remaining(c, charge[c].paid)
    BY LacksAre
  <2> HIDE DEF left, last
  <2> QED
    BY <2>3, <2>4, <2>5 DEF Share
<1> HIDE DEF share
<1> QED
  BY <1>1, <1>2 DEF SharesOf

LEMMA SharesFill ==
  ASSUME NEW charges, NEW amount
  PROVE  FillsUp(InOrder(charges), charges, LacksOf, amount, SharesOf(charges, amount))
  BY DEF FillsUp, SharesOf, Share

\* The shares are the payment.
LEMMA SharesAddUp ==
  ASSUME ChargesTyped, NEW charges \in SUBSET Charges, charges # {}, NEW amount \in Nat
  PROVE  LET s == Shares(charges, amount)
         IN /\ DOMAIN s \subseteq charges /\ s = [c \in DOMAIN s |-> s[c]]
            /\ \A c \in DOMAIN s : s[c] \in Int
            /\ Sum(s, DOMAIN s) = amount
<1> DEFINE all == SharesOf(charges, amount)
           some == {d \in charges : all[d] > 0}
           s == Shares(charges, amount)
<1>1. FillsUp(InOrder(charges), charges, LacksOf, amount, all)
  BY SharesFill
<1>2. IsFiniteSet(charges) /\ Orders(InOrder(charges), charges) /\ \A c \in charges : LacksOf[c] \in Nat
  BY ChargesFinite, InOrderOrders, LacksAre
<1>3. \A c \in charges : all[c] \in Nat
  BY <1>1, <1>2, TakenBefore
<1>4. Sum(all, charges) = amount
  BY <1>1, <1>2, AllTaken
<1>5. s = [c \in some |-> all[c]]
  BY SharesAre
<1> HIDE DEF all, s
<1>6. IsFiniteSet(some) /\ some \subseteq charges /\ IsFiniteSet(charges \ some)
  BY <1>2, FS_Subset
<1>7. Sum(all, charges) = Sum(all, some)
  <2>1. \A c \in charges \ some : all[c] = 0
    BY <1>3
  <2> QED
    BY <1>2, <1>3, <1>6, <2>1, SumOfPart
<1>8. Sum(s, some) = Sum(all, some)
  BY <1>5, <1>6, SumSame
<1>9. DOMAIN s = some
  BY <1>5
<1> QED
  BY <1>3, <1>4, <1>5, <1>6, <1>7, <1>8, <1>9 DEF s

\* No charge gets a cent before every older one is covered.
LEMMA SharesInTurn ==
  ASSUME ChargesTyped, NEW charges \in SUBSET Charges, NEW amount \in Nat,
         NEW c \in charges, NEW d \in DOMAIN Shares(charges, amount), Older(c, d),
         Remaining(c, charge[c].paid) > 0
  PROVE  /\ c \in DOMAIN Shares(charges, amount)
         /\ Shares(charges, amount)[c] = Remaining(c, charge[c].paid)
<1> DEFINE all == SharesOf(charges, amount)
           some == {e \in charges : all[e] > 0}
           s == Shares(charges, amount)
<1>1. FillsUp(InOrder(charges), charges, LacksOf, amount, all)
  BY SharesFill
<1>2. IsFiniteSet(charges) /\ Orders(InOrder(charges), charges) /\ \A e \in charges : LacksOf[e] \in Nat
  BY ChargesFinite, InOrderOrders, LacksAre
<1>3. s = [e \in some |-> all[e]] /\ DOMAIN s = some
  BY SharesAre
<1>4. d \in charges /\ all[d] # 0
  BY <1>2, <1>3
<1>5. <<c, d>> \in InOrder(charges)
  BY <1>4, InOrderIs
<1> HIDE DEF all, s
<1>6. all[c] = LacksOf[c]
  BY <1>1, <1>2, <1>4, <1>5, NothingLacksBefore
<1>7. all[c] = Remaining(c, charge[c].paid)
  BY <1>6, LacksAre
<1> QED
  BY <1>3, <1>7 DEF s

LEMMA SplitOfTyped == ChargesTyped => SplitOldestFirst
<1> SUFFICES ASSUME ChargesTyped,
                    NEW charges \in (SUBSET Issued) \ {{}}, NEW amount \in 1..MapThenSumSet(Amount, Issued)
             PROVE  LET s == Shares(charges, amount)
                    IN /\ MapThenSumSet(LAMBDA c : s[c], DOMAIN s) = amount
                       /\ \A c \in charges, d \in DOMAIN s :
                            Older(c, d) /\ Remaining(c, charge[c].paid) > 0
                              => c \in DOMAIN s /\ s[c] >= Remaining(c, charge[c].paid)
  BY DEF SplitOldestFirst
<1>1. charges \in SUBSET Charges /\ charges # {} /\ amount \in Nat
  BY DEF Issued
<1> DEFINE s == Shares(charges, amount)
<1>2. Sum(s, DOMAIN s) = amount
  BY <1>1, SharesAddUp
<1>3. ASSUME NEW c \in charges, NEW d \in DOMAIN s, Older(c, d), Remaining(c, charge[c].paid) > 0
      PROVE  c \in DOMAIN s /\ s[c] >= Remaining(c, charge[c].paid)
  <2>1. c \in DOMAIN s /\ s[c] = Remaining(c, charge[c].paid)
    BY <1>1, <1>3, SharesInTurn
  <2>2. Remaining(c, charge[c].paid) \in Nat
    BY <1>1, LacksAre
  <2> HIDE DEF s
  <2> QED
    BY <2>1, <2>2
<1> HIDE DEF s
<1>4. MapThenSumSet(LAMBDA c : s[c], DOMAIN s) = Sum(s, DOMAIN s)
  BY DEF MapThenSumSet, MapThenFoldSet, Sum, Sums, Chosen
<1> QED
  BY <1>2, <1>3, <1>4 DEF s

-----------------------------------------------------------------------------
(* The two sums *)

LEMMA PaidIs == MapThenSumSet(LAMBDA c : charge[c].paid, Charges) = Paid
<1> DEFINE P(it) == it = [s \in SUBSET Charges |->
                            IF s = {} THEN 0 ELSE charge[Chosen(s)].paid + it[s \ {Chosen(s)}]]
<1>1. ASSUME NEW it PROVE P(it) <=> Sums(it, PaidOf, Charges)
  <2>1. \A s \in SUBSET Charges : s # {} => PaidOf[Chosen(s)] = charge[Chosen(s)].paid
    BY ChosenIn DEF PaidOf
  <2> QED
    BY <2>1 DEF Sums
<1>2. MapThenSumSet(LAMBDA c : charge[c].paid, Charges) = (CHOOSE it : P(it))[Charges]
  BY DEF MapThenSumSet, MapThenFoldSet, Chosen
<1> HIDE DEF P
<1>3. IsFiniteSet(Charges)
  BY PaymentConstants
<1>4. \E it : P(it)
  BY <1>1, <1>3, SumsExist
<1>5. Sums(CHOOSE it : P(it), PaidOf, Charges)
  BY <1>1, <1>4
<1> QED
  BY <1>2, <1>3, <1>5, SumIs DEF Paid

LEMMA SucceededFinite ==
  ASSUME LedgerInv
  PROVE  IsFiniteSet(Succeeded) /\ Succeeded \subseteq DOMAIN booked /\ IsFiniteSet(DOMAIN booked)
<1>1. PICK n \in Nat : DOMAIN booked = 1 .. n
  BY DEF LedgerInv
<1>2. IsFiniteSet(DOMAIN booked)
  BY <1>1, FS_Interval
<1> QED
  BY <1>2, FS_Subset DEF Succeeded

LEMMA ReceivedIs ==
  ASSUME LedgerInv
  PROVE  Amounts(Succeeded) = Received
<1> DEFINE P(it) == it = [s \in SUBSET Succeeded |->
                            IF s = {} THEN 0 ELSE booked[Chosen(s)].amount + it[s \ {Chosen(s)}]]
<1>1. ASSUME NEW it PROVE P(it) <=> Sums(it, AmountOf, Succeeded)
  <2>1. \A s \in SUBSET Succeeded : s # {} => AmountOf[Chosen(s)] = booked[Chosen(s)].amount
    BY ChosenIn, SucceededFinite DEF AmountOf
  <2> QED
    BY <2>1 DEF Sums
<1>2. MapThenSumSet(LAMBDA n : booked[n].amount, Succeeded) = (CHOOSE it : P(it))[Succeeded]
  BY DEF MapThenSumSet, MapThenFoldSet, Chosen
<1> HIDE DEF P
<1>3. IsFiniteSet(Succeeded)
  BY SucceededFinite
<1>4. \E it : P(it)
  BY <1>1, <1>3, SumsExist
<1>5. Sums(CHOOSE it : P(it), AmountOf, Succeeded)
  BY <1>1, <1>4
<1> QED
  BY <1>2, <1>3, <1>5, SumIs DEF Received, Amounts

LEMMA AddsUpOfInv == BookingInv /\ AmountsInv => MoneyAddsUp
<1> SUFFICES ASSUME BookingInv, AmountsInv, Quiet, ~met
             PROVE  MapThenSumSet(LAMBDA c : charge[c].paid, Charges) = Amounts(Succeeded)
  BY DEF MoneyAddsUp
<1>1. MoneyWriters = {}
  BY DEF Quiet, MoneyWriters
<1>2. Paid = Received
  BY <1>1 DEF AmountsInv, BalanceInv, Balanced
<1> QED
  BY <1>2, PaidIs, ReceivedIs DEF BookingInv

-----------------------------------------------------------------------------
(* What a step leaves as it was *)

Books == BookingInv /\ AmountsInv

LEMMA PaidStays ==
  ASSUME \A c \in Charges : charge'[c].paid = charge[c].paid
  PROVE  Paid' = Paid
<1>1. PaidOf' = PaidOf
  BY DEF PaidOf
<1> QED
  BY <1>1 DEF Paid

LEMMA ReceivedStays ==
  ASSUME LedgerInv, DOMAIN booked' = DOMAIN booked,
         \A n \in DOMAIN booked :
            booked'[n].amount = booked[n].amount /\ booked'[n].status = booked[n].status
  PROVE  Received' = Received
<1>1. AmountOf' = AmountOf
  BY DEF AmountOf
<1>2. Succeeded' = Succeeded
  BY DEF Succeeded
<1> QED
  BY <1>1, <1>2 DEF Received

LEMMA CentsTyped ==
  ASSUME AmountsTyped, LedgerInv
  PROVE  /\ Paid \in Int /\ Received \in Int
         /\ \A c \in Charges : PaidOf[c] = charge[c].paid /\ PaidOf[c] \in Int
         /\ \A n \in DOMAIN booked : AmountOf[n] = booked[n].amount /\ AmountOf[n] \in Int
<1>1. /\ \A c \in Charges : PaidOf[c] = charge[c].paid /\ PaidOf[c] \in Int
      /\ \A n \in DOMAIN booked : AmountOf[n] = booked[n].amount /\ AmountOf[n] \in Int
  BY DEF AmountsTyped, ChargesTyped, BookedTyped, PaidOf, AmountOf
<1>2. IsFiniteSet(Charges)
  BY PaymentConstants
<1>3. Paid \in Int
  BY <1>1, <1>2, SumInt DEF Paid
<1>4. Received \in Int
  BY <1>1, SucceededFinite, SumInt DEF Received
<1> QED
  BY <1>1, <1>3, <1>4

LEMMA FunTyped ==
  ASSUME Books, NEW f \in Functions, fun[f] # Free
  PROVE  /\ Entry(fun[f]) /\ Carries(fun[f])
         /\ fun[f].do \in {"booking", "linking", "refunding", "recording"}
         /\ fun[f].do # "recording" => fun[f].intent \in Intents /\ Collected(fun[f].intent)
         /\ fun[f].do = "recording" => fun[f].intent = Manual
  BY DEF Books, BookingInv, FunInv, AmountsInv, AmountsTyped, FunsTyped, IntentsTyped

\* What is written keeps its type when charges are only added.
LEMMA TypesKeep ==
  ASSUME AmountsTyped, NEW f \in Functions, NEW r, FunBecomes(f, r), Issued \subseteq Issued',
         ChargesTyped', IntentsTyped', BookedTyped', r # Free => Carries(r)'
  PROVE  AmountsTyped'
<1>1. ASSUME NEW g \in Functions, g # f, fun'[g] # Free PROVE Carries(fun[g])'
  <2>1. fun'[g] = fun[g] /\ Carries(fun[g])
    BY <1>1 DEF FunBecomes, AmountsTyped, FunsTyped
  <2> QED
    BY <2>1 DEF Carries
<1> QED
  BY <1>1 DEF AmountsTyped, FunsTyped, FunBecomes

LEMMA IntentsKeep ==
  ASSUME IntentsTyped, Issued \subseteq Issued', UNCHANGED <<intent, happened>>
  PROVE  IntentsTyped'
  BY DEF IntentsTyped, Collected

\* A writer moves on, or is done.
LEMMA WriterKeeps ==
  ASSUME Balanced, NEW f \in MoneyWriters, NEW r, FunBecomes(f, r),
         r # Free => r.do = fun[f].do /\ Paid' + Owes(r)' = Received' /\ Read(r)',
         r = Free => Paid' = Received'
  PROVE  Balanced'
<1>1. f \in Functions /\ fun[f] # Free /\ fun[f].do # "linking"
  BY DEF MoneyWriters, Active
<1>2. \A g \in Functions : g # f => g \notin MoneyWriters
  BY DEF Balanced
<1>3. \A g \in Functions : g # f => g \notin MoneyWriters'
  BY <1>2 DEF MoneyWriters, Active, FunBecomes
<1>4. f \in MoneyWriters' <=> r # Free
  BY <1>1 DEF MoneyWriters, Active, FunBecomes
<1>5. \A g \in MoneyWriters' : g = f
  BY <1>3 DEF MoneyWriters, Active
<1>6. fun'[f] = r
  BY DEF FunBecomes
<1>7. CASE r = Free
  BY <1>4, <1>5, <1>7 DEF Balanced
<1>8. CASE r # Free
  <2>1. MoneyWriters' # {}
    BY <1>4, <1>8
  <2>2. Paid' + Owes(fun[f])' = Received' /\ Read(fun[f])'
    BY <1>6, <1>8
  <2> QED
    BY <1>5, <2>1, <2>2 DEF Balanced
<1> QED
  BY <1>7, <1>8

\* Something else happens: nothing that a writer has read, and no amount.
LEMMA OthersKeep ==
  ASSUME Books, Balanced, MoneyWriters' = MoneyWriters,
         \A g \in MoneyWriters : fun'[g] = fun[g],
         \A i \in Intents : Collected(i) => intent'[i] = intent[i],
         \A c \in Charges : charge'[c].paid = charge[c].paid,
         \A c \in Issued : charge'[c].due = charge[c].due,
         \A i \in Intents : <<i, "refunding">> \in answered' => <<i, "refunding">> \in answered,
         Received' = Received
  PROVE  Balanced'
<1>1. Paid' = Paid
  BY PaidStays
<1>2. ASSUME NEW g \in MoneyWriters PROVE Paid' + Owes(fun[g])' = Received' /\ Read(fun[g])'
  <2> PICK r : r = fun[g]
    OBVIOUS
  <2>1. fun'[g] = r /\ g \in Functions /\ r # Free
    BY DEF MoneyWriters, Active
  <2>2. Carries(r) /\ Paid + Owes(r) = Received /\ Read(r)
    BY <2>1, FunTyped DEF Balanced
  <2>3. /\ r.do \in {"booking", "linking", "refunding", "recording"}
        /\ r.do # "recording" => r.intent \in Intents /\ Collected(r.intent)
    BY <2>1, FunTyped
  <2>4. r.at = "split" => r.do # "recording"
    BY <2>2, <2>3 DEF Carries, PlacesOf
  <2>5. r.at = "settle" => r.charge \in Charges
    BY <2>2, <2>3 DEF Carries, PlacesOf, Issued
  <2>6. Owes(r)' = Owes(r)
    BY <2>3, <2>4, <2>5 DEF Owes
  <2>7. Read(r)'
    <3>1. ASSUME r.at = "write", NEW c \in Charges, Oldest(c, DOMAIN r.left)'
          PROVE  r.seen.paid = charge'[c].paid
      <4>1. \A d, e \in DOMAIN r.left : Older(d, e)' <=> Older(d, e)
        BY <2>2 DEF Older, Carries
      <4>2. Oldest(c, DOMAIN r.left) /\ c \in Issued
        BY <2>2, <3>1, <4>1 DEF Oldest, Carries
      <4> QED
        BY <2>2, <3>1, <4>2 DEF Read
    <3>2. Issued' \subseteq Charges
      BY DEF Issued
    <3>3. r.do = "recording" => r.charge \in Charges
      BY <2>2 DEF Carries, Issued
    <3>4. r.do = "recording" /\ r.at = "create" =>
            r.seen.paid = charge'[r.charge].paid /\ r.seen.paid < Price[r.charge]
      BY <2>2, <3>3 DEF Read
    <3>5. r.do = "refunding" /\ r.at = "read" => <<r.intent, "refunding">> \notin answered'
      BY <2>2, <2>3 DEF Read
    <3>6. r.at = "split" => intent'[r.intent].charges # {}
      BY <2>2, <2>3, <2>4 DEF Read
    <3> QED
      BY <3>1, <3>2, <3>4, <3>5, <3>6 DEF Read
  <2> QED
    BY <1>1, <2>1, <2>2, <2>6, <2>7
<1> QED
  BY <1>1, <1>2 DEF Balanced

\* A refund under way is handled, or was not begun.
LEMMA UnrefundedKeeps ==
  ASSUME \A i \in Intents : Unrefunded(i),
         NEW f \in Functions, NEW r, FunBecomes(f, r), answered \subseteq answered',
         \A n \in DOMAIN booked' :
            \/ booked'[n].status = "succeeded"
            \/ /\ n \in DOMAIN booked
               /\ booked'[n].intent = booked[n].intent /\ booked'[n].status = booked[n].status
            \/ /\ r # Free /\ r.do = "refunding" /\ r.at # "read" /\ booked'[n].intent = r.intent,
         fun[f] # Free /\ fun[f].do = "refunding" /\ fun[f].at # "read" =>
            \/ r # Free /\ r.do = "refunding" /\ r.intent = fun[f].intent /\ r.at # "read"
            \/ <<fun[f].intent, "refunding">> \in answered'
  PROVE  \A i \in Intents : Unrefunded(i)'
<1> SUFFICES ASSUME NEW i \in Intents, <<i, "refunding">> \notin answered',
                    \A g \in Refunding(i)' : fun'[g].at = "read", NEW n \in RowsOf(i)'
             PROVE  booked'[n].status = "succeeded"
  BY DEF Unrefunded
<1>1. fun'[f] = r /\ \A g \in Functions : g # f => fun'[g] = fun[g]
  BY DEF FunBecomes
<1>2. r # Free /\ r.do = "refunding" /\ r.intent = i => r.at = "read"
  BY <1>1 DEF Refunding, MoneyWriters, Active
<1>3. \A g \in Refunding(i) : fun[g].at = "read"
  <2> TAKE g \in Refunding(i)
  <2>1. CASE g = f
    BY <1>2, <2>1 DEF Refunding, MoneyWriters, Active
  <2>2. CASE g # f
    <3>1. g \in Refunding(i)' /\ fun'[g] = fun[g]
      BY <1>1, <2>2 DEF Refunding, MoneyWriters, Active
    <3> QED
      BY <3>1
  <2> QED
    BY <2>1, <2>2
<1>4. \A m \in RowsOf(i) : booked[m].status = "succeeded"
  BY <1>3 DEF Unrefunded
<1> QED
  BY <1>2, <1>4 DEF RowsOf

-----------------------------------------------------------------------------
(* What an invocation carries along *)

Moved(r, place, seen, left) ==
    [do |-> r.do, at |-> place, intent |-> r.intent, charge |-> r.charge,
     seen |-> seen, left |-> left]

LEMMA MovedIs ==
  ASSUME NEW r, NEW place, NEW seen, NEW left
  PROVE  LET m == Moved(r, place, seen, left)
         IN /\ m # Free /\ m.do = r.do /\ m.at = place /\ m.intent = r.intent
            /\ m.charge = r.charge /\ m.seen = seen /\ m.left = left
  BY DEF Moved, Free

PutAt(r, place) == [r EXCEPT !.at = place]
SeenFirst(r, place, seen) == [r EXCEPT !.seen = seen, !.at = place]
LEMMA MovedFrom ==
  ASSUME NEW r, Entry(r), NEW place, NEW seen, NEW left
  PROVE  /\ PutAt(r, place) = Moved(r, place, r.seen, r.left)
         /\ WithShares(r, place, left) = Moved(r, place, r.seen, left)
         /\ WithSeen(r, place, seen) = Moved(r, place, seen, r.left)
         /\ SeenFirst(r, place, seen) = Moved(r, place, seen, r.left)
<1>1. ASSUME NEW q, Entry(q), NEW p, NEW s, NEW l
      PROVE  /\ [q EXCEPT !.at = p] = Moved(q, p, q.seen, q.left)
             /\ [q EXCEPT !.left = l] = Moved(q, q.at, q.seen, l)
             /\ [q EXCEPT !.seen = s] = Moved(q, q.at, s, q.left)
  BY <1>1 DEF Entry, Moved
<1> DEFINE p == [r EXCEPT !.at = place]
           s == [r EXCEPT !.seen = seen]
<1>2. p = Moved(r, place, r.seen, r.left) /\ s = Moved(r, r.at, seen, r.left)
  BY <1>1
<1>3. /\ [r EXCEPT !.at = place, !.left = left] = [p EXCEPT !.left = left]
      /\ [r EXCEPT !.at = place, !.seen = seen] = [p EXCEPT !.seen = seen]
      /\ [r EXCEPT !.seen = seen, !.at = place] = [s EXCEPT !.at = place]
  BY DEF Entry
<1> HIDE DEF p, s
<1>4. Entry(p) /\ Entry(s)
  BY <1>2 DEF Entry, Moved
<1>5. /\ [p EXCEPT !.left = left] = Moved(p, p.at, p.seen, left)
      /\ [p EXCEPT !.seen = seen] = Moved(p, p.at, seen, p.left)
      /\ [s EXCEPT !.at = place] = Moved(s, place, s.seen, s.left)
  BY <1>1, <1>4
<1>6. /\ Moved(p, p.at, p.seen, left) = Moved(r, place, r.seen, left)
      /\ Moved(p, p.at, seen, p.left) = Moved(r, place, seen, r.left)
      /\ Moved(s, place, s.seen, s.left) = Moved(r, place, seen, r.left)
  BY <1>2 DEF Moved
<1> QED
  BY <1>2, <1>3, <1>5, <1>6 DEF p, PutAt, WithShares, WithSeen, SeenFirst

LEMMA FunMoved ==
  ASSUME FunInv, NEW f \in Functions, fun[f] # Free, NEW place, NEW seen, NEW left,
         \/ fun' = [fun EXCEPT ![f].at = place] /\ seen = fun[f].seen /\ left = fun[f].left
         \/ fun' = [fun EXCEPT ![f].at = place, ![f].left = left] /\ seen = fun[f].seen
         \/ fun' = [fun EXCEPT ![f].at = place, ![f].seen = seen] /\ left = fun[f].left
         \/ fun' = [fun EXCEPT ![f].seen = seen, ![f].at = place] /\ left = fun[f].left
  PROVE  FunBecomes(f, Moved(fun[f], place, seen, left))
<1>1. Entry(fun[f]) /\ DOMAIN fun = Functions
  BY DEF FunInv
<1> DEFINE m == Moved(fun[f], place, seen, left)
<1>2. \/ fun' = [fun EXCEPT ![f] = PutAt(fun[f], place)]
         /\ seen = fun[f].seen /\ left = fun[f].left
      \/ fun' = [fun EXCEPT ![f] = WithShares(fun[f], place, left)] /\ seen = fun[f].seen
      \/ fun' = [fun EXCEPT ![f] = WithSeen(fun[f], place, seen)] /\ left = fun[f].left
      \/ fun' = [fun EXCEPT ![f] = SeenFirst(fun[f], place, seen)] /\ left = fun[f].left
  BY <1>1 DEF PutAt, WithShares, WithSeen, SeenFirst
<1>3. fun' = [fun EXCEPT ![f] = m]
  BY <1>1, <1>2, MovedFrom
<1> HIDE DEF m
<1>4. FunBecomes(f, m)
  BY <1>3, FunMoves
<1> QED
  BY <1>4 DEF m

LEMMA FunEnds ==
  ASSUME FunInv, NEW f \in Functions, fun' = [fun EXCEPT ![f] = Free]
  PROVE  FunBecomes(f, Free)
  BY FunMoves

-----------------------------------------------------------------------------
(* Steps that write neither a charge nor a transaction *)

LEMMA MoveKeeps ==
  ASSUME Books, NEW f \in Functions, fun[f] # Free, NEW r, FunBecomes(f, r),
         UNCHANGED <<charge, intent, happened, booked>>, met => met',
         answered \subseteq answered',
         answered' \subseteq answered \cup {<<fun[f].intent, fun[f].do>>},
         r # Free => Carries(r) /\ r.at # "read" /\ r.do = fun[f].do /\ r.intent = fun[f].intent,
         ~met' /\ fun[f].do # "linking" => Owes(fun[f]) = IF r = Free THEN 0 ELSE Owes(r),
         ~met' /\ r # Free => Read(r),
         ~met' /\ r = Free /\ fun[f].do = "refunding" /\ fun[f].at # "read" =>
            <<fun[f].intent, "refunding">> \in answered'
  PROVE  AmountsInv'
<1>1. AmountsTyped'
  <2>1. Issued' = Issued /\ ChargesTyped' /\ BookedTyped'
    BY DEF Issued, ChargesTyped, BookedTyped, Books, AmountsInv, AmountsTyped
  <2>2. IntentsTyped'
    BY <2>1, IntentsKeep DEF Books, AmountsInv, AmountsTyped
  <2>3. r # Free => Carries(r)'
    BY <2>1 DEF Carries
  <2> QED
    BY <2>1, <2>2, <2>3, TypesKeep DEF Books, AmountsInv
<1>2. ASSUME ~met' PROVE Balanced'
  <2>1. Balanced
    BY <1>2 DEF Books, AmountsInv, BalanceInv
  <2>2. Paid' = Paid /\ Received' = Received
    BY PaidStays, ReceivedStays DEF Books, BookingInv
  <2>3. CASE fun[f].do = "linking"
    <3>1. MoneyWriters' = MoneyWriters /\ \A g \in MoneyWriters : fun'[g] = fun[g]
      BY <2>3 DEF MoneyWriters, Active, FunBecomes
    <3>2. \A i \in Intents : <<i, "refunding">> \in answered' => <<i, "refunding">> \in answered
      BY <2>3
    <3> QED
      BY <2>1, <2>2, <3>1, <3>2, OthersKeep
  <2>4. CASE fun[f].do # "linking"
    <3>1. f \in MoneyWriters
      BY <2>4 DEF MoneyWriters, Active
    <3>2. Paid + Owes(fun[f]) = Received
      BY <2>1, <3>1 DEF Balanced
    <3>3. CASE r = Free
      <4>1. Paid' = Received'
        BY <1>2, <2>2, <2>4, <3>2, <3>3, CentsTyped DEF Books, AmountsInv, BookingInv
      <4> QED
        BY <2>1, <3>1, <3>3, <4>1, WriterKeeps
    <3>4. CASE r # Free
      <4>1. Owes(r)' = Owes(r)
        BY DEF Owes
      <4>2. Paid' + Owes(r)' = Received'
        BY <1>2, <2>2, <2>4, <3>2, <3>4, <4>1
      <4>3. \A c : Oldest(c, DOMAIN r.left)' <=> Oldest(c, DOMAIN r.left)
        BY DEF Oldest, Older
      <4>4. Issued' = Issued
        BY DEF Issued
      <4>5. Read(r)'
        BY <1>2, <3>4, <4>3, <4>4 DEF Read
      <4> QED
        BY <2>1, <3>1, <3>4, <4>2, <4>5, WriterKeeps
    <3> QED
      BY <3>3, <3>4
  <2> QED
    BY <2>3, <2>4
<1>3. ASSUME ~met' PROVE \A i \in Intents : Unrefunded(i)'
  <2>1. \A i \in Intents : Unrefunded(i)
    BY <1>3 DEF Books, AmountsInv, BalanceInv
  <2>2. fun[f].do = "refunding" /\ fun[f].at # "read" =>
            \/ r # Free /\ r.do = "refunding" /\ r.intent = fun[f].intent /\ r.at # "read"
            \/ <<fun[f].intent, "refunding">> \in answered'
    BY <1>3
  <2> QED
    BY <2>1, <2>2, UnrefundedKeeps
<1>4. ASSUME ~met' PROVE \A c \in Charges : StatusAgrees(c)'
  BY <1>4 DEF Books, AmountsInv, BalanceInv, StatusAgrees
<1> QED
  BY <1>1, <1>2, <1>3, <1>4 DEF AmountsInv, BalanceInv

LEMMA LeaveKeeps ==
  ASSUME Books, NEW f \in Functions, fun[f] # Free, fun' = [fun EXCEPT ![f] = Free],
         UNCHANGED <<charge, intent, happened, booked>>, met => met',
         answered \subseteq answered',
         answered' \subseteq answered \cup {<<fun[f].intent, fun[f].do>>},
         ~met' /\ fun[f].do # "linking" => Owes(fun[f]) = 0,
         ~met' /\ fun[f].do = "refunding" /\ fun[f].at # "read" =>
            <<fun[f].intent, "refunding">> \in answered'
  PROVE  AmountsInv'
<1>1. PICK r : r = Free
  OBVIOUS
<1>2. FunBecomes(f, r)
  BY <1>1, FunEnds DEF Books, BookingInv
<1> QED
  BY <1>1, <1>2, MoveKeeps

\* Places before anything is written owe nothing; nor does a writer without shares.
LEMMA OwesNothing ==
  ASSUME NEW r, r.at \in {"read", "create"} \/ (r.at = "update" /\ r.left = NoShares)
  PROVE  Owes(r) = 0
<1>1. CASE r.at = "update" /\ r.left = NoShares
  <2>1. DOMAIN r.left = {}
    BY <1>1 DEF NoShares
  <2> QED
    BY <1>1, <2>1, SumEmpty DEF Owes
<1>2. CASE r.at \in {"read", "create"}
  BY <1>2 DEF Owes
<1> QED
  BY <1>1, <1>2

LEMMA AnswerIs ==
  ASSUME Books, NEW f \in Functions, fun[f] # Free, fun[f].do # "recording", Answer(f)
  PROVE  /\ fun' = [fun EXCEPT ![f] = Free]
         /\ answered' = answered \cup {<<fun[f].intent, fun[f].do>>}
<1>1. fun[f].intent # Manual
  BY FunTyped, PaymentConstants
<1> QED
  BY <1>1 DEF Answer

LEMMA AnswerKeeps ==
  ASSUME Books, NEW f \in Functions, fun[f] # Free, fun[f].do # "recording", Answer(f),
         UNCHANGED <<charge, intent, happened, booked>>, met => met',
         ~met' /\ fun[f].do # "linking" => Owes(fun[f]) = 0
  PROVE  AmountsInv'
<1>1. /\ fun' = [fun EXCEPT ![f] = Free]
      /\ answered' = answered \cup {<<fun[f].intent, fun[f].do>>}
  BY AnswerIs
<1> QED
  BY <1>1, LeaveKeeps

LEMMA CheckBookedAmounts ==
  ASSUME Books, NEW f \in Functions, CheckBooked(f)
  PROVE  AmountsInv'
<1>1. /\ fun[f] # Free /\ fun[f].do = "booking" /\ fun[f].at = "read"
      /\ UNCHANGED <<charge, intent, happened, booked, met>>
  BY FunAtActive DEF CheckBooked
<1>2. Owes(fun[f]) = 0
  BY <1>1, OwesNothing
<1>3. CASE Answer(f)
  BY <1>1, <1>2, <1>3, AnswerKeeps
<1>4. CASE Goto(f, "create") /\ UNCHANGED answered
  <2> PICK r : r = Moved(fun[f], "create", fun[f].seen, fun[f].left)
    OBVIOUS
  <2>1. FunBecomes(f, r)
    BY <1>1, <1>4, FunMoved DEF Goto, Books, BookingInv
  <2>2. /\ r # Free /\ r.do = "booking" /\ r.at = "create" /\ r.intent = fun[f].intent
        /\ r.left = fun[f].left
    BY <1>1, MovedIs
  <2>3. Carries(r)
    BY <1>1, <2>2, FunTyped DEF Carries, PlacesOf
  <2>4. Owes(r) = 0 /\ Read(r)
    BY <2>2, OwesNothing DEF Read
  <2> QED
    BY <1>1, <1>2, <1>4, <2>1, <2>2, <2>3, <2>4, MoveKeeps
<1> QED
  BY <1>3, <1>4 DEF CheckBooked

LEMMA SplitAmounts ==
  ASSUME Books, NEW f \in Functions, Split(f)
  PROVE  AmountsInv'
<1>1. /\ fun[f] # Free /\ fun[f].do = "booking" /\ fun[f].at = "split"
      /\ UNCHANGED <<charge, intent, happened, booked, answered, met>>
  BY FunAtActive DEF Split
<1> DEFINE i == fun[f].intent
<1>2. i \in Intents /\ Collected(i) /\ Carries(fun[f])
  BY <1>1, FunTyped
<1> PICK left : left = Shares(intent[i].charges, intent[i].amount)
  OBVIOUS
<1> PICK r : r = Moved(fun[f], "update", fun[f].seen, left)
  OBVIOUS
<1>3. FunBecomes(f, r)
  BY <1>1, FunMoved DEF Split, Books, BookingInv
<1>4. /\ r # Free /\ r.do = "booking" /\ r.at = "update" /\ r.intent = fun[f].intent
      /\ r.left = left
  BY <1>1, MovedIs
<1>5. intent[i].charges \in SUBSET Charges /\ intent[i].charges \subseteq Issued /\ intent[i].amount \in Nat
  BY <1>2 DEF Collected, Issued
<1>6. ChargesTyped
  BY DEF Books, AmountsInv, AmountsTyped
<1>7. left = [c \in DOMAIN left |-> left[c]] /\ DOMAIN left \subseteq Issued
      /\ \A c \in DOMAIN left : left[c] \in Int
  <2>1. CASE intent[i].charges # {}
    BY <1>5, <1>6, <2>1, SharesAddUp
  <2>2. CASE intent[i].charges = {}
    <3>1. left = [c \in {d \in {} : SharesOf({}, intent[i].amount)[d] > 0} |-> SharesOf({}, intent[i].amount)[c]]
      BY <1>5, <1>6, <2>2, SharesAre
    <3>2. DOMAIN left = {} /\ left = [c \in DOMAIN left |-> left[c]]
      BY <3>1
    <3> QED
      BY <3>2
  <2> QED
    BY <2>1, <2>2
<1>8. Carries(r)
  BY <1>4, <1>7 DEF Carries, PlacesOf
<1>9. ASSUME ~met' PROVE Owes(fun[f]) = Owes(r) /\ Read(r)
  <2>1. intent[i].charges # {}
    <3>1. f \in MoneyWriters /\ Balanced
      BY <1>1, <1>9 DEF MoneyWriters, Active, Books, AmountsInv, BalanceInv
    <3> QED
      BY <1>1, <3>1 DEF Balanced, Read
  <2>2. Sum(left, DOMAIN left) = intent[i].amount
    BY <1>5, <1>6, <2>1, SharesAddUp
  <2>3. Owes(fun[f]) = intent[i].amount
    BY <1>1 DEF Owes
  <2>4. Owes(r) = Sum(left, DOMAIN left)
    BY <1>4 DEF Owes
  <2>5. Read(r)
    BY <1>4 DEF Read
  <2> QED
    BY <2>2, <2>3, <2>4, <2>5
<1> QED
  BY <1>1, <1>3, <1>4, <1>8, <1>9, MoveKeeps

LEMMA CurrentIn ==
  ASSUME Books, NEW f \in Functions, fun[f] # Free, DOMAIN fun[f].left # {}
  PROVE  /\ Oldest(Current(f), DOMAIN fun[f].left)
         /\ Current(f) \in DOMAIN fun[f].left /\ Current(f) \in Issued /\ Current(f) \in Charges
<1>1. DOMAIN fun[f].left \subseteq Issued /\ ChargesTyped
  BY FunTyped DEF Carries, Books, AmountsInv, AmountsTyped
<1>2. DOMAIN fun[f].left \in SUBSET Charges
  BY <1>1 DEF Issued
<1>3. Oldest(Current(f), DOMAIN fun[f].left)
  BY <1>1, <1>2, CurrentOldest
<1> QED
  BY <1>1, <1>2, <1>3 DEF Oldest

LEMMA ReadChargeAmounts ==
  ASSUME Books, NEW f \in Functions, ReadCharge(f)
  PROVE  AmountsInv'
<1>1. /\ fun[f] # Free /\ fun[f].at = "update" /\ fun[f].left # NoShares
      /\ UNCHANGED <<charge, intent, happened, booked, answered, met>>
  BY DEF ReadCharge
<1>2. Carries(fun[f])
  BY <1>1, FunTyped
<1>3. DOMAIN fun[f].left # {}
  <2>1. fun[f].left = [c \in DOMAIN fun[f].left |-> fun[f].left[c]]
    BY <1>2 DEF Carries
  <2> QED
    BY <1>1, <2>1 DEF NoShares
<1> PICK now : now = charge[Current(f)]
  OBVIOUS
<1> PICK r : r = Moved(fun[f], "write", now, fun[f].left)
  OBVIOUS
<1>4. FunBecomes(f, r)
  <2>1. fun' = [fun EXCEPT ![f].at = "write", ![f].seen = now]
    BY DEF ReadCharge
  <2> QED
    BY <1>1, <2>1, FunMoved DEF Books, BookingInv
<1>5. /\ r # Free /\ r.do = fun[f].do /\ r.at = "write" /\ r.intent = fun[f].intent
      /\ r.charge = fun[f].charge /\ r.seen = now /\ r.left = fun[f].left
  BY MovedIs
<1>6. Oldest(Current(f), DOMAIN r.left) /\ Current(f) \in Charges
  BY <1>1, <1>3, <1>5, CurrentIn
<1>7. ChargesTyped /\ now.paid \in Int /\ DOMAIN r.left \in SUBSET Charges
  BY <1>2, <1>5, <1>6 DEF Books, AmountsInv, AmountsTyped, ChargesTyped, Carries, Issued
<1>8. fun[f].do \in {"booking", "refunding"}
  BY <1>1, <1>2, FunTyped DEF Carries, PlacesOf
<1>9. Carries(r)
  BY <1>2, <1>3, <1>5, <1>7, <1>8 DEF Carries, PlacesOf
<1>10. Owes(fun[f]) = Owes(r)
  BY <1>1, <1>5 DEF Owes
<1>11. Read(r)
  <2>1. \A c \in Issued : Oldest(c, DOMAIN r.left) => c = Current(f)
    BY <1>6, <1>7, OldestUnique
  <2> QED
    BY <1>5, <1>8, <2>1 DEF Read
<1> QED
  BY <1>1, <1>4, <1>5, <1>9, <1>10, <1>11, MoveKeeps

LEMMA WriteLedgerAmounts ==
  ASSUME Books, NEW f \in Functions, WriteLedger(f)
  PROVE  AmountsInv'
<1>1. /\ fun[f] # Free /\ fun[f].do = "booking" /\ fun[f].at = "update" /\ fun[f].left = NoShares
      /\ Answer(f) /\ UNCHANGED <<charge, intent, happened, booked, met>>
  BY FunAtActive DEF WriteLedger
<1> QED
  BY <1>1, OwesNothing, AnswerKeeps

LEMMA RefundDoneAmounts ==
  ASSUME Books, NEW f \in Functions, RefundDone(f)
  PROVE  AmountsInv'
<1>1. /\ fun[f] # Free /\ fun[f].do = "refunding" /\ fun[f].at = "update" /\ fun[f].left = NoShares
      /\ Answer(f) /\ UNCHANGED <<charge, intent, happened, booked, met>>
  BY FunAtActive DEF RefundDone
<1> QED
  BY <1>1, OwesNothing, AnswerKeeps

LEMMA ReadForRecordAmounts ==
  ASSUME Books, NEW f \in Functions, ReadForRecord(f)
  PROVE  AmountsInv'
<1>1. /\ fun[f] # Free /\ fun[f].do = "recording" /\ fun[f].at = "read"
      /\ UNCHANGED <<charge, intent, happened, booked, answered, met>>
  BY FunAtActive DEF ReadForRecord
<1>2. Owes(fun[f]) = 0 /\ Carries(fun[f])
  BY <1>1, OwesNothing, FunTyped
<1> DEFINE c == fun[f].charge
<1>3. c \in Charges /\ ChargesTyped
  BY <1>1, <1>2 DEF Carries, Issued, Books, AmountsInv, AmountsTyped
<1>4. CASE Settled(charge[c])
  <2>1. fun' = [fun EXCEPT ![f] = Free]
    BY <1>4 DEF ReadForRecord
  <2> QED
    BY <1>1, <1>2, <2>1, LeaveKeeps
<1>5. CASE ~Settled(charge[c])
  <2> PICK now : now = charge[c]
    OBVIOUS
  <2> PICK r : r = Moved(fun[f], "create", now, fun[f].left)
    OBVIOUS
  <2>1. FunBecomes(f, r)
    <3>1. fun' = [fun EXCEPT ![f].seen = now, ![f].at = "create"]
      BY <1>5 DEF ReadForRecord
    <3> QED
      BY <1>1, <3>1, FunMoved DEF Books, BookingInv
  <2>2. /\ r # Free /\ r.do = "recording" /\ r.at = "create" /\ r.intent = fun[f].intent
        /\ r.charge = c /\ r.seen = now /\ r.left = fun[f].left
    BY <1>1, MovedIs
  <2>3. Carries(r)
    BY <1>1, <1>2, <1>3, <2>2 DEF Carries, PlacesOf, ChargesTyped
  <2>4. ASSUME ~met' PROVE Read(r)
    <3>1. StatusAgrees(c) /\ charge[c].status # "paid"
      BY <1>1, <1>3, <1>5, <2>4 DEF Books, AmountsInv, BalanceInv, Settled
    <3> QED
      BY <2>2, <3>1 DEF Read, StatusAgrees
  <2>5. Owes(r) = 0
    BY <2>2, OwesNothing
  <2> QED
    BY <1>1, <1>2, <2>1, <2>2, <2>3, <2>4, <2>5, MoveKeeps
<1> QED
  BY <1>4, <1>5

\* An invocation's shares without the current one.
LEMMA WithoutIs ==
  ASSUME Books, NEW f \in Functions, fun[f] # Free
  PROVE  LET left == WithoutCurrent(f)
         IN /\ DOMAIN left = DOMAIN fun[f].left \ {Current(f)}
            /\ left = [c \in DOMAIN left |-> left[c]]
            /\ DOMAIN left \subseteq Issued
            /\ \A c \in DOMAIN left : left[c] = fun[f].left[c] /\ left[c] \in Int
<1>1. Carries(fun[f])
  BY FunTyped
<1> QED
  BY <1>1 DEF WithoutCurrent, Carries

LEMMA RequestFailsAmounts ==
  ASSUME Books, NEW f \in Functions, RequestFails(f)
  PROVE  AmountsInv'
<1>1. /\ fun[f] # Free /\ fun[f].do # "recording" /\ (met => met')
      /\ (fun[f].at \in {"update", "write", "split"} => met')
      /\ UNCHANGED <<charge, intent, happened, booked>>
  BY DEF RequestFails
<1>2. Carries(fun[f]) /\ fun[f].do \in {"booking", "linking", "refunding"}
  BY <1>1, FunTyped
<1>3. CASE fun[f].at \in {"update", "write"} /\ fun[f].left # NoShares
  <2> PICK left : left = WithoutCurrent(f)
    OBVIOUS
  <2> PICK r : r = Moved(fun[f], "update", fun[f].seen, left)
    OBVIOUS
  <2>1. /\ fun' = [fun EXCEPT ![f].at = "update", ![f].left = left]
        /\ UNCHANGED answered
    BY <1>3 DEF RequestFails
  <2>2. FunBecomes(f, r)
    BY <1>1, <2>1, FunMoved DEF Books, BookingInv
  <2>3. /\ r # Free /\ r.do = fun[f].do /\ r.at = "update" /\ r.intent = fun[f].intent
        /\ r.left = left
    BY MovedIs
  <2>4. left = [c \in DOMAIN left |-> left[c]] /\ DOMAIN left \subseteq Issued
        /\ \A c \in DOMAIN left : left[c] \in Int
    BY <1>1, WithoutIs
  <2>5. Carries(r)
    BY <1>1, <1>2, <1>3, <2>3, <2>4 DEF Carries, PlacesOf
  <2> QED
    BY <1>1, <1>3, <2>1, <2>2, <2>3, <2>5, MoveKeeps
<1>4. CASE fun[f].at = "split"
  <2> PICK r : r = Moved(fun[f], "update", fun[f].seen, fun[f].left)
    OBVIOUS
  <2>1. fun' = [fun EXCEPT ![f].at = "update"] /\ UNCHANGED answered
    BY <1>4 DEF RequestFails, Goto
  <2>2. FunBecomes(f, r)
    BY <1>1, <2>1, FunMoved DEF Books, BookingInv
  <2>3. /\ r # Free /\ r.do = fun[f].do /\ r.at = "update" /\ r.intent = fun[f].intent
        /\ r.left = fun[f].left
    BY MovedIs
  <2>4. Carries(r)
    BY <1>1, <1>2, <1>4, <2>3 DEF Carries, PlacesOf
  <2> QED
    BY <1>1, <1>4, <2>1, <2>2, <2>3, <2>4, MoveKeeps
<1>5. CASE ~(fun[f].at \in {"update", "write"} /\ fun[f].left # NoShares) /\ fun[f].at # "split"
  <2>1. Answer(f)
    BY <1>5 DEF RequestFails
  <2>2. ASSUME ~met' PROVE Owes(fun[f]) = 0
    <3>1. fun[f].at \in {"read", "create"}
      BY <1>1, <1>2, <2>2 DEF Carries, PlacesOf
    <3> QED
      BY <3>1, OwesNothing
  <2> QED
    BY <1>1, <2>1, <2>2, AnswerKeeps
<1> QED
  BY <1>3, <1>4, <1>5

LEMMA KilledAmounts ==
  ASSUME Books, NEW f \in Functions, Killed(f)
  PROVE  AmountsInv'
<1>1. /\ fun[f] # Free /\ (met => met')
      /\ (fun[f].at \in {"split", "update", "write", "settle"} => met')
      /\ UNCHANGED <<charge, intent, happened, booked, answered>>
      /\ fun' = [fun EXCEPT ![f] = Free]
  BY DEF Killed
<1>2. Carries(fun[f]) /\ fun[f].do \in {"booking", "linking", "refunding", "recording"}
  BY <1>1, FunTyped
<1>3. ASSUME ~met' PROVE Owes(fun[f]) = 0 /\ (fun[f].do = "refunding" => fun[f].at = "read")
  <2>1. fun[f].at \in {"read", "create"}
    BY <1>1, <1>2, <1>3 DEF Carries, PlacesOf
  <2> QED
    BY <1>2, <2>1, OwesNothing DEF Carries, PlacesOf
<1> QED
  BY <1>1, <1>3, LeaveKeeps

-----------------------------------------------------------------------------
(* An invocation begins, or something happens at Stripe *)

LEMMA EnterAmounts ==
  ASSUME Books, NEW f \in Functions, NEW do, NEW j, NEW c, Enter(f, do, j, c), UNCHANGED answered,
         \/ do = "recording" /\ j = Manual /\ c \in Issued
         \/ do \in {"booking", "linking", "refunding"} /\ j \in Intents
  PROVE  AmountsInv'
<1> PICK r : r = [do |-> do, at |-> "read", intent |-> j, charge |-> c,
                  seen |-> NoCharge, left |-> NoShares]
  OBVIOUS
<1>1. /\ fun[f] = Free /\ fun' = [fun EXCEPT ![f] = r]
      /\ UNCHANGED <<charge, intent, happened, booked, answered>>
      /\ met' = (met \/ (do # "linking" /\ MoneyWriters # {})
                     \/ (do = "refunding" /\ <<j, do>> \in answered))
  BY DEF Enter
<1>2. r # Free /\ r.do = do /\ r.at = "read" /\ r.intent = j /\ r.charge = c /\ r.left = NoShares
  BY DEF Free
<1>3. FunBecomes(f, r)
  BY <1>1, FunMoves DEF Books, BookingInv
<1>4. Carries(r)
  BY <1>2 DEF Carries, PlacesOf, NoShares
<1>5. AmountsTyped'
  <2>1. Issued' = Issued /\ ChargesTyped' /\ BookedTyped'
    BY <1>1 DEF Issued, ChargesTyped, BookedTyped, Books, AmountsInv, AmountsTyped
  <2>2. IntentsTyped'
    BY <1>1, <2>1, IntentsKeep DEF Books, AmountsInv, AmountsTyped
  <2>3. Carries(r)'
    BY <1>4, <2>1 DEF Carries
  <2> QED
    BY <1>3, <2>1, <2>2, <2>3, TypesKeep DEF Books, AmountsInv
<1>6. ASSUME ~met' PROVE Balanced'
  <2>1. Balanced
    BY <1>1, <1>6 DEF Books, AmountsInv, BalanceInv
  <2>2. Paid' = Paid /\ Received' = Received
    BY <1>1, PaidStays, ReceivedStays DEF Books, BookingInv
  <2>3. CASE do = "linking"
    <3>1. MoneyWriters' = MoneyWriters /\ \A g \in MoneyWriters : fun'[g] = fun[g]
      BY <1>1, <1>2, <1>3, <2>3 DEF MoneyWriters, Active, FunBecomes
    <3> QED
      BY <1>1, <2>1, <2>2, <3>1, OthersKeep
  <2>4. CASE do # "linking"
    <3>1. MoneyWriters = {} /\ Paid = Received
      BY <1>1, <1>6, <2>1, <2>4 DEF Balanced
    <3>2. MoneyWriters' = {f}
      BY <1>2, <1>3, <2>4, <3>1 DEF MoneyWriters, Active, FunBecomes
    <3>3. Owes(r)' = 0
      BY <1>2 DEF Owes
    <3>4. Read(r)'
      BY <1>1, <1>2, <1>6 DEF Read
    <3>5. Paid' + 0 = Received'
      BY <2>2, <3>1, CentsTyped DEF Books, AmountsInv, BookingInv
    <3>6. fun'[f] = r
      BY <1>3 DEF FunBecomes
    <3>7. Paid' + Owes(fun[f])' = Received' /\ Read(fun[f])'
      BY <3>3, <3>4, <3>5, <3>6
    <3> QED
      BY <3>2, <3>7 DEF Balanced
  <2> QED
    BY <2>3, <2>4
<1>7. ASSUME ~met' PROVE \A i \in Intents : Unrefunded(i)'
  <2>1. \A i \in Intents : Unrefunded(i)
    BY <1>1, <1>7 DEF Books, AmountsInv, BalanceInv
  <2> QED
    BY <1>1, <1>3, <2>1, UnrefundedKeeps
<1>8. ASSUME ~met' PROVE \A d \in Charges : StatusAgrees(d)'
  BY <1>1, <1>8 DEF Books, AmountsInv, BalanceInv, StatusAgrees
<1> QED
  BY <1>5, <1>6, <1>7, <1>8 DEF AmountsInv, BalanceInv

LEMMA DeliverAmounts ==
  ASSUME Books, NEW f \in Functions, NEW i \in Intents, NEW event \in Events, Deliver(f, i, event)
  PROVE  AmountsInv'
<1>1. event \in {"booking", "linking", "refunding"}
  BY PaymentConstants
<1> QED
  BY <1>1, EnterAmounts DEF Deliver

LEMMA RecordOfflineAmounts ==
  ASSUME Books, NEW f \in Functions, NEW c \in Charges, RecordOffline(f, c)
  PROVE  AmountsInv'
  BY EnterAmounts DEF RecordOffline

\* Nothing that an invocation works on changes.
LEMMA StripeAmounts ==
  ASSUME Books, IntentsTyped', UNCHANGED <<charge, answered, booked, fun, met>>,
         \A i \in Intents : Collected(i) => intent'[i] = intent[i]
  PROVE  AmountsInv'
<1>1. Issued' = Issued /\ ChargesTyped' /\ BookedTyped'
  BY DEF Issued, ChargesTyped, BookedTyped, Books, AmountsInv, AmountsTyped
<1>2. FunsTyped'
  BY <1>1 DEF FunsTyped, Carries, Books, AmountsInv, AmountsTyped
<1>3. ASSUME ~met' PROVE Balanced'
  <2>1. Balanced
    BY <1>3 DEF Books, AmountsInv, BalanceInv
  <2>2. MoneyWriters' = MoneyWriters /\ Received' = Received
    BY ReceivedStays DEF MoneyWriters, Active, Books, BookingInv
  <2> QED
    BY <2>1, <2>2, OthersKeep
<1>4. ASSUME ~met' PROVE \A i \in Intents : Unrefunded(i)'
  BY <1>4 DEF Books, AmountsInv, BalanceInv, Unrefunded, Refunding, MoneyWriters, Active, RowsOf
<1>5. ASSUME ~met' PROVE \A d \in Charges : StatusAgrees(d)'
  BY <1>5 DEF Books, AmountsInv, BalanceInv, StatusAgrees
<1> QED
  BY <1>1, <1>2, <1>3, <1>4, <1>5 DEF AmountsInv, AmountsTyped, BalanceInv

LEMMA CollectAmounts ==
  ASSUME Books, NEW i \in Intents, NEW charges, NEW request, NEW amount,
         Collect(i, charges, request, amount),
         charges \subseteq Issued, request \in Issued, amount \in Nat, charges # {} \/ amount # 0
  PROVE  AmountsInv'
<1> DEFINE payment == [charges |-> charges, request |-> request, amount |-> amount]
<1>1. /\ intent[i] = NoIntent /\ intent' = [intent EXCEPT ![i] = payment]
      /\ happened' = happened \cup ({i} \X (Events \ {"refunding"}))
      /\ UNCHANGED <<charge, answered, booked, fun, met>>
  BY DEF Collect
<1>2. payment # NoIntent
  BY DEF NoIntent
<1>3. DOMAIN intent = Intents
  BY DEF Books, AmountsInv, AmountsTyped, IntentsTyped
<1>4. Issued' = Issued
  BY <1>1 DEF Issued
<1>5. Collected(i)'
  <2>1. intent'[i] = payment
    BY <1>1, <1>3
  <2> QED
    BY <1>2, <1>4, <2>1 DEF Collected
<1>6. \A j \in Intents : j # i => intent'[j] = intent[j]
  BY <1>1, <1>3
<1>7. \A j \in Intents : Collected(j) => j # i
  BY <1>1 DEF Collected
<1>8. IntentsTyped'
  <2>1. \A j \in Intents : j # i => (Collected(j)' <=> Collected(j))
    BY <1>4, <1>6 DEF Collected
  <2>2. \A j \in Intents, event \in {"booking", "linking", "refunding"} :
          j # i /\ <<j, event>> \in happened' => <<j, event>> \in happened
    BY <1>1
  <2>3. DOMAIN intent' = Intents
    BY <1>1, <1>3
  <2> QED
    BY <1>5, <1>6, <2>1, <2>2, <2>3 DEF IntentsTyped, Books, AmountsInv, AmountsTyped
<1> QED
  BY <1>1, <1>6, <1>7, <1>8, StripeAmounts

LEMMA RefundAmounts ==
  ASSUME Books, NEW i \in Intents, Refund(i)
  PROVE  AmountsInv'
<1>1. /\ intent[i] # NoIntent /\ happened' = happened \cup {<<i, "refunding">>}
      /\ UNCHANGED <<charge, intent, answered, booked, fun, met>>
  BY DEF Refund
<1>2. IntentsTyped'
  <2>1. IntentsTyped /\ Issued' = Issued
    BY <1>1 DEF Books, AmountsInv, AmountsTyped, Issued
  <2>2. \A j \in Intents : Collected(j)' <=> Collected(j)
    BY <1>1, <2>1 DEF Collected
  <2>3. Collected(i)
    BY <1>1, <2>1 DEF IntentsTyped
  <2> QED
    BY <1>1, <2>1, <2>2, <2>3 DEF IntentsTyped
<1> QED
  BY <1>1, <1>2, StripeAmounts

-----------------------------------------------------------------------------
(* A transaction is written *)

LEMMA ReceivedMore ==
  ASSUME Books, NEW e, Transaction(e), e.status = "succeeded", e.amount \in Int, e.request \in Issued,
         booked' = Append(booked, e), UNCHANGED charge
  PROVE  /\ Received' = Received + e.amount
         /\ BookedTyped'
         /\ \A n \in DOMAIN booked' :
               \/ booked'[n].status = "succeeded"
               \/ n \in DOMAIN booked /\ booked'[n] = booked[n]
<1>1. LedgerInv /\ AmountsTyped
  BY DEF Books, BookingInv, AmountsInv
<1>2. PICK m :
        /\ m \notin DOMAIN booked /\ DOMAIN booked' = DOMAIN booked \cup {m} /\ booked'[m] = e
        /\ \A n \in DOMAIN booked : booked'[n] = booked[n]
        /\ \E S : booked' \in Seq(S)
        /\ \A n \in DOMAIN booked' : Transaction(booked'[n])
  BY <1>1, Appended
<1>3. BookedTyped'
  BY <1>1, <1>2 DEF AmountsTyped, BookedTyped, Issued
<1>4. Succeeded' = Succeeded \cup {m} /\ m \notin Succeeded
  BY <1>2 DEF Succeeded
<1> PICK now : now = AmountOf'
  OBVIOUS
<1> PICK then : then = AmountOf
  OBVIOUS
<1>5. /\ now[m] = e.amount
      /\ \A n \in Succeeded : now[n] = then[n] /\ now[n] \in Int
  <2>1. \A n \in DOMAIN booked' : now[n] = booked'[n].amount
    BY DEF AmountOf
  <2>2. \A n \in Succeeded : n \in DOMAIN booked /\ then[n] = booked[n].amount /\ then[n] \in Int
    BY <1>1, CentsTyped DEF Succeeded
  <2> QED
    BY <1>2, <2>1, <2>2
<1>6. IsFiniteSet(Succeeded)
  BY <1>1, SucceededFinite
<1>7. Sum(now, Succeeded \cup {m}) = Sum(now, Succeeded) + now[m]
  BY <1>4, <1>5, <1>6, SumAdd
<1>8. Sum(now, Succeeded) = Sum(then, Succeeded)
  BY <1>5, <1>6, SumSame
<1>9. Received' = Sum(now, Succeeded \cup {m}) /\ Received = Sum(then, Succeeded)
  BY <1>4 DEF Received
<1> QED
  BY <1>2, <1>3, <1>5, <1>7, <1>8, <1>9

\* One that was received is not any more.
LEMMA ReceivedLess ==
  ASSUME Books, NEW m \in Succeeded, NEW e, e.amount = booked[m].amount, e.status # "succeeded",
         DOMAIN booked' = DOMAIN booked, booked'[m] = e,
         \A n \in DOMAIN booked : n # m => booked'[n] = booked[n]
  PROVE  Received' \in Int /\ Received = Received' + booked[m].amount
<1>1. LedgerInv /\ AmountsTyped
  BY DEF Books, BookingInv, AmountsInv
<1>2. m \in DOMAIN booked
  BY DEF Succeeded
<1>3. Succeeded' = Succeeded \ {m}
  BY DEF Succeeded
<1>4. AmountOf' = AmountOf
  <2>1. \A n \in DOMAIN booked : booked'[n].amount = booked[n].amount
    BY <1>2
  <2> QED
    BY <2>1 DEF AmountOf
<1>5. /\ IsFiniteSet(Succeeded) /\ Succeeded \subseteq DOMAIN booked
      /\ \A n \in DOMAIN booked : AmountOf[n] = booked[n].amount /\ AmountOf[n] \in Int
  BY <1>1, SucceededFinite, CentsTyped
<1>6. Sum(AmountOf, Succeeded) = AmountOf[m] + Sum(AmountOf, Succeeded \ {m})
  BY <1>5, SumRemove
<1>7. Received' = Sum(AmountOf, Succeeded \ {m})
  BY <1>3, <1>4 DEF Received
<1>8. IsFiniteSet(Succeeded \ {m})
  BY <1>5, FS_Subset
<1>9. Received' \in Int
  BY <1>5, <1>7, <1>8, SumInt
<1> QED
  BY <1>2, <1>5, <1>6, <1>7, <1>9 DEF Received

\* A writer books a payment, and owes it to the charges.
LEMMA BookingAmounts ==
  ASSUME Books, NEW f \in Functions, fun[f] # Free, NEW r, FunBecomes(f, r), r # Free,
         fun[f].do \in {"booking", "recording"}, fun[f].at = "create",
         r.do = fun[f].do, r.intent = fun[f].intent, r.at # "read", Carries(r),
         NEW e, Transaction(e), e.status = "succeeded", e.amount \in Int, e.request \in Issued,
         booked' = Append(booked, e), UNCHANGED <<charge, intent, happened, answered, met>>,
         ~met => Owes(r) = e.amount /\ Read(r)
  PROVE  AmountsInv'
<1>1. /\ Received' = Received + e.amount
      /\ BookedTyped'
      /\ \A n \in DOMAIN booked' :
            \/ booked'[n].status = "succeeded"
            \/ n \in DOMAIN booked /\ booked'[n] = booked[n]
  BY ReceivedMore
<1>2. AmountsTyped'
  <2>1. Issued' = Issued /\ ChargesTyped'
    BY DEF Issued, ChargesTyped, Books, AmountsInv, AmountsTyped
  <2>2. IntentsTyped'
    BY <2>1, IntentsKeep DEF Books, AmountsInv, AmountsTyped
  <2>3. Carries(r)'
    BY <2>1 DEF Carries
  <2> QED
    BY <1>1, <2>1, <2>2, <2>3, TypesKeep DEF Books, AmountsInv
<1>3. ASSUME ~met' PROVE Balanced'
  <2>1. Balanced /\ f \in MoneyWriters
    BY <1>3 DEF Books, AmountsInv, BalanceInv, MoneyWriters, Active
  <2>2. Paid' = Paid
    BY PaidStays
  <2>3. Paid + 0 = Received
    <3>1. Owes(fun[f]) = 0
      BY OwesNothing
    <3> QED
      BY <2>1, <3>1 DEF Balanced
  <2>4. Owes(r)' = e.amount
    <3>1. Owes(r)' = Owes(r)
      BY DEF Owes
    <3> QED
      BY <1>3, <3>1
  <2>5. Read(r)'
    <3>1. Issued' = Issued /\ \A c : Oldest(c, DOMAIN r.left)' <=> Oldest(c, DOMAIN r.left)
      BY DEF Issued, Oldest, Older
    <3> QED
      BY <1>3, <3>1 DEF Read
  <2>6. Paid' + Owes(r)' = Received'
    <3>1. Paid \in Int /\ Received \in Int
      BY CentsTyped DEF Books, AmountsInv, BookingInv
    <3> QED
      BY <1>1, <2>2, <2>3, <2>4, <3>1
  <2> QED
    BY <2>1, <2>5, <2>6, WriterKeeps
<1>4. ASSUME ~met' PROVE \A i \in Intents : Unrefunded(i)'
  <2>1. \A i \in Intents : Unrefunded(i)
    BY <1>4 DEF Books, AmountsInv, BalanceInv
  <2> QED
    BY <1>1, <2>1, UnrefundedKeeps
<1>5. ASSUME ~met' PROVE \A c \in Charges : StatusAgrees(c)'
  BY <1>5 DEF Books, AmountsInv, BalanceInv, StatusAgrees
<1> QED
  BY <1>2, <1>3, <1>4, <1>5 DEF AmountsInv, BalanceInv

LEMMA RowIs ==
  ASSUME NEW i, NEW amount, NEW request
  PROVE  LET e == Row(i, amount, request)
         IN Transaction(e) /\ e.status = "succeeded" /\ e.amount = amount /\ e.request = request
  BY DEF Row, Transaction

\* One share: the whole amount.
LEMMA OneShareIs ==
  ASSUME NEW c, NEW amount \in Int
  PROVE  LET left == OneShare(c, amount)
         IN Sum(left, DOMAIN left) = amount
<1>1. PICK left : left = OneShare(c, amount)
  OBVIOUS
<1>2. DOMAIN left = {c} /\ left[c] = amount
  BY <1>1 DEF OneShare
<1>3. Sum(left, {c}) = amount
  BY <1>2, SumOne
<1> QED
  BY <1>1, <1>2, <1>3

LEMMA CreateTransactionAmounts ==
  ASSUME Books, NEW f \in Functions, CreateTransaction(f)
  PROVE  AmountsInv'
<1>1. /\ fun[f] # Free /\ fun[f].do = "booking" /\ fun[f].at = "create"
      /\ UNCHANGED <<charge, intent, happened, answered, met>>
  BY FunAtActive DEF CreateTransaction
<1> DEFINE i == fun[f].intent
<1>2. Carries(fun[f]) /\ i \in Intents /\ Collected(i)
  BY <1>1, FunTyped
<1> PICK amount, request : amount = intent[i].amount /\ request = intent[i].request
  OBVIOUS
<1>3. amount \in Int /\ request \in Issued
  BY <1>2 DEF Collected
<1> PICK e : e = Row(i, amount, request)
  OBVIOUS
<1>4. booked' = Append(booked, e)
  BY DEF CreateTransaction
<1>5. Transaction(e) /\ e.status = "succeeded" /\ e.amount = amount /\ e.request = request
  BY RowIs
<1>6. CASE intent[i].charges # {}
  <2> PICK r : r = Moved(fun[f], "split", fun[f].seen, fun[f].left)
    OBVIOUS
  <2>1. FunBecomes(f, r)
    <3>1. fun' = [fun EXCEPT ![f].at = "split"]
      BY <1>6 DEF CreateTransaction, Goto
    <3> QED
      BY <1>1, <3>1, FunMoved DEF Books, BookingInv
  <2>2. /\ r # Free /\ r.do = fun[f].do /\ r.at = "split" /\ r.intent = fun[f].intent
        /\ r.left = fun[f].left
    BY MovedIs
  <2>3. Carries(r)
    BY <1>1, <1>2, <2>2 DEF Carries, PlacesOf
  <2>4. Owes(r) = amount /\ Read(r)
    BY <1>6, <2>2 DEF Owes, Read
  <2> QED
    BY <1>1, <1>3, <1>4, <1>5, <2>1, <2>2, <2>3, <2>4, BookingAmounts
<1>7. CASE intent[i].charges = {}
  <2> PICK left : left = OneShare(request, amount)
    OBVIOUS
  <2> PICK r : r = Moved(fun[f], "update", fun[f].seen, left)
    OBVIOUS
  <2>1. FunBecomes(f, r)
    <3>1. fun' = [fun EXCEPT ![f].at = "update", ![f].left = left]
      BY <1>7 DEF CreateTransaction
    <3> QED
      BY <1>1, <3>1, FunMoved DEF Books, BookingInv
  <2>2. /\ r # Free /\ r.do = fun[f].do /\ r.at = "update" /\ r.intent = fun[f].intent
        /\ r.left = left
    BY MovedIs
  <2>3. /\ DOMAIN left = {request} /\ left[request] = amount /\ left = [d \in DOMAIN left |-> left[d]]
        /\ Sum(left, DOMAIN left) = amount
    <3>1. left = [d \in DOMAIN left |-> left[d]]
      BY DEF OneShare
    <3>2. DOMAIN left = {request} /\ left[request] = amount
      BY DEF OneShare
    <3>3. Sum(left, DOMAIN left) = amount
      BY <1>3, OneShareIs
    <3> QED
      BY <3>1, <3>2, <3>3
  <2>6. DOMAIN left \subseteq Issued /\ \A c \in DOMAIN left : left[c] \in Int
    BY <1>3, <2>3
  <2>4. Carries(r)
    BY <1>1, <2>2, <2>3, <2>6 DEF Carries, PlacesOf
  <2>5. Owes(r) = amount /\ Read(r)
    BY <1>1, <2>2, <2>3 DEF Owes, Read
  <2> QED
    BY <1>1, <1>3, <1>4, <1>5, <2>1, <2>2, <2>4, <2>5, BookingAmounts
<1> QED
  BY <1>6, <1>7

LEMMA BookOfflineAmounts ==
  ASSUME Books, NEW f \in Functions, BookOffline(f)
  PROVE  AmountsInv'
<1>1. /\ fun[f] # Free /\ fun[f].do = "recording" /\ fun[f].at = "create"
      /\ UNCHANGED <<charge, intent, happened, answered, met>>
  BY FunAtActive DEF BookOffline
<1> DEFINE c == fun[f].charge
<1>2. /\ Carries(fun[f]) /\ c \in Issued /\ c \in Charges /\ fun[f].seen.paid \in Int
      /\ Price[c] \in Int /\ charge[c].paid \in Int
  <2>1. Carries(fun[f])
    BY <1>1, FunTyped
  <2>2. c \in Issued /\ fun[f].seen.paid \in Int
    BY <1>1, <2>1 DEF Carries
  <2>3. c \in Charges
    BY <2>2 DEF Issued
  <2>4. charge[c].paid \in Int
    BY <2>3 DEF Books, AmountsInv, AmountsTyped, ChargesTyped
  <2>5. Price[c] \in Int
    BY <2>3, PriceIs
  <2> QED
    BY <2>1, <2>2, <2>3, <2>4, <2>5
<1> PICK amount : amount = OfflineAmount(c, fun[f].seen.paid)
  OBVIOUS
<1>3. amount \in Int /\ (fun[f].seen.paid < Price[c] => amount = Price[c] - fun[f].seen.paid)
  BY <1>2 DEF OfflineAmount, Remaining, Amount
<1> PICK e : e = Row(Manual, amount, c)
  OBVIOUS
<1>4. booked' = Append(booked, e)
  BY DEF BookOffline
<1>5. Transaction(e) /\ e.status = "succeeded" /\ e.amount = amount /\ e.request = c
  BY RowIs
<1> PICK r : r = Moved(fun[f], "settle", fun[f].seen, fun[f].left)
  OBVIOUS
<1>6. FunBecomes(f, r)
  <2>1. fun' = [fun EXCEPT ![f].at = "settle"]
    BY DEF BookOffline, Goto
  <2> QED
    BY <1>1, <2>1, FunMoved DEF Books, BookingInv
<1>7. /\ r # Free /\ r.do = fun[f].do /\ r.at = "settle" /\ r.intent = fun[f].intent
      /\ r.charge = c /\ r.left = fun[f].left
  BY MovedIs
<1>8. Carries(r)
  BY <1>1, <1>2, <1>7 DEF Carries, PlacesOf
<1>9. ASSUME ~met PROVE Owes(r) = amount /\ Read(r)
  <2>1. Read(fun[f])
    BY <1>1, <1>9 DEF Books, AmountsInv, BalanceInv, Balanced, MoneyWriters, Active
  <2>2. fun[f].seen.paid = charge[c].paid /\ fun[f].seen.paid < Price[c]
    BY <1>1, <2>1 DEF Read
  <2>3. Owes(r) = Price[c] - charge[c].paid
    BY <1>7 DEF Owes
  <2>4. Read(r)
    BY <1>1, <1>7 DEF Read
  <2> QED
    BY <1>3, <2>2, <2>3, <2>4
<1> QED
  BY <1>1, <1>2, <1>3, <1>4, <1>5, <1>6, <1>7, <1>8, <1>9, BookingAmounts

LEMMA TransactionSame ==
  ASSUME NEW r, Transaction(r), NEW status, NEW linked
  PROVE  /\ LET e == [r EXCEPT !.status = status]
            IN /\ e.status = status
               /\ e.intent = r.intent /\ e.amount = r.amount /\ e.request = r.request
         /\ LET e == [r EXCEPT !.linked = linked]
            IN /\ e.status = r.status
               /\ e.intent = r.intent /\ e.amount = r.amount /\ e.request = r.request
<1>1. DOMAIN r = {"intent", "amount", "status", "request", "linked"}
  BY DEF Transaction
<1> QED
  BY <1>1 DEF Transaction

LEMMA LinkAmounts ==
  ASSUME Books, NEW f \in Functions, Link(f)
  PROVE  AmountsInv'
<1>1. /\ fun[f] # Free /\ fun[f].do = "linking" /\ fun[f].at = "read"
      /\ Answer(f) /\ UNCHANGED <<charge, intent, happened, met>>
  BY FunAtActive DEF Link
<1> DEFINE found == RowsOf(fun[f].intent)
<1>2. CASE found = {}
  <2>1. UNCHANGED booked
    BY <1>2 DEF Link
  <2> QED
    BY <1>1, <2>1, AnswerKeeps
<1>3. CASE found # {}
  <2> PICK m : m = Min(found)
    OBVIOUS
  <2>1. m \in DOMAIN booked
    <3>1. found \subseteq Nat /\ found \subseteq DOMAIN booked
      BY DEF RowsOf, Books, BookingInv, LedgerInv
    <3> QED
      BY <1>3, <3>1, MinIn
  <2> PICK e : e = [booked[m] EXCEPT !.linked = TRUE]
    OBVIOUS
  <2>2. booked' = [booked EXCEPT ![m] = e]
    BY <1>3 DEF Link
  <2>3. /\ Transaction(e) /\ e.status = booked[m].status /\ e.intent = booked[m].intent
        /\ e.amount = booked[m].amount /\ e.request = booked[m].request
    BY <2>1, TransactionFields, TransactionSame DEF Books, BookingInv, LedgerInv
  <2>4. /\ DOMAIN booked' = DOMAIN booked /\ booked'[m] = e
        /\ \A n \in DOMAIN booked : n # m => booked'[n] = booked[n]
    BY <2>1, <2>2, <2>3, Replaced DEF Books, BookingInv
  <2>5. \A n \in DOMAIN booked :
          /\ booked'[n].status = booked[n].status /\ booked'[n].intent = booked[n].intent
          /\ booked'[n].amount = booked[n].amount /\ booked'[n].request = booked[n].request
    BY <2>3, <2>4
  <2>6. /\ answered' = answered \cup {<<fun[f].intent, "linking">>}
        /\ fun' = [fun EXCEPT ![f] = Free]
    BY <1>1, AnswerIs
  <2> PICK r : r = Free
    OBVIOUS
  <2>7. FunBecomes(f, r)
    BY <2>6, FunEnds DEF Books, BookingInv
  <2>8. AmountsTyped'
    <3>1. Issued' = Issued /\ ChargesTyped'
      BY <1>1 DEF Issued, ChargesTyped, Books, AmountsInv, AmountsTyped
    <3>2. BookedTyped'
      BY <2>4, <2>5, <3>1 DEF BookedTyped, Books, AmountsInv, AmountsTyped
    <3>3. IntentsTyped'
      BY <1>1, <3>1, IntentsKeep DEF Books, AmountsInv, AmountsTyped
    <3> QED
      BY <2>7, <3>1, <3>2, <3>3, TypesKeep DEF Books, AmountsInv
  <2>9. ASSUME ~met' PROVE Balanced'
    <3>1. MoneyWriters' = MoneyWriters /\ \A g \in MoneyWriters : fun'[g] = fun[g]
      BY <1>1, <2>7 DEF MoneyWriters, Active, FunBecomes
    <3>2. \A i \in Intents : <<i, "refunding">> \in answered' => <<i, "refunding">> \in answered
      BY <2>6
    <3>3. Received' = Received
      BY <2>4, <2>5, ReceivedStays DEF Books, BookingInv
    <3>4. Balanced
      BY <1>1, <2>9 DEF Books, AmountsInv, BalanceInv
    <3> QED
      BY <1>1, <3>1, <3>2, <3>3, <3>4, OthersKeep
  <2>10. ASSUME ~met' PROVE \A i \in Intents : Unrefunded(i)'
    <3>1. \A i \in Intents : Unrefunded(i)
      BY <1>1, <2>10 DEF Books, AmountsInv, BalanceInv
    <3> QED
      BY <1>1, <2>4, <2>5, <2>6, <2>7, <3>1, UnrefundedKeeps
  <2>11. ASSUME ~met' PROVE \A c \in Charges : StatusAgrees(c)'
    BY <1>1, <2>11 DEF Books, AmountsInv, BalanceInv, StatusAgrees
  <2> QED
    BY <2>8, <2>9, <2>10, <2>11 DEF AmountsInv, BalanceInv
<1> QED
  BY <1>2, <1>3

LEMMA MarkRefundedAmounts ==
  ASSUME Books, NEW f \in Functions, MarkRefunded(f)
  PROVE  AmountsInv'
<1>1. /\ fun[f] # Free /\ fun[f].do = "refunding" /\ fun[f].at = "read"
      /\ UNCHANGED <<charge, intent, happened, met>>
  BY FunAtActive DEF MarkRefunded
<1> DEFINE i == fun[f].intent
           found == LinkedRows(i)
<1>2. CASE found = {}
  <2>1. Answer(f) /\ UNCHANGED booked
    BY <1>2 DEF MarkRefunded
  <2> QED
    BY <1>1, <2>1, OwesNothing, AnswerKeeps
<1>3. CASE found # {}
  <2> PICK m : m = Min(found)
    OBVIOUS
  <2>1. m \in RowsOf(i) /\ m \in DOMAIN booked /\ booked[m].intent = i
    <3>1. found \subseteq Nat /\ found \subseteq RowsOf(i)
      BY DEF LinkedRows, RowsOf, Books, BookingInv, LedgerInv
    <3>2. m \in RowsOf(i)
      BY <1>3, <3>1, MinIn
    <3> QED
      BY <3>2 DEF RowsOf
  <2> PICK amount, request : amount = booked[m].amount /\ request = booked[m].request
    OBVIOUS
  <2> PICK left : left = OneShare(request, -amount)
    OBVIOUS
  <2> PICK e : e = [booked[m] EXCEPT !.status = "refunded"]
    OBVIOUS
  <2> PICK r : r = Moved(fun[f], "update", fun[f].seen, left)
    OBVIOUS
  <2>2. /\ booked' = [booked EXCEPT ![m] = e] /\ UNCHANGED answered
        /\ fun' = [fun EXCEPT ![f].at = "update", ![f].left = left]
    BY <1>3 DEF MarkRefunded
  <2>3. amount \in Int /\ -amount \in Int /\ request \in Issued
    BY <2>1 DEF Books, AmountsInv, AmountsTyped, BookedTyped
  <2>4. /\ Transaction(e) /\ e.status = "refunded" /\ e.intent = i
        /\ e.amount = amount /\ e.request = request
    <3>1. Transaction(booked[m])
      BY <2>1 DEF Books, BookingInv, LedgerInv
    <3>2. Transaction(e)
      BY <3>1, TransactionFields
    <3>3. /\ e.status = "refunded" /\ e.intent = booked[m].intent
          /\ e.amount = booked[m].amount /\ e.request = booked[m].request
      BY <3>1, TransactionSame
    <3> QED
      BY <2>1, <3>2, <3>3
  <2>5. /\ DOMAIN booked' = DOMAIN booked /\ booked'[m] = e
        /\ \A n \in DOMAIN booked : n # m => booked'[n] = booked[n]
    BY <2>1, <2>2, <2>4, Replaced DEF Books, BookingInv
  <2>6. FunBecomes(f, r)
    BY <1>1, <2>2, FunMoved DEF Books, BookingInv
  <2>7. /\ r # Free /\ r.do = "refunding" /\ r.at = "update" /\ r.intent = i /\ r.left = left
    BY <1>1, MovedIs
  <2>8. DOMAIN left = {request} /\ left[request] = -amount /\ left = [d \in DOMAIN left |-> left[d]]
    BY DEF OneShare
  <2>9. Sum(left, DOMAIN left) = -amount
    BY <2>3, OneShareIs
  <2>10. AmountsTyped'
    <3>1. Issued' = Issued /\ ChargesTyped'
      BY <1>1 DEF Issued, ChargesTyped, Books, AmountsInv, AmountsTyped
    <3>2. BookedTyped'
      BY <2>3, <2>4, <2>5, <3>1 DEF BookedTyped, Books, AmountsInv, AmountsTyped
    <3>3. IntentsTyped'
      BY <1>1, <3>1, IntentsKeep DEF Books, AmountsInv, AmountsTyped
    <3>4. DOMAIN left \subseteq Issued /\ \A d \in DOMAIN left : left[d] \in Int
      BY <2>3, <2>8
    <3>5. Carries(r)'
      BY <2>7, <2>8, <3>1, <3>4 DEF Carries, PlacesOf
    <3> QED
      BY <2>6, <3>1, <3>2, <3>3, <3>5, TypesKeep DEF Books, AmountsInv
  <2>11. ASSUME ~met' PROVE Balanced'
    <3>1. Balanced /\ f \in MoneyWriters /\ Unrefunded(i)
      BY <1>1, <2>11, FunTyped DEF Books, AmountsInv, BalanceInv, MoneyWriters, Active
    <3>2. <<i, "refunding">> \notin answered /\ \A g \in Refunding(i) : g = f
      BY <1>1, <3>1 DEF Balanced, Read, Refunding
    <3>3. m \in Succeeded
      BY <1>1, <2>1, <3>1, <3>2 DEF Unrefunded, Succeeded
    <3>4. Received' \in Int /\ Received = Received' + amount
      BY <2>4, <2>5, <3>3, ReceivedLess
    <3>5. Paid' = Paid
      BY <1>1, PaidStays
    <3>6. Paid + 0 = Received
      <4>1. Owes(fun[f]) = 0
        BY <1>1, OwesNothing
      <4> QED
        BY <3>1, <4>1 DEF Balanced
    <3>7. Owes(r)' = -amount
      BY <2>7, <2>9 DEF Owes
    <3>8. Paid \in Int
      BY CentsTyped DEF Books, AmountsInv, BookingInv
    <3>9. Paid' + Owes(r)' = Received'
      BY <2>3, <3>4, <3>5, <3>6, <3>7, <3>8
    <3>10. Read(r)'
      BY <2>7 DEF Read
    <3> QED
      BY <1>1, <2>6, <2>7, <3>1, <3>9, <3>10, WriterKeeps
  <2>12. ASSUME ~met' PROVE \A j \in Intents : Unrefunded(j)'
    <3>1. \A j \in Intents : Unrefunded(j)
      BY <1>1, <2>12 DEF Books, AmountsInv, BalanceInv
    <3>2. \A n \in DOMAIN booked' :
            \/ booked'[n].status = "succeeded"
            \/ /\ n \in DOMAIN booked
               /\ booked'[n].intent = booked[n].intent /\ booked'[n].status = booked[n].status
            \/ /\ r # Free /\ r.do = "refunding" /\ r.at # "read" /\ booked'[n].intent = r.intent
      BY <2>4, <2>5, <2>7
    <3> QED
      BY <1>1, <2>2, <2>6, <3>1, <3>2, UnrefundedKeeps
  <2>13. ASSUME ~met' PROVE \A c \in Charges : StatusAgrees(c)'
    BY <1>1, <2>13 DEF Books, AmountsInv, BalanceInv, StatusAgrees
  <2> QED
    BY <2>10, <2>11, <2>12, <2>13 DEF AmountsInv, BalanceInv
<1> QED
  BY <1>2, <1>3

-----------------------------------------------------------------------------
(* A charge is written *)

PaidRow(r, paid, status) == [status |-> status, paid |-> paid, due |-> r.due]

LEMMA PaidRowIs ==
  ASSUME NEW r, ChargeRow(r), NEW paid, NEW status
  PROVE  /\ [[r EXCEPT !.paid = paid] EXCEPT !.status = status] = PaidRow(r, paid, status)
         /\ [[r EXCEPT !.status = status] EXCEPT !.paid = paid] = PaidRow(r, paid, status)
<1>1. ASSUME NEW q, ChargeRow(q)
      PROVE  /\ [q EXCEPT !.paid = paid] = PaidRow(q, paid, q.status)
             /\ [q EXCEPT !.status = status] = PaidRow(q, q.paid, status)
  BY <1>1 DEF ChargeRow, PaidRow
<1> DEFINE p == [r EXCEPT !.paid = paid]
           s == [r EXCEPT !.status = status]
<1>2. p = PaidRow(r, paid, r.status) /\ s = PaidRow(r, r.paid, status)
  BY <1>1
<1> HIDE DEF p, s
<1>3. ChargeRow(p) /\ ChargeRow(s)
  BY <1>2 DEF PaidRow, ChargeRow
<1>4. /\ [p EXCEPT !.status = status] = PaidRow(p, p.paid, status)
      /\ [s EXCEPT !.paid = paid] = PaidRow(s, paid, s.status)
  BY <1>1, <1>3
<1>5. PaidRow(p, p.paid, status) = PaidRow(r, paid, status)
      /\ PaidRow(s, paid, s.status) = PaidRow(r, paid, status)
  BY <1>2 DEF PaidRow
<1> QED
  BY <1>4, <1>5 DEF p, s

Writes(c, paid, status) ==
    \/ charge' = [charge EXCEPT ![c].paid = paid, ![c].status = status]
    \/ charge' = [charge EXCEPT ![c].status = status, ![c].paid = paid]

\* What is paid of one charge is written: everything else stays.
LEMMA ChargeWritten ==
  ASSUME Books, NEW c \in Issued, NEW paid \in Int, NEW status, status # "none",
         Writes(c, paid, status)
  PROVE  /\ ChargesTyped' /\ Issued' = Issued
         /\ charge'[c].paid = paid /\ charge'[c].status = status
         /\ \A d \in Charges : d # c => charge'[d] = charge[d]
         /\ Paid' \in Int /\ Paid' + charge[c].paid = Paid + paid
<1>1. ChargesTyped /\ c \in Charges /\ charge[c].status # "none"
  BY DEF Books, AmountsInv, AmountsTyped, Issued
<1> PICK row : row = PaidRow(charge[c], paid, status)
  OBVIOUS
<1>2. charge' = [charge EXCEPT ![c] = row]
  <2>1. \/ charge' = [charge EXCEPT ![c] = [[charge[c] EXCEPT !.paid = paid] EXCEPT !.status = status]]
        \/ charge' = [charge EXCEPT ![c] = [[charge[c] EXCEPT !.status = status] EXCEPT !.paid = paid]]
    BY <1>1 DEF ChargesTyped, Writes
  <2>2. ChargeRow(charge[c])
    BY <1>1 DEF ChargesTyped
  <2>3. /\ [[charge[c] EXCEPT !.paid = paid] EXCEPT !.status = status] = row
        /\ [[charge[c] EXCEPT !.status = status] EXCEPT !.paid = paid] = row
    BY <2>2, PaidRowIs
  <2> QED
    BY <2>1, <2>3
<1>3. ChargeRow(row) /\ row.paid = paid /\ row.status = status /\ row.due = charge[c].due
  BY DEF PaidRow, ChargeRow
<1>4. DOMAIN charge' = Charges /\ charge'[c] = row /\ \A d \in Charges : d # c => charge'[d] = charge[d]
  BY <1>1, <1>2 DEF ChargesTyped
<1>5. ChargesTyped'
  BY <1>1, <1>3, <1>4 DEF ChargesTyped
<1>6. Issued' = Issued
  BY <1>1, <1>3, <1>4 DEF Issued
<1> PICK then : then = PaidOf
  OBVIOUS
<1> PICK now : now = PaidOf'
  OBVIOUS
<1>7. /\ \A d \in Charges : then[d] = charge[d].paid /\ then[d] \in Int
      /\ \A d \in Charges : now[d] = charge'[d].paid /\ now[d] \in Int
  BY <1>1, <1>5 DEF PaidOf, ChargesTyped
<1>8. IsFiniteSet(Charges)
  BY PaymentConstants
<1>9. \A d \in Charges : c # d => now[d] = then[d]
  BY <1>4, <1>7
<1>10. Sum(now, Charges) + then[c] = Sum(then, Charges) + now[c]
  BY <1>1, <1>7, <1>8, <1>9, SumChange
<1>11. Sum(now, Charges) \in Int
  BY <1>7, <1>8, SumInt
<1>12. Paid' = Sum(now, Charges) /\ Paid = Sum(then, Charges)
  BY DEF Paid
<1> QED
  BY <1>1, <1>3, <1>4, <1>5, <1>6, <1>7, <1>10, <1>11, <1>12

LEMMA WriteChargeAmounts ==
  ASSUME Books, NEW f \in Functions, WriteCharge(f)
  PROVE  AmountsInv' /\ Issued' = Issued
<1>1. /\ fun[f] # Free /\ fun[f].at = "write"
      /\ UNCHANGED <<intent, happened, answered, booked, met>>
  BY DEF WriteCharge
<1>2. Carries(fun[f]) /\ fun[f].do \in {"booking", "refunding"}
  BY <1>1, FunTyped DEF Carries, PlacesOf
<1>3. DOMAIN fun[f].left # {} /\ fun[f].seen.paid \in Int
  BY <1>1, <1>2 DEF Carries
<1> PICK c : c = Current(f)
  OBVIOUS
<1> PICK left : left = fun[f].left
  OBVIOUS
<1>4. Oldest(c, DOMAIN left) /\ c \in DOMAIN left /\ c \in Issued /\ c \in Charges
  BY <1>1, <1>3, CurrentIn
<1>5. DOMAIN left \subseteq Issued /\ \A d \in DOMAIN left : left[d] \in Int
  BY <1>2 DEF Carries
<1> PICK share : share = left[c]
  OBVIOUS
<1> PICK paid : paid = fun[f].seen.paid + share
  OBVIOUS
<1> PICK status : status = StatusOf(c, paid)
  OBVIOUS
<1>6. share \in Int /\ paid \in Int
  BY <1>3, <1>4, <1>5
<1>7. Writes(c, paid, status)
  BY DEF WriteCharge, NewPaid, Writes
<1>8. status # "none" /\ (status # "paid" => paid < Price[c])
  <2>1. Price[c] \in Int
    BY <1>4, PriceIs
  <2>2. paid >= Price[c] \/ paid < Price[c]
    BY <1>6, <2>1
  <2> QED
    BY <2>2 DEF StatusOf, Amount
<1>9. /\ ChargesTyped' /\ Issued' = Issued
      /\ charge'[c].paid = paid /\ charge'[c].status = status
      /\ \A d \in Charges : d # c => charge'[d] = charge[d]
      /\ Paid' \in Int /\ Paid' + charge[c].paid = Paid + paid
  BY <1>4, <1>6, <1>7, <1>8, ChargeWritten
<1> PICK rest : rest = [d \in DOMAIN left \ {c} |-> left[d]]
  OBVIOUS
<1> PICK r : r = Moved(fun[f], "update", fun[f].seen, rest)
  OBVIOUS
<1>10. FunBecomes(f, r)
  <2>1. rest = WithoutCurrent(f)
    BY DEF WithoutCurrent
  <2>2. fun' = [fun EXCEPT ![f].at = "update", ![f].left = rest]
    BY <2>1 DEF WriteCharge
  <2> QED
    BY <1>1, <2>2, FunMoved DEF Books, BookingInv
<1>11. /\ r # Free /\ r.do = fun[f].do /\ r.at = "update" /\ r.intent = fun[f].intent
       /\ r.left = rest
  BY MovedIs
<1>12. /\ DOMAIN rest = DOMAIN left \ {c} /\ \A d \in DOMAIN rest : rest[d] = left[d]
       /\ rest = [d \in DOMAIN rest |-> rest[d]]
  OBVIOUS
<1>13. AmountsTyped'
  <2>1. BookedTyped'
    BY <1>1, <1>9 DEF BookedTyped, Books, AmountsInv, AmountsTyped
  <2>2. IntentsTyped'
    BY <1>1, <1>9, IntentsKeep DEF Books, AmountsInv, AmountsTyped
  <2>3. DOMAIN rest \subseteq Issued /\ \A d \in DOMAIN rest : rest[d] \in Int
    BY <1>5, <1>12
  <2>5. r.at \in PlacesOf(r.do) /\ r.do # "recording"
    BY <1>2, <1>11 DEF PlacesOf
  <2>4. Carries(r)'
    BY <1>9, <1>11, <1>12, <2>3, <2>5 DEF Carries
  <2> QED
    BY <1>9, <1>10, <2>1, <2>2, <2>4, TypesKeep DEF Books, AmountsInv
<1>14. ASSUME ~met' PROVE Balanced'
  <2>1. Balanced /\ f \in MoneyWriters
    BY <1>1, <1>2, <1>14 DEF Books, AmountsInv, BalanceInv, MoneyWriters, Active
  <2>2. Read(fun[f]) /\ Paid + Owes(fun[f]) = Received
    BY <2>1 DEF Balanced
  <2>3. fun[f].seen.paid = charge[c].paid
    BY <1>1, <1>4, <2>2 DEF Read
  <2>4. Owes(fun[f]) = Sum(left, DOMAIN left)
    BY <1>1 DEF Owes
  <2> PICK owed : owed = Sum(rest, DOMAIN rest)
    OBVIOUS
  <2>5. IsFiniteSet(DOMAIN left) /\ IsFiniteSet(DOMAIN rest)
    <3>1. DOMAIN left \in SUBSET Charges /\ DOMAIN rest \in SUBSET Charges
      BY <1>5, <1>12 DEF Issued
    <3> QED
      BY <3>1, ChargesFinite
  <2>6. Sum(left, DOMAIN left) = share + owed /\ owed \in Int
    <3>1. Sum(left, DOMAIN left) = left[c] + Sum(left, DOMAIN left \ {c})
      BY <1>4, <1>5, <2>5, SumRemove
    <3>2. Sum(rest, DOMAIN rest) = Sum(left, DOMAIN rest)
      BY <1>12, <2>5, SumSame
    <3>3. \A d \in DOMAIN rest : rest[d] \in Int
      BY <1>5, <1>12
    <3>4. owed \in Int
      BY <2>5, <3>3, SumInt
    <3> QED
      BY <1>12, <3>1, <3>2, <3>4
  <2>7. Owes(r)' = owed
    BY <1>11 DEF Owes
  <2>8. Received' = Received
    BY <1>1, ReceivedStays DEF Books, BookingInv
  <2>9. Paid \in Int /\ charge[c].paid \in Int
    BY <1>4, CentsTyped DEF Books, AmountsInv, BookingInv
  <2>10. Paid' + Owes(r)' = Received'
    BY <1>6, <1>9, <2>2, <2>3, <2>4, <2>6, <2>7, <2>8, <2>9
  <2>11. Read(r)'
    BY <1>2, <1>11 DEF Read
  <2> QED
    BY <1>10, <1>11, <2>1, <2>10, <2>11, WriterKeeps
<1>15. ASSUME ~met' PROVE \A i \in Intents : Unrefunded(i)'
  <2>1. \A i \in Intents : Unrefunded(i)
    BY <1>1, <1>15 DEF Books, AmountsInv, BalanceInv
  <2> QED
    BY <1>1, <1>10, <1>11, <2>1, UnrefundedKeeps
<1>16. ASSUME ~met', NEW d \in Charges PROVE StatusAgrees(d)'
  <2>1. StatusAgrees(d)
    BY <1>1, <1>16 DEF Books, AmountsInv, BalanceInv
  <2> QED
    BY <1>8, <1>9, <2>1 DEF StatusAgrees
<1> QED
  BY <1>9, <1>13, <1>14, <1>15, <1>16 DEF AmountsInv, BalanceInv

LEMMA SettleAmounts ==
  ASSUME Books, NEW f \in Functions, Settle(f)
  PROVE  AmountsInv' /\ Issued' = Issued
<1>1. /\ fun[f] # Free /\ fun[f].do = "recording" /\ fun[f].at = "settle"
      /\ UNCHANGED <<intent, happened, answered, booked, met>>
  BY FunAtActive DEF Settle
<1> PICK c : c = fun[f].charge
  OBVIOUS
<1>2. c \in Issued /\ c \in Charges
  BY <1>1, FunTyped DEF Carries, Issued
<1> PICK paid : paid = Price[c]
  OBVIOUS
<1>3. paid \in Int
  BY <1>2, PriceIs
<1>4. Writes(c, paid, "paid")
  BY DEF Settle, Amount, Writes
<1>5. /\ ChargesTyped' /\ Issued' = Issued
      /\ charge'[c].paid = paid /\ charge'[c].status = "paid"
      /\ \A d \in Charges : d # c => charge'[d] = charge[d]
      /\ Paid' \in Int /\ Paid' + charge[c].paid = Paid + paid
  BY <1>2, <1>3, <1>4, ChargeWritten
<1> PICK r : r = Free
  OBVIOUS
<1>6. FunBecomes(f, r)
  <2>1. fun' = [fun EXCEPT ![f] = Free]
    BY DEF Settle
  <2> QED
    BY <2>1, FunEnds DEF Books, BookingInv
<1>7. AmountsTyped'
  <2>1. BookedTyped'
    BY <1>1, <1>5 DEF BookedTyped, Books, AmountsInv, AmountsTyped
  <2>2. IntentsTyped'
    BY <1>1, <1>5, IntentsKeep DEF Books, AmountsInv, AmountsTyped
  <2> QED
    BY <1>5, <1>6, <2>1, <2>2, TypesKeep DEF Books, AmountsInv
<1>8. ASSUME ~met' PROVE Balanced'
  <2>1. Balanced /\ f \in MoneyWriters
    BY <1>1, <1>8 DEF Books, AmountsInv, BalanceInv, MoneyWriters, Active
  <2>2. Paid + Owes(fun[f]) = Received
    BY <2>1 DEF Balanced
  <2>3. Owes(fun[f]) = paid - charge[c].paid
    BY <1>1 DEF Owes
  <2>4. Received' = Received
    BY <1>1, ReceivedStays DEF Books, BookingInv
  <2>5. Paid \in Int /\ charge[c].paid \in Int
    BY <1>2, CentsTyped DEF Books, AmountsInv, BookingInv
  <2>6. Paid' = Received'
    BY <1>3, <1>5, <2>2, <2>3, <2>4, <2>5
  <2> QED
    BY <1>6, <2>1, <2>6, WriterKeeps
<1>9. ASSUME ~met' PROVE \A i \in Intents : Unrefunded(i)'
  <2>1. \A i \in Intents : Unrefunded(i)
    BY <1>1, <1>9 DEF Books, AmountsInv, BalanceInv
  <2> QED
    BY <1>1, <1>6, <2>1, UnrefundedKeeps
<1>10. ASSUME ~met', NEW d \in Charges PROVE StatusAgrees(d)'
  <2>1. StatusAgrees(d)
    BY <1>1, <1>10 DEF Books, AmountsInv, BalanceInv
  <2> QED
    BY <1>5, <2>1 DEF StatusAgrees
<1> QED
  BY <1>5, <1>7, <1>8, <1>9, <1>10 DEF AmountsInv, BalanceInv

-----------------------------------------------------------------------------
(* Payments: every step keeps the invariant *)

LEMMA PayAmounts ==
  ASSUME Books, NEW i \in Intents, NEW c \in Charges, Pay(i, c)
  PROVE  AmountsInv'
<1> PICK amount : amount = Remaining(c, charge[c].paid)
  OBVIOUS
<1>1. Collect(i, {}, c, amount) /\ c \in Issued /\ amount > 0
  BY DEF Pay, Open, Issued
<1>2. amount \in Nat
  BY LacksAre DEF Books, AmountsInv, AmountsTyped
<1>3. amount # 0
  BY <1>1, <1>2
<1> QED
  BY <1>1, <1>2, <1>3, CollectAmounts

LEMMA PaySeveralAmounts ==
  ASSUME Books, NEW i \in Intents, NEW charges \in (SUBSET Charges) \ {{}}, PaySeveral(i, charges)
  PROVE  AmountsInv'
<1> PICK amount : amount = MapThenSumSet(LAMBDA c : Remaining(c, charge[c].paid), charges)
  OBVIOUS
<1> PICK request : request = CHOOSE c \in charges : \A d \in charges \ {c} : Older(c, d)
  OBVIOUS
<1>1. Collect(i, charges, request, amount)
  BY DEF PaySeveral
<1>2. charges \subseteq Issued /\ charges # {} /\ charges \in SUBSET Charges
  BY DEF PaySeveral, Open, Issued
<1>3. ChargesTyped
  BY DEF Books, AmountsInv, AmountsTyped
<1>4. request \in charges
  <2>1. PICK c : Oldest(c, charges)
    BY <1>2, <1>3, OldestExists
  <2> QED
    BY <2>1 DEF Oldest
<1>5. amount \in Nat
  <2>1. IsFiniteSet(charges) /\ \A c \in charges : LacksOf[c] \in Nat
    BY <1>2, <1>3, ChargesFinite, LacksAre
  <2>2. Sum(LacksOf, charges) \in Nat
    BY <2>1, SumNat
  <2> QED
    BY <1>2, <2>2, LacksSum
<1> QED
  BY <1>1, <1>2, <1>4, <1>5, CollectAmounts

LEMMA NoPayment ==
  ASSUME Books, UNCHANGED paymentVars
  PROVE  AmountsInv'
<1>1. UNCHANGED <<charge, intent, happened, answered, booked, fun, met>>
  BY DEF paymentVars
<1>2. IntentsTyped'
  BY <1>1, IntentsKeep DEF Books, AmountsInv, AmountsTyped, Issued
<1> QED
  BY <1>1, <1>2, StripeAmounts

LEMMA PaymentsAmounts ==
  ASSUME Books, PaymentsNext
  PROVE  AmountsInv'
<1>1. ASSUME NEW f \in Functions, FunctionStep(f) PROVE AmountsInv'
  BY <1>1, CheckBookedAmounts, CreateTransactionAmounts, SplitAmounts, ReadChargeAmounts,
     WriteChargeAmounts, WriteLedgerAmounts, LinkAmounts, MarkRefundedAmounts, RefundDoneAmounts,
     ReadForRecordAmounts, BookOfflineAmounts, SettleAmounts DEF FunctionStep
<1>2. ASSUME NEW f \in Functions, RequestFails(f) \/ Killed(f) PROVE AmountsInv'
  BY <1>2, RequestFailsAmounts, KilledAmounts
<1>3. ASSUME NEW f \in Functions, NEW i \in Intents, NEW event \in Events, Deliver(f, i, event)
      PROVE  AmountsInv'
  BY <1>3, DeliverAmounts
<1>4. ASSUME NEW f \in Functions, NEW c \in Charges, RecordOffline(f, c) PROVE AmountsInv'
  BY <1>4, RecordOfflineAmounts
<1>5. ASSUME NEW i \in Intents, Refund(i) PROVE AmountsInv'
  BY <1>5, RefundAmounts
<1>6. ASSUME NEW i \in Intents, NEW c \in Charges, Pay(i, c) PROVE AmountsInv'
  BY <1>6, PayAmounts
<1> QED
  BY <1>1, <1>2, <1>3, <1>4, <1>5, <1>6 DEF PaymentsNext

LEMMA BooksAloneStep == Books /\ [PaymentsAlone]_paymentVars => Books'
<1> SUFFICES ASSUME Books, [PaymentsAlone]_paymentVars PROVE Books'
  OBVIOUS
<1>1. BookingInv'
  BY PaymentsAloneStep DEF Books
<1>2. CASE PaymentsNext
  BY <1>1, <1>2, PaymentsAmounts DEF Books
<1>3. ASSUME NEW i \in Intents, NEW charges \in (SUBSET Charges) \ {{}}, PaySeveral(i, charges)
      PROVE  Books'
  BY <1>1, <1>3, PaySeveralAmounts DEF Books
<1>4. CASE UNCHANGED paymentVars
  BY <1>1, <1>4, NoPayment DEF Books
<1> QED
  BY <1>2, <1>3, <1>4 DEF PaymentsAlone

\* Before any payment.
LEMMA NothingPaidAmounts ==
  ASSUME NothingPaid, DOMAIN charge = Charges,
         \A c \in Charges : /\ ChargeRow(charge[c]) /\ charge[c].status # "paid"
                            /\ charge[c].paid = 0 /\ charge[c].due \in Int
  PROVE  Books
<1>1. BookingInv
  BY NothingPaidBooks
<1>2. ChargesTyped
  BY DEF ChargesTyped
<1>3. DOMAIN booked = {} /\ Succeeded = {}
  BY DEF NothingPaid, Succeeded
<1>4. AmountsTyped
  BY <1>2, <1>3 DEF NothingPaid, AmountsTyped, IntentsTyped, BookedTyped, FunsTyped
<1>5. Balanced
  <2>1. Paid = 0
    <3>1. IsFiniteSet(Charges) /\ \A c \in Charges : PaidOf[c] = 0
      BY PaymentConstants DEF PaidOf
    <3> QED
      BY <3>1, SumZero DEF Paid
  <2>2. Received = 0
    BY <1>3, SumEmpty DEF Received
  <2>3. MoneyWriters = {}
    BY DEF NothingPaid, MoneyWriters, Active
  <2> QED
    BY <2>1, <2>2, <2>3 DEF Balanced
<1>6. \A i \in Intents : Unrefunded(i)
  BY <1>3 DEF Unrefunded, RowsOf
<1>7. \A c \in Charges : StatusAgrees(c)
  BY PriceIs DEF StatusAgrees
<1> QED
  BY <1>1, <1>4, <1>5, <1>6, <1>7 DEF Books, AmountsInv, BalanceInv

LEMMA BooksInitially == PaymentsInit(Charges) => Books
<1> SUFFICES ASSUME PaymentsInit(Charges) PROVE Books
  OBVIOUS
<1>1. DOMAIN charge = Charges
      /\ \A c \in Charges : charge[c] = [status |-> "active", paid |-> 0, due |-> c]
  BY DEF PaymentsInit
<1>2. \A c \in Charges : /\ ChargeRow(charge[c]) /\ charge[c].status # "paid"
                         /\ charge[c].paid = 0 /\ charge[c].due \in Int
  BY <1>1, PaymentConstants DEF ChargeRow
<1> QED
  BY <1>1, <1>2, NothingPaidAmounts DEF PaymentsInit

LEMMA SplitOfBooks == Books => SplitOldestFirst
BY SplitOfTyped DEF Books, AmountsInv, AmountsTyped

\* What the charges say was paid is what the transactions say was received, for any
\* charges, payments, deliveries and failures of the routes, unless two writers of
\* amounts meet, one stops short or a refund is handled twice.
THEOREM RoutesAddUp == PaymentsSpec => []MoneyAddsUp
<1>1. Books => MoneyAddsUp
  BY AddsUpOfInv DEF Books
<1> QED
  BY <1>1, BooksInitially, BooksAloneStep, PTL DEF PaymentsSpec

\* The shares of a split payment are the payment, oldest charges first.
THEOREM RoutesSplitOldestFirst == PaymentsSpec => []SplitOldestFirst
<1> QED
  BY BooksInitially, BooksAloneStep, SplitOfBooks, PTL DEF PaymentsSpec

-----------------------------------------------------------------------------
(* With the billing worker and the board *)

BillingBooks == Books /\ ChargingInv /\ WorkerAmounts

\* Charges change beside the payments: what is paid of them does not.
LEMMA ChargesChange ==
  ASSUME Books, UNCHANGED <<intent, happened, answered, booked, fun>>, met => met',
         ChargesTyped', Issued \subseteq Issued',
         ~met' => /\ \A c \in Charges : charge'[c].paid = charge[c].paid
                  /\ \A c \in Issued : charge'[c].due = charge[c].due
                  /\ \A c \in Charges : StatusAgrees(c)'
  PROVE  AmountsInv'
<1>1. AmountsTyped'
  <2>1. BookedTyped'
    BY DEF BookedTyped, Books, AmountsInv, AmountsTyped
  <2>2. IntentsTyped'
    BY IntentsKeep DEF Books, AmountsInv, AmountsTyped
  <2>3. FunsTyped'
    BY DEF FunsTyped, Carries, Books, AmountsInv, AmountsTyped
  <2> QED
    BY <2>1, <2>2, <2>3 DEF AmountsTyped
<1>2. ASSUME ~met' PROVE Balanced'
  <2>1. Balanced
    BY <1>2 DEF Books, AmountsInv, BalanceInv
  <2>2. MoneyWriters' = MoneyWriters /\ Received' = Received
    BY ReceivedStays DEF MoneyWriters, Active, Books, BookingInv
  <2> QED
    BY <1>2, <2>1, <2>2, OthersKeep
<1>3. ASSUME ~met' PROVE \A i \in Intents : Unrefunded(i)'
  BY <1>3 DEF Books, AmountsInv, BalanceInv, Unrefunded, Refunding, MoneyWriters, Active, RowsOf
<1> QED
  BY <1>1, <1>2, <1>3 DEF AmountsInv, BalanceInv

\* The routes issue no charge.
LEMMA PaymentsIssueNone ==
  ASSUME Books, PaymentsNext
  PROVE  Issued' = Issued /\ (met => met')
<1>1. ASSUME NEW f \in Functions, FunctionStep(f) PROVE Issued' = Issued /\ met' = met
  <2>1. CASE WriteCharge(f) \/ Settle(f)
    BY <2>1, WriteChargeAmounts, SettleAmounts DEF WriteCharge, Settle
  <2>2. CASE ~(WriteCharge(f) \/ Settle(f))
    <3>1. UNCHANGED <<charge, met>>
      BY <1>1, <2>2 DEF FunctionStep, CheckBooked, CreateTransaction, Split, ReadCharge, WriteLedger,
           Link, MarkRefunded, RefundDone, ReadForRecord, BookOffline
    <3> QED
      BY <3>1 DEF Issued
  <2> QED
    BY <2>1, <2>2
<1>2. ASSUME UNCHANGED charge PROVE Issued' = Issued
  BY <1>2 DEF Issued
<1>3. ASSUME NEW f \in Functions, RequestFails(f) \/ Killed(f) PROVE UNCHANGED charge /\ (met => met')
  BY <1>3 DEF RequestFails, Killed
<1>4. ASSUME NEW f \in Functions, NEW i \in Intents, NEW event \in Events, Deliver(f, i, event)
      PROVE  UNCHANGED charge /\ (met => met')
  BY <1>4 DEF Deliver, Enter
<1>5. ASSUME NEW f \in Functions, NEW c \in Charges, RecordOffline(f, c)
      PROVE  UNCHANGED charge /\ (met => met')
  BY <1>5 DEF RecordOffline, Enter
<1>6. ASSUME NEW i \in Intents, Refund(i) \/ \E c \in Charges : Pay(i, c)
      PROVE  UNCHANGED <<charge, met>>
  BY <1>6 DEF Refund, Pay, Collect
<1> QED
  BY <1>1, <1>2, <1>3, <1>4, <1>5, <1>6 DEF PaymentsNext

LEMMA PaymentsBilling ==
  ASSUME BillingBooks, PaymentsNext, UNCHANGED workerVars
  PROVE  AmountsInv' /\ WorkerAmounts'
<1>1. Issued' = Issued /\ (met => met') /\ AmountsInv'
  BY PaymentsIssueNone, PaymentsAmounts DEF BillingBooks
<1>2. UNCHANGED <<day, worker, rows>>
  BY DEF workerVars
<1>3. \A c \in Charges : charge'[c].status = "none" <=> charge[c].status = "none"
  BY <1>1 DEF Issued
<1> QED
  BY <1>1, <1>2, <1>3 DEF BillingBooks, WorkerAmounts

\* The worker and what it has seen, when nothing else changes.
LEMMA BooksRest ==
  ASSUME Books, UNCHANGED <<charge, intent, happened, answered, booked, fun, met>>
  PROVE  AmountsInv' /\ Issued' = Issued
<1>1. Issued' = Issued
  BY DEF Issued
<1>2. IntentsTyped'
  BY <1>1, IntentsKeep DEF Books, AmountsInv, AmountsTyped
<1> QED
  BY <1>1, <1>2, StripeAmounts

LEMMA RunOverBilling ==
  ASSUME BillingBooks, worker' = Asleep, UNCHANGED <<charge, rows>>, day' \in Int, met => met'
  PROVE  WorkerAmounts'
BY DEF BillingBooks, WorkerAmounts

LEMMA BeginBilling ==
  ASSUME BillingBooks, Begin
  PROVE  AmountsInv' /\ WorkerAmounts'
<1> DEFINE todo == Drafts(charge)
           w == [at |-> "generate", seen |-> charge, todo |-> todo, newest |-> floor]
<1>1. /\ worker' = w /\ UNCHANGED <<day, rows>>
      /\ UNCHANGED <<charge, intent, happened, answered, booked, fun, met>>
  BY DEF Begin, paymentVars
<1>2. todo \subseteq Periods
  BY DEF Drafts
<1> HIDE DEF todo
<1>3. w.at = "generate" /\ w.seen = charge /\ w.todo = todo
  OBVIOUS
<1> HIDE DEF w
<1>4. AmountsInv' /\ Issued' = Issued
  BY <1>1, BooksRest DEF BillingBooks
<1>5. \A c \in Charges : charge[c].paid \in Int /\ charge[c].due \in Int
  BY DEF BillingBooks, Books, AmountsInv, AmountsTyped, ChargesTyped
<1>6. \A c \in Charges : charge[c].status # "none" => c \in Issued
  BY DEF Issued
<1> QED
  BY <1>1, <1>2, <1>3, <1>4, <1>5, <1>6 DEF BillingBooks, WorkerAmounts

\* A charge or a fee that is written was not issued, unless one was canceled.
LEMMA InsertBilling ==
  ASSUME BillingBooks, worker # Asleep, NEW c \in worker.todo, NEW due \in Int, Insert(c, due),
         UNCHANGED <<intent, happened, answered, booked, fun, met, day>>
  PROVE  AmountsInv' /\ WorkerAmounts'
<1> PICK row : row = [status |-> "active", paid |-> 0, due |-> due]
  OBVIOUS
<1> DEFINE seen == [worker.seen EXCEPT ![c] = row]
           todo == worker.todo \ {c}
           newest == IF c \in Periods THEN c ELSE worker.newest
           w == [at |-> worker.at, seen |-> seen, todo |-> todo, newest |-> newest]
<1>1. charge' = [charge EXCEPT ![c] = row] /\ rows' = [rows EXCEPT ![c] = @ + 1]
  BY DEF Insert
<1>2. worker' = w
  <2> DEFINE at == worker.at
             s == worker.seen
             t == worker.todo
             n == worker.newest
  <2>1. worker = [at |-> at, seen |-> s, todo |-> t, newest |-> n]
    BY DEF BillingBooks, ChargingInv, WorkerInv
  <2>2. worker' = [worker EXCEPT !.todo = worker.todo \ {c}, !.seen = seen, !.newest = newest]
    BY DEF Insert
  <2> QED
    BY <2>1, <2>2
<1>3. ChargeRow(row) /\ row.status = "active" /\ row.paid = 0 /\ row.due = due
  BY DEF ChargeRow
<1>4. c \in Charges /\ rows[c] = 0 /\ rows[c] \in Nat
  BY DEF BillingBooks, ChargingInv, WorkerInv, ChargesInv
<1>5. ~met => charge[c].status = "none"
  BY <1>4 DEF BillingBooks, WorkerAmounts
<1>6. charge'[c] = row /\ DOMAIN charge' = Charges
      /\ \A d \in Charges : d # c => charge'[d] = charge[d]
  BY <1>1, <1>4 DEF BillingBooks, ChargingInv, ChargesInv
<1>7. ChargesTyped'
  BY <1>3, <1>6 DEF ChargesTyped, BillingBooks, Books, AmountsInv, AmountsTyped
<1>8. Issued \subseteq Issued' /\ c \in Issued'
  BY <1>3, <1>4, <1>6 DEF Issued
<1>9. ASSUME ~met
      PROVE  /\ \A d \in Charges : charge'[d].paid = charge[d].paid
             /\ \A d \in Issued : charge'[d].due = charge[d].due
             /\ \A d \in Charges : StatusAgrees(d)'
  <2>1. \A d \in Charges : StatusAgrees(d)
    BY <1>9 DEF BillingBooks, Books, AmountsInv, BalanceInv
  <2>2. charge[c].paid = 0 /\ c \notin Issued
    BY <1>4, <1>5, <1>9, <2>1 DEF StatusAgrees, Issued
  <2>3. 0 < Price[c]
    BY <1>4, PriceIs
  <2>4. \A d \in Issued : d \in Charges /\ d # c
    BY <2>2 DEF Issued
  <2> QED
    BY <1>3, <1>6, <2>1, <2>2, <2>3, <2>4 DEF StatusAgrees
<1>10. AmountsInv'
  BY <1>7, <1>8, <1>9, ChargesChange DEF BillingBooks
<1>11. /\ \A d \in Charges : seen[d].paid \in Int /\ seen[d].due \in Int
       /\ \A d \in Charges : seen[d].status # "none" => d \in Issued'
  <2>1. seen[c] = row /\ \A d \in Charges : d # c => seen[d] = worker.seen[d]
    BY <1>4 DEF BillingBooks, ChargingInv, WorkerInv
  <2> HIDE DEF seen
  <2> QED
    BY <1>3, <1>8, <2>1 DEF BillingBooks, WorkerAmounts
<1>12. worker.at = "generate" => todo \subseteq Periods
  BY DEF BillingBooks, WorkerAmounts
<1>13. ASSUME ~met, NEW d \in Charges, rows'[d] = 0 PROVE charge'[d].status = "none"
  <2>1. rows'[c] = rows[c] + 1 /\ (d # c => rows'[d] = rows[d])
    BY <1>1, <1>4 DEF BillingBooks, ChargingInv, ChargesInv
  <2>2. d # c
    BY <1>4, <1>13, <2>1
  <2> QED
    BY <1>6, <1>13, <2>1, <2>2 DEF BillingBooks, WorkerAmounts
<1> HIDE DEF seen, todo, newest
<1>14. w.at = worker.at /\ w.seen = seen /\ w.todo = todo
  OBVIOUS
<1> HIDE DEF w
<1>15. WorkerAmounts'
  BY <1>2, <1>11, <1>12, <1>13, <1>14 DEF BillingBooks, WorkerAmounts
<1> QED
  BY <1>10, <1>15

LEMMA GenerateChargeBilling ==
  ASSUME BillingBooks, GenerateCharge
  PROVE  AmountsInv' /\ WorkerAmounts'
<1> PICK p : p = Min(worker.todo)
  OBVIOUS
<1>1. /\ worker # Asleep /\ worker.at = "generate" /\ worker.todo # {} /\ Insert(p, DueOn[p])
      /\ UNCHANGED <<intent, happened, answered, booked, fun, met, day>>
  BY AtAwake DEF GenerateCharge, At
<1>2. p \in worker.todo
  BY <1>1, TodoMin DEF BillingBooks
<1>3. p \in Periods
  BY <1>1, <1>2 DEF BillingBooks, WorkerAmounts
<1>4. DueOn[p] \in Int
  BY <1>3, BillingConstants
<1> QED
  BY <1>1, <1>2, <1>4, InsertBilling

LEMMA ApplyFeeBilling ==
  ASSUME BillingBooks, ApplyFee
  PROVE  AmountsInv' /\ WorkerAmounts'
<1> PICK c : c = Min(worker.todo)
  OBVIOUS
<1>1. /\ worker # Asleep /\ worker.todo # {} /\ Insert(c, day)
      /\ UNCHANGED <<intent, happened, answered, booked, fun, met, day>>
  BY AtAwake DEF ApplyFee
<1>2. c \in worker.todo
  BY <1>1, TodoMin DEF BillingBooks
<1>3. day \in Int
  BY DEF BillingBooks, WorkerAmounts
<1> QED
  BY <1>1, <1>2, <1>3, InsertBilling

LEMMA PatchScheduleBilling ==
  ASSUME BillingBooks, PatchSchedule
  PROVE  AmountsInv' /\ WorkerAmounts'
<1>1. worker # Asleep /\ worker' = [worker EXCEPT !.at = "fees", !.todo = FeesDue]
      /\ UNCHANGED <<charge, intent, happened, answered, booked, fun, met, day, rows>>
  BY AtAwake DEF PatchSchedule, paymentVars
<1>2. AmountsInv' /\ Issued' = Issued
  BY <1>1, BooksRest DEF BillingBooks
<1>3. worker'.seen = worker.seen /\ worker'.at = "fees"
  <2>1. DOMAIN worker = {"at", "seen", "todo", "newest"}
    BY <1>1, RunIs DEF BillingBooks, ChargingInv
  <2> HIDE DEF FeesDue
  <2> QED
    BY <1>1, <2>1
<1> QED
  BY <1>1, <1>2, <1>3 DEF BillingBooks, WorkerAmounts

\* An overdue charge is marked, whatever was paid of it since it was read; one that
\* was paid in full is the race that `met` leaves out.
LEMMA MarkOverdueBilling ==
  ASSUME BillingBooks, MarkOverdue
  PROVE  AmountsInv' /\ WorkerAmounts'
<1>1. /\ worker # Asleep /\ worker.at = "fees"
      /\ UNCHANGED <<intent, happened, answered, booked, fun, day, rows>>
  BY AtAwake DEF MarkOverdue, At
<1>2. DOMAIN worker = {"at", "seen", "todo", "newest"} /\ DOMAIN worker.seen = Charges
      /\ \A c \in Charges : ChargeRow(worker.seen[c])
  BY <1>1, RunIs DEF BillingBooks, ChargingInv, WorkerInv
<1>3. CASE ToMark = {}
  <2>1. worker' = [worker EXCEPT !.at = "autopay"] /\ UNCHANGED <<charge, met>>
    BY <1>3 DEF MarkOverdue
  <2>2. AmountsInv' /\ Issued' = Issued
    BY <1>1, <2>1, BooksRest DEF BillingBooks
  <2>3. worker'.seen = worker.seen /\ worker'.at = "autopay"
    BY <1>2, <2>1
  <2> QED
    BY <1>1, <2>1, <2>2, <2>3 DEF BillingBooks, WorkerAmounts
<1>4. CASE ToMark # {}
  <2> PICK p : p = Min(ToMark)
    OBVIOUS
  <2>1. p \in ToMark
    <3>1. ToMark \subseteq Nat
      BY BillingConstants, PaymentConstants DEF ToMark
    <3> QED
      BY <1>4, <3>1, MinIn
  <2>2. p \in Charges /\ worker.seen[p].status # "none"
    BY <2>1 DEF ToMark, Overdue, Known
  <2> PICK marked : marked = [worker.seen[p] EXCEPT !.status = "overdue"]
    OBVIOUS
  <2> PICK row : row = [charge[p] EXCEPT !.status = "overdue"]
    OBVIOUS
  <2>3. /\ charge' = [charge EXCEPT ![p] = row]
        /\ worker' = [worker EXCEPT !.seen = [worker.seen EXCEPT ![p] = marked]]
        /\ met' = (met \/ Remaining(p, charge[p].paid) = 0)
    BY <1>4 DEF MarkOverdue
  <2>4. ChargesTyped /\ p \in Issued
    BY <1>1, <2>2 DEF BillingBooks, WorkerAmounts, Books, AmountsInv, AmountsTyped
  <2>5. /\ ChargeRow(row) /\ row.status = "overdue" /\ row.paid = charge[p].paid /\ row.due = charge[p].due
        /\ marked.status = "overdue" /\ marked.paid = worker.seen[p].paid
        /\ marked.due = worker.seen[p].due
    <3>1. ChargeRow(charge[p]) /\ ChargeRow(worker.seen[p])
      BY <1>2, <2>2, <2>4 DEF ChargesTyped
    <3> QED
      BY <3>1 DEF ChargeRow
  <2>6. charge'[p] = row /\ DOMAIN charge' = Charges
        /\ \A d \in Charges : d # p => charge'[d] = charge[d]
    BY <2>2, <2>3, <2>4 DEF ChargesTyped
  <2>7. ChargesTyped' /\ Issued' = Issued
    <3>1. ChargesTyped'
      BY <2>4, <2>5, <2>6 DEF ChargesTyped
    <3>2. \A d \in Charges : charge'[d].status # "none" <=> charge[d].status # "none"
      BY <2>4, <2>5, <2>6 DEF Issued
    <3> QED
      BY <3>1, <3>2 DEF Issued
  <2>8. ASSUME ~met'
        PROVE  /\ \A d \in Charges : charge'[d].paid = charge[d].paid
               /\ \A d \in Issued : charge'[d].due = charge[d].due
               /\ \A d \in Charges : StatusAgrees(d)'
    <3>1. ~met /\ Remaining(p, charge[p].paid) # 0
      BY <2>3, <2>8
    <3>2. \A d \in Charges : StatusAgrees(d)
      BY <3>1 DEF BillingBooks, Books, AmountsInv, BalanceInv
    <3>3. charge[p].paid < Price[p]
      <4>1. charge[p].paid \in Int /\ Price[p] \in Int
        BY <2>2, <2>4, PriceIs DEF ChargesTyped
      <4> QED
        BY <3>1, <4>1 DEF Remaining, Amount
    <3>4. \A d \in Issued : d \in Charges
      BY DEF Issued
    <3> QED
      BY <2>5, <2>6, <3>2, <3>3, <3>4 DEF StatusAgrees
  <2>9. AmountsInv'
    BY <1>1, <2>3, <2>7, <2>8, ChargesChange DEF BillingBooks
  <2>10. /\ worker'.at = "fees"
         /\ worker'.seen[p] = marked
         /\ \A d \in Charges : d # p => worker'.seen[d] = worker.seen[d]
    BY <1>1, <1>2, <2>2, <2>3
  <2>11. ~met' => \A d \in Charges : rows'[d] = 0 => charge'[d].status = "none"
    <3>1. \A d \in Charges : charge'[d].status = "none" <=> charge[d].status = "none"
      BY <2>7 DEF Issued
    <3> QED
      BY <1>1, <2>3, <3>1 DEF BillingBooks, WorkerAmounts
  <2>12. \A d \in Charges : /\ worker'.seen[d].paid \in Int /\ worker'.seen[d].due \in Int
                            /\ worker'.seen[d].status # "none" => d \in Issued'
    <3>1. \A d \in Charges : /\ worker.seen[d].paid \in Int /\ worker.seen[d].due \in Int
                             /\ worker.seen[d].status # "none" => d \in Issued
      BY <1>1 DEF BillingBooks, WorkerAmounts
    <3>2. marked.paid \in Int /\ marked.due \in Int
      BY <2>2, <2>5, <3>1
    <3> QED
      BY <2>4, <2>7, <2>10, <3>1, <3>2
  <2>13. day' \in Int
    BY <1>1 DEF BillingBooks, WorkerAmounts
  <2> QED
    BY <2>9, <2>10, <2>11, <2>12, <2>13 DEF WorkerAmounts
<1> QED
  BY <1>3, <1>4

\* What the worker has seen lacking, and its oldest.
SeenLacks == [c \in Charges |-> Remaining(c, worker.seen[c].paid)]

LEMMA SeenSum ==
  ASSUME NEW T \in SUBSET Charges
  PROVE  MapThenSumSet(LAMBDA c : Remaining(c, worker.seen[c].paid), T) = Sum(SeenLacks, T)
<1> DEFINE P(it) == it = [s \in SUBSET T |->
                            IF s = {} THEN 0
                            ELSE Remaining(Chosen(s), worker.seen[Chosen(s)].paid) + it[s \ {Chosen(s)}]]
<1>1. ASSUME NEW it PROVE P(it) <=> Sums(it, SeenLacks, T)
  <2>1. \A s \in SUBSET T : s # {} =>
          SeenLacks[Chosen(s)] = Remaining(Chosen(s), worker.seen[Chosen(s)].paid)
    BY ChosenIn DEF SeenLacks
  <2> QED
    BY <2>1 DEF Sums
<1>2. MapThenSumSet(LAMBDA c : Remaining(c, worker.seen[c].paid), T) = (CHOOSE it : P(it))[T]
  BY DEF MapThenSumSet, MapThenFoldSet, Chosen
<1> HIDE DEF P
<1>3. \E it : P(it)
  BY <1>1, ChargesFinite, SumsExist
<1>4. Sums(CHOOSE it : P(it), SeenLacks, T)
  BY <1>1, <1>3
<1> QED
  BY <1>2, <1>4, ChargesFinite, SumIs

SeenOlder(c, d) ==
    \/ worker.seen[c].due < worker.seen[d].due
    \/ worker.seen[c].due = worker.seen[d].due /\ c < d

LEMMA SeenOldest ==
  ASSUME NEW S \in SUBSET Charges, S # {}, \A c \in S : worker.seen[c].due \in Int
  PROVE  \E c \in S : \A d \in S \ {c} : SeenOlder(c, d)
<1> DEFINE R == {ss \in S \X S : SeenOlder(ss[1], ss[2])}
<1>1. \A c, d \in S : <<c, d>> \in R <=> SeenOlder(c, d)
  OBVIOUS
<1> HIDE DEF R
<1>2. \A c \in S : c \in Int
  BY PaymentConstants
<1>3. /\ \A c \in S : ~SeenOlder(c, c)
      /\ \A c, d \in S : c # d => SeenOlder(c, d) \/ SeenOlder(d, c)
      /\ \A c, d, e \in S : SeenOlder(c, d) /\ SeenOlder(d, e) => SeenOlder(c, e)
  BY <1>2 DEF SeenOlder
<1>4. Orders(R, S)
  BY <1>1, <1>3 DEF Orders
<1>5. PICK c : First(R, S, c)
  BY <1>4, ChargesFinite, FirstExists
<1> QED
  BY <1>1, <1>5 DEF First

LEMMA AutopayBilling ==
  ASSUME BillingBooks, NEW i \in Intents, NEW declined \in BOOLEAN, Autopay(i, declined)
  PROVE  AmountsInv' /\ WorkerAmounts'
<1>1. worker # Asleep /\ worker' = Asleep /\ UNCHANGED <<charge, day, rows, met>>
  BY AtAwake DEF Autopay, Collect, paymentVars
<1>2. WorkerAmounts'
  <2>1. day \in Int
    BY DEF BillingBooks, WorkerAmounts
  <2> QED
    BY <1>1, <2>1, RunOverBilling
<1>3. CASE UNCHANGED paymentVars
  BY <1>2, <1>3, NoPayment DEF BillingBooks
<1>4. CASE ~UNCHANGED paymentVars
  <2> PICK charges : charges = OpenSeen
    OBVIOUS
  <2> PICK amount : amount = MapThenSumSet(LAMBDA c : Remaining(c, worker.seen[c].paid), charges)
    OBVIOUS
  <2> PICK request : request = CHOOSE c \in charges : \A d \in charges \ {c} : SeenOlder(c, d)
    OBVIOUS
  <2>1. charges # {} /\ Collect(i, charges, request, amount)
    BY <1>4 DEF Autopay, SeenOlder
  <2>2. charges \in SUBSET Charges /\ charges \subseteq Issued
    BY <1>1 DEF OpenSeen, Known, BillingBooks, WorkerAmounts
  <2>3. \A c \in charges : worker.seen[c].paid \in Int /\ worker.seen[c].due \in Int
    BY <1>1, <2>2 DEF BillingBooks, WorkerAmounts
  <2>4. request \in charges
    BY <2>1, <2>2, <2>3, SeenOldest
  <2>5. amount \in Nat
    <3>1. \A c \in charges : SeenLacks[c] = Remaining(c, worker.seen[c].paid) /\ Price[c] \in Int
      BY <2>2, PriceIs DEF SeenLacks
    <3>2. ASSUME NEW c \in charges PROVE SeenLacks[c] \in Nat
      <4> PICK paid \in Int : paid = worker.seen[c].paid
        BY <2>3
      <4> PICK price \in Int : price = Price[c]
        BY <3>1
      <4>1. SeenLacks[c] = IF price > paid THEN price - paid ELSE 0
        BY <3>1 DEF Remaining, Amount
      <4>2. (IF price > paid THEN price - paid ELSE 0) \in Nat
        OBVIOUS
      <4> QED
        BY <4>1, <4>2
    <3>3. Sum(SeenLacks, charges) \in Nat
      BY <2>2, <3>2, ChargesFinite, SumNat
    <3> QED
      BY <2>2, <3>3, SeenSum
  <2> QED
    BY <1>2, <2>1, <2>2, <2>4, <2>5, CollectAmounts DEF BillingBooks
<1> QED
  BY <1>3, <1>4

LEMMA CancelBilling ==
  ASSUME BillingBooks, NEW c \in Charges, Cancel(c)
  PROVE  AmountsInv' /\ WorkerAmounts'
<1> PICK row : row = [charge[c] EXCEPT !.status = "canceled"]
  OBVIOUS
<1>1. /\ charge' = [charge EXCEPT ![c] = row] /\ met' /\ charge[c].status # "none"
      /\ UNCHANGED <<intent, happened, answered, booked, fun, day, worker>>
  BY DEF Cancel
<1>2. ChargesTyped
  BY DEF BillingBooks, Books, AmountsInv, AmountsTyped
<1>3. ChargeRow(row) /\ row.status = "canceled" /\ row.paid = charge[c].paid /\ row.due = charge[c].due
  <2>1. ChargeRow(charge[c])
    BY <1>2 DEF ChargesTyped
  <2> QED
    BY <2>1 DEF ChargeRow
<1>4. charge'[c] = row /\ DOMAIN charge' = Charges
      /\ \A d \in Charges : d # c => charge'[d] = charge[d]
  BY <1>1, <1>2 DEF ChargesTyped
<1>5. ChargesTyped' /\ Issued' = Issued
  <2>1. ChargesTyped'
    BY <1>2, <1>3, <1>4 DEF ChargesTyped
  <2>2. \A d \in Charges : charge'[d].status # "none" <=> charge[d].status # "none"
    BY <1>1, <1>3, <1>4
  <2> QED
    BY <2>1, <2>2 DEF Issued
<1>6. AmountsInv'
  BY <1>1, <1>5, ChargesChange DEF BillingBooks
<1>7. WorkerAmounts'
  BY <1>1, <1>5 DEF BillingBooks, WorkerAmounts
<1> QED
  BY <1>6, <1>7

LEMMA BillingBooksStep == BillingBooks /\ [BillingNext]_billingVars => BillingBooks'
<1> SUFFICES ASSUME BillingBooks, [BillingNext]_billingVars PROVE AmountsInv' /\ WorkerAmounts'
  BY BillingBookingStep, ChargingStep DEF BillingBooks, Books
<1>1. CASE PaymentsNext /\ UNCHANGED workerVars
  BY <1>1, PaymentsBilling
<1>2. CASE Begin
  BY <1>2, BeginBilling
<1>3. CASE WorkerStep
  BY <1>3, GenerateChargeBilling, PatchScheduleBilling, ApplyFeeBilling, MarkOverdueBilling,
     AutopayBilling DEF WorkerStep
<1>4. CASE RunEnds
  <2>1. worker' = Asleep /\ UNCHANGED <<charge, intent, happened, answered, booked, fun, met, day, rows>>
    BY <1>4 DEF RunEnds
  <2>2. day \in Int
    BY DEF BillingBooks, WorkerAmounts
  <2> QED
    BY <2>1, <2>2, BooksRest, RunOverBilling DEF BillingBooks
<1>5. CASE NextDay
  <2>1. /\ worker' = Asleep /\ day' = day + 1
        /\ UNCHANGED <<charge, intent, happened, answered, booked, fun, met, rows>>
    BY <1>5 DEF NextDay, paymentVars
  <2>2. day' \in Int
    BY <2>1 DEF BillingBooks, WorkerAmounts
  <2> QED
    BY <2>1, <2>2, BooksRest, RunOverBilling DEF BillingBooks
<1>6. ASSUME NEW c \in Charges, Cancel(c) PROVE AmountsInv' /\ WorkerAmounts'
  BY <1>6, CancelBilling
<1>7. CASE UNCHANGED billingVars
  <2>1. UNCHANGED <<charge, intent, happened, answered, booked, fun, met, day, worker, rows>>
    BY <1>7 DEF billingVars, paymentVars, workerVars
  <2>2. AmountsInv' /\ Issued' = Issued
    BY <2>1, BooksRest DEF BillingBooks
  <2> QED
    BY <2>1, <2>2 DEF BillingBooks, WorkerAmounts
<1> QED
  BY <1>1, <1>2, <1>3, <1>4, <1>5, <1>6, <1>7 DEF BillingNext

LEMMA BillingBooksInitially == BillingInit => BillingBooks
<1> SUFFICES ASSUME BillingInit PROVE BillingBooks
  OBVIOUS
<1>1. DOMAIN charge = Charges
      /\ \A c \in Charges : charge[c] = [status |-> "none", paid |-> 0, due |-> 0]
  BY DEF BillingInit, NoCharge
<1>2. Books
  <2>1. \A c \in Charges : /\ ChargeRow(charge[c]) /\ charge[c].status # "paid"
                           /\ charge[c].paid = 0 /\ charge[c].due \in Int
    BY <1>1 DEF ChargeRow
  <2> QED
    BY <1>1, <2>1, NothingPaidAmounts DEF BillingInit
<1>3. WorkerAmounts
  BY <1>1 DEF BillingInit, WorkerAmounts
<1> QED
  BY <1>2, <1>3, BillingInitially DEF BillingBooks

\* With the worker issuing charges, marking them and taking autopay, and the board
\* canceling, the charges still add up to the transactions.
THEOREM WorkerAddsUp == BillingSpec => []MoneyAddsUp
<1>1. BillingBooks => MoneyAddsUp
  BY AddsUpOfInv DEF BillingBooks, Books
<1> QED
  BY <1>1, BillingBooksInitially, BillingBooksStep, PTL DEF BillingSpec

\* And a payment of whatever is issued then is split oldest first.
THEOREM WorkerSplitsOldestFirst == BillingSpec => []SplitOldestFirst
<1>1. BillingBooks => SplitOldestFirst
  BY SplitOfBooks DEF BillingBooks
<1> QED
  BY <1>1, BillingBooksInitially, BillingBooksStep, PTL DEF BillingSpec

-----------------------------------------------------------------------------
(* The types of the dues: what the amounts do not say, each of it by itself *)

Days == 0..LastDay + Ahead
Started == {"booking", "linking", "refunding"}
IssueTypes ==
    /\ charge = [c \in Charges |-> charge[c]]
    /\ \A c \in Charges : charge[c].status \in Statuses /\ charge[c].due \in Days
IntentRow(r) ==
    r = [charges |-> r.charges, request |-> r.request, amount |-> r.amount] /\ r.amount > 0
IntentTypes ==
    /\ intent = [i \in Intents |-> intent[i]]
    /\ \A i \in Intents : intent[i] # NoIntent => IntentRow(intent[i])
EventTypes == happened \subseteq Intents \X Started /\ answered \subseteq happened
BookTypes ==
    \A n \in DOMAIN booked :
        /\ booked[n].intent \in Intents \cup {Manual} /\ booked[n].amount > 0
        /\ booked[n].status \in {"succeeded", "refunded"} /\ booked[n].linked \in BOOLEAN
RaceTypes == raced \subseteq Intents /\ met \in BOOLEAN
DayTypes == day \in 1..LastDay /\ floor \in {0} \cup Periods /\ keys \subseteq 1..LastDay
RunTypes ==
    worker # Asleep =>
        /\ worker.newest \in {0} \cup Periods
        /\ \A c \in Charges : worker.seen[c].status \in Statuses /\ worker.seen[c].due \in Days
        /\ worker.at = "generate" => \A p \in worker.todo : DueOn[p] \in Days
WorkerTypes == DayTypes /\ RunTypes
PaymentTypes == IssueTypes /\ IntentTypes /\ EventTypes /\ BookTypes /\ RaceTypes
DuesInv == BillingBooks /\ PaymentTypes /\ WorkerTypes

LEMMA TypesOfDues ==
  ASSUME Books, PaymentTypes, DayTypes
  PROVE  BillingTypeOK
<1>1. charge \in [Charges -> [status : Statuses, paid : Int, due : 0..LastDay + Ahead]]
  <2>1. \A c \in Charges : charge[c] \in [status : Statuses, paid : Int, due : Days]
    BY DEF PaymentTypes, IssueTypes, Books, AmountsInv, AmountsTyped,
       ChargesTyped, ChargeRow
  <2>2. charge = [c \in Charges |-> charge[c]]
    BY DEF PaymentTypes, IssueTypes
  <2> QED
    BY <2>1, <2>2 DEF Days
<1>2. intent \in [Intents -> [charges : SUBSET Charges, request : Charges \cup {0}, amount : Nat]]
  <2>1. ASSUME NEW i \in Intents
        PROVE  intent[i] \in [charges : SUBSET Charges, request : Charges \cup {0}, amount : Nat]
    <3>1. CASE intent[i] = NoIntent
      BY <3>1 DEF NoIntent
    <3>2. CASE intent[i] # NoIntent
      <4>1. Collected(i) /\ IntentRow(intent[i])
        BY <3>2 DEF PaymentTypes, IntentTypes, Books, AmountsInv, AmountsTyped,
           IntentsTyped
      <4>2. Issued \subseteq Charges
        BY DEF Issued
      <4> QED
        BY <4>1, <4>2 DEF Collected, IntentRow
    <3> QED
      BY <3>1, <3>2
  <2>2. intent = [i \in Intents |-> intent[i]]
    BY DEF PaymentTypes, IntentTypes
  <2> QED
    BY <2>1, <2>2
<1>3. booked \in Seq([intent : Intents \cup {Manual}, amount : Nat \ {0},
                      status : {"succeeded", "refunded"}, request : Charges, linked : BOOLEAN])
  <2> DEFINE Rows == [intent : Intents \cup {Manual}, amount : Nat \ {0},
                      status : {"succeeded", "refunded"}, request : Charges, linked : BOOLEAN]
  <2>1. \A n \in DOMAIN booked : booked[n] \in Rows
    <3>1. \A n \in DOMAIN booked :
            /\ Transaction(booked[n])
            /\ booked[n].intent \in Intents \cup {Manual} /\ booked[n].amount \in Nat \ {0}
            /\ booked[n].status \in {"succeeded", "refunded"} /\ booked[n].linked \in BOOLEAN
            /\ booked[n].request \in Charges
      BY DEF PaymentTypes, BookTypes, Books, BookingInv, LedgerInv, AmountsInv,
         AmountsTyped, BookedTyped, Issued
    <3> QED
      BY <3>1 DEF Transaction
  <2> HIDE DEF Rows
  <2>2. PICK S : booked \in Seq(S)
    BY DEF Books, BookingInv, LedgerInv
  <2>3. DOMAIN booked = 1..Len(booked) /\ Len(booked) \in Nat /\ booked = [n \in DOMAIN booked |-> booked[n]]
    BY <2>2
  <2>4. booked \in [1..Len(booked) -> Rows]
    BY <2>1, <2>3
  <2>5. booked \in Seq(Rows)
    BY <2>3, <2>4
  <2> QED
    BY <2>5 DEF Rows
<1>4. told \in [Intents -> Nat]
  BY DEF Books, BookingInv, LedgerInv
<1>5. happened \subseteq Intents \X Started /\ answered \subseteq happened
  BY DEF PaymentTypes, EventTypes
<1>6. raced \subseteq Intents /\ met \in BOOLEAN
  BY DEF PaymentTypes, RaceTypes
<1> QED
  BY <1>1, <1>2, <1>3, <1>4, <1>5, <1>6 DEF BillingTypeOK, Started, DayTypes

\* A payment writes amount and status of a charge that stays what it was.
LEMMA WrittenTypes ==
  ASSUME ChargesTyped, IssueTypes, NEW c \in Charges, NEW paid, NEW status \in Statuses,
         Writes(c, paid, status)
  PROVE  IssueTypes'
<1> PICK row : row = PaidRow(charge[c], paid, status)
  OBVIOUS
<1>1. charge' = [charge EXCEPT ![c] = row]
  <2>1. \/ charge' = [charge EXCEPT ![c] = [[charge[c] EXCEPT !.paid = paid] EXCEPT !.status = status]]
        \/ charge' = [charge EXCEPT ![c] = [[charge[c] EXCEPT !.status = status] EXCEPT !.paid = paid]]
    BY DEF ChargesTyped, Writes
  <2>2. ChargeRow(charge[c])
    BY DEF ChargesTyped
  <2>3. /\ [[charge[c] EXCEPT !.paid = paid] EXCEPT !.status = status] = row
        /\ [[charge[c] EXCEPT !.status = status] EXCEPT !.paid = paid] = row
    BY <2>2, PaidRowIs
  <2> QED
    BY <2>1, <2>3
<1>2. row.status = status /\ row.due = charge[c].due
  BY DEF PaidRow
<1> QED
  BY <1>1, <1>2 DEF ChargesTyped, IssueTypes

LEMMA FunctionIssues ==
  ASSUME Books, IssueTypes, NEW f \in Functions, FunctionStep(f)
  PROVE  IssueTypes'
<1>1. ChargesTyped
  BY DEF Books, AmountsInv, AmountsTyped
<1>2. CASE WriteCharge(f)
  <2> PICK c : c = Current(f)
    OBVIOUS
  <2> PICK paid : paid = fun[f].seen.paid + fun[f].left[c]
    OBVIOUS
  <2> PICK status : status = StatusOf(c, paid)
    OBVIOUS
  <2>1. fun[f] # Free /\ fun[f].at = "write"
    BY <1>2 DEF WriteCharge
  <2>2. DOMAIN fun[f].left # {}
    BY <2>1, FunTyped DEF Carries
  <2>3. c \in Charges
    BY <2>1, <2>2, CurrentIn
  <2>4. Writes(c, paid, status)
    BY <1>2 DEF WriteCharge, NewPaid, Writes
  <2>5. status \in Statuses
    BY DEF StatusOf, Statuses
  <2> QED
    BY <1>1, <2>3, <2>4, <2>5, WrittenTypes
<1>3. CASE Settle(f)
  <2> PICK c : c = fun[f].charge
    OBVIOUS
  <2>1. fun[f] # Free /\ fun[f].do = "recording"
    BY <1>3, FunAtActive DEF Settle
  <2>2. c \in Charges
    BY <2>1, FunTyped DEF Carries, Issued
  <2>3. Writes(c, Price[c], "paid") /\ "paid" \in Statuses
    BY <1>3 DEF Settle, Amount, Writes, Statuses
  <2> QED
    BY <1>1, <2>2, <2>3, WrittenTypes
<1>4. CASE ~WriteCharge(f) /\ ~Settle(f)
  <2>1. UNCHANGED charge
    BY <1>4 DEF FunctionStep, CheckBooked, CreateTransaction, Split, ReadCharge, WriteLedger, Link,
       MarkRefunded, RefundDone, ReadForRecord, BookOffline
  <2> QED
    BY <2>1 DEF IssueTypes
<1> QED
  BY <1>2, <1>3, <1>4

\* Only what happened is answered.
LEMMA AnswerTypes ==
  ASSUME Books, EventTypes, NEW f \in Functions, fun[f] # Free, UNCHANGED happened,
         answered' = answered \/ (fun[f].do # "recording" /\ Answer(f))
  PROVE  EventTypes'
<1>1. CASE answered' = answered
  BY <1>1 DEF EventTypes
<1>2. CASE fun[f].do # "recording" /\ Answer(f)
  <2>1. answered' = answered \cup {<<fun[f].intent, fun[f].do>>}
    BY <1>2, AnswerIs
  <2>2. <<fun[f].intent, fun[f].do>> \in happened
    BY <1>2 DEF Books, BookingInv, FunInv
  <2> QED
    BY <2>1, <2>2 DEF EventTypes
<1> QED
  BY <1>1, <1>2

LEMMA FunctionEvents ==
  ASSUME Books, EventTypes, NEW f \in Functions, FunctionStep(f)
  PROVE  EventTypes' /\ UNCHANGED <<intent, raced, met>>
<1>1. UNCHANGED <<happened, intent, raced, met>>
  BY DEF FunctionStep, CheckBooked, CreateTransaction, Split, ReadCharge, WriteLedger, Link,
     MarkRefunded, RefundDone, ReadForRecord, BookOffline, WriteCharge, Settle
<1>2. CASE UNCHANGED answered
  BY <1>1, <1>2 DEF EventTypes
<1>3. CASE ~UNCHANGED answered
  <2>1. CheckBooked(f) \/ WriteLedger(f) \/ Link(f) \/ MarkRefunded(f) \/ RefundDone(f)
    BY <1>3 DEF FunctionStep, CreateTransaction, Split, ReadCharge,
       ReadForRecord, BookOffline, WriteCharge, Settle
  <2>2. Answer(f)
    BY <1>3, <2>1 DEF CheckBooked, WriteLedger, Link, MarkRefunded, RefundDone
  <2>3. fun[f] # Free /\ fun[f].do # "recording"
    BY <2>1, FunAtActive DEF CheckBooked, WriteLedger, Link, MarkRefunded, RefundDone
  <2> QED
    BY <1>1, <2>2, <2>3, AnswerTypes
<1> QED
  BY <1>1, <1>2, <1>3

BookedRow(e) ==
    /\ e.intent \in Intents \cup {Manual} /\ e.amount > 0
    /\ e.status \in {"succeeded", "refunded"} /\ e.linked \in BOOLEAN
LEMMA BookedMore ==
  ASSUME Books, BookTypes, NEW i \in Intents \cup {Manual}, NEW amount \in Int, amount > 0, NEW request,
         booked' = Append(booked, Row(i, amount, request))
  PROVE  BookTypes'
<1> PICK e : e = Row(i, amount, request)
  OBVIOUS
<1>1. Transaction(e) /\ BookedRow(e)
  BY DEF Row, Transaction, BookedRow
<1>2. PICK m : /\ DOMAIN booked' = DOMAIN booked \cup {m} /\ booked'[m] = e
               /\ \A n \in DOMAIN booked : booked'[n] = booked[n]
  BY <1>1, Appended DEF Books, BookingInv
<1> QED
  BY <1>1, <1>2 DEF BookTypes, BookedRow

LEMMA BookedOther ==
  ASSUME Books, BookTypes, NEW m \in DOMAIN booked, NEW e,
         \/ e = [booked[m] EXCEPT !.linked = TRUE]
         \/ e = [booked[m] EXCEPT !.status = "refunded"],
         booked' = [booked EXCEPT ![m] = e]
  PROVE  BookTypes'
<1>1. Transaction(booked[m]) /\ BookedRow(booked[m])
  BY DEF Books, BookingInv, LedgerInv, BookTypes, BookedRow
<1>2. Transaction(e) /\ BookedRow(e)
  <2> PICK r : r = booked[m]
    OBVIOUS
  <2>1. Transaction(r) /\ BookedRow(r) /\ DOMAIN r = {"intent", "amount", "status", "request", "linked"}
    BY <1>1 DEF Transaction
  <2>2. CASE e = [r EXCEPT !.linked = TRUE]
    <3>1. /\ Transaction(e) /\ e.linked = TRUE
          /\ e.status = r.status /\ e.intent = r.intent /\ e.amount = r.amount
      BY <2>1, <2>2, TransactionFields, TransactionSame
    <3> QED
      BY <2>1, <3>1 DEF BookedRow
  <2>3. CASE e = [r EXCEPT !.status = "refunded"]
    <3>1. /\ Transaction(e) /\ e.status = "refunded"
          /\ e.intent = r.intent /\ e.amount = r.amount
      BY <2>1, <2>3, TransactionFields, TransactionSame
    <3>2. e.linked = r.linked
      BY <2>1, <2>3
    <3> QED
      BY <2>1, <3>1, <3>2 DEF BookedRow
  <2> QED
    BY <2>2, <2>3
<1>3. /\ DOMAIN booked' = DOMAIN booked /\ booked'[m] = e
      /\ \A n \in DOMAIN booked : n # m => booked'[n] = booked[n]
  BY <1>2, Replaced DEF Books, BookingInv
<1> QED
  BY <1>2, <1>3 DEF BookTypes, BookedRow

LEMMA FunctionBooks ==
  ASSUME Books, IntentTypes, BookTypes, NEW f \in Functions, FunctionStep(f)
  PROVE  BookTypes'
<1>1. CASE UNCHANGED booked
  BY <1>1 DEF BookTypes
<1>2. CASE CreateTransaction(f)
  <2> DEFINE i == fun[f].intent
  <2>1. fun[f] # Free /\ fun[f].do = "booking"
    BY <1>2, FunAtActive DEF CreateTransaction
  <2>2. i \in Intents /\ Collected(i)
    BY <2>1, FunTyped
  <2> PICK amount, request : amount = intent[i].amount /\ request = intent[i].request
    OBVIOUS
  <2>3. amount \in Int /\ amount > 0
    BY <2>2 DEF Collected, IntentTypes, IntentRow
  <2>4. booked' = Append(booked, Row(i, amount, request))
    BY <1>2 DEF CreateTransaction
  <2> QED
    BY <2>2, <2>3, <2>4, BookedMore
<1>3. CASE BookOffline(f)
  <2> DEFINE c == fun[f].charge
  <2> PICK seen : seen = fun[f].seen.paid
    OBVIOUS
  <2>1. fun[f] # Free /\ fun[f].do = "recording" /\ fun[f].at = "create"
    BY <1>3, FunAtActive DEF BookOffline
  <2>2. c \in Charges /\ seen \in Int
    BY <2>1, FunTyped DEF Carries, Issued
  <2> PICK price \in Int : price = Price[c] /\ price > 0
    BY <2>2, PriceIs
  <2> PICK amount : amount = OfflineAmount(c, seen)
    OBVIOUS
  <2>3. amount = IF price > seen THEN price - seen ELSE price
    BY <2>2 DEF OfflineAmount, Remaining, Amount
  <2>4. amount \in Int /\ amount > 0
    BY <2>2, <2>3
  <2>5. booked' = Append(booked, Row(Manual, amount, c))
    BY <1>3 DEF BookOffline
  <2> QED
    BY <2>4, <2>5, BookedMore
<1>4. CASE Link(f) /\ ~UNCHANGED booked
  <2> PICK found : found = RowsOf(fun[f].intent)
    OBVIOUS
  <2> PICK m : m = Min(found)
    OBVIOUS
  <2>1. found # {} /\ booked' = [booked EXCEPT ![m].linked = TRUE]
    BY <1>4 DEF Link
  <2>2. m \in DOMAIN booked
    <3>1. found \subseteq Nat /\ found \subseteq DOMAIN booked
      BY DEF RowsOf, Books, BookingInv, LedgerInv
    <3> QED
      BY <2>1, <3>1, MinIn
  <2> PICK e : e = [booked[m] EXCEPT !.linked = TRUE]
    OBVIOUS
  <2>3. booked' = [booked EXCEPT ![m] = e]
    BY <2>1
  <2> QED
    BY <2>2, <2>3, BookedOther
<1>5. CASE MarkRefunded(f) /\ ~UNCHANGED booked
  <2> PICK found : found = LinkedRows(fun[f].intent)
    OBVIOUS
  <2> PICK m : m = Min(found)
    OBVIOUS
  <2>1. found # {} /\ booked' = [booked EXCEPT ![m].status = "refunded"]
    BY <1>5 DEF MarkRefunded
  <2>2. m \in DOMAIN booked
    <3>1. found \subseteq Nat /\ found \subseteq DOMAIN booked
      BY DEF LinkedRows, RowsOf, Books, BookingInv, LedgerInv
    <3> QED
      BY <2>1, <3>1, MinIn
  <2> PICK e : e = [booked[m] EXCEPT !.status = "refunded"]
    OBVIOUS
  <2>3. booked' = [booked EXCEPT ![m] = e]
    BY <2>1
  <2> QED
    BY <2>2, <2>3, BookedOther
<1> QED
  BY <1>1, <1>2, <1>3, <1>4, <1>5 DEF FunctionStep, CheckBooked, Split, ReadCharge, WriteLedger,
     RefundDone, ReadForRecord, WriteCharge, Settle

\* An intent is created for an amount that is not nothing.
LEMMA CollectTypes ==
  ASSUME PaymentTypes, NEW i \in Intents, NEW charges, NEW request, NEW amount, amount > 0,
         Collect(i, charges, request, amount)
  PROVE  PaymentTypes'
<1> PICK row : row = [charges |-> charges, request |-> request, amount |-> amount]
  OBVIOUS
<1>1. /\ intent' = [intent EXCEPT ![i] = row]
      /\ happened' = happened \cup ({i} \X (Events \ {"refunding"}))
      /\ UNCHANGED <<charge, answered, booked, raced, met>>
  BY DEF Collect
<1>2. IntentRow(row)
  BY DEF IntentRow
<1>3. IntentTypes'
  BY <1>1, <1>2 DEF PaymentTypes, IntentTypes
<1>4. EventTypes'
  <2>1. Events \subseteq Started
    BY PaymentConstants DEF Started
  <2> QED
    BY <1>1, <2>1 DEF PaymentTypes, EventTypes
<1>5. IssueTypes' /\ BookTypes' /\ RaceTypes'
  BY <1>1 DEF PaymentTypes, IssueTypes, BookTypes, RaceTypes
<1> QED
  BY <1>3, <1>4, <1>5 DEF PaymentTypes

LEMMA PaymentTypesKeep ==
  ASSUME Books, PaymentTypes, PaymentsNext
  PROVE  PaymentTypes'
<1>1. ASSUME NEW f \in Functions, FunctionStep(f) PROVE PaymentTypes'
  <2>1. UNCHANGED <<intent, raced, met>> /\ EventTypes'
    BY <1>1, FunctionEvents DEF PaymentTypes
  <2>2. IssueTypes' /\ BookTypes'
    BY <1>1, FunctionIssues, FunctionBooks DEF PaymentTypes
  <2>3. IntentTypes' /\ RaceTypes'
    BY <2>1 DEF PaymentTypes, IntentTypes, RaceTypes
  <2> QED
    BY <2>1, <2>2, <2>3 DEF PaymentTypes
<1>2. ASSUME UNCHANGED <<charge, intent, booked>>, EventTypes', RaceTypes' PROVE PaymentTypes'
  BY <1>2 DEF PaymentTypes, IssueTypes, IntentTypes, BookTypes
<1>3. ASSUME NEW f \in Functions, RequestFails(f) \/ Killed(f) PROVE PaymentTypes'
  <2>1. fun[f] # Free /\ UNCHANGED <<charge, intent, booked, happened, raced>>
    BY <1>3 DEF RequestFails, Killed
  <2>2. met' \in BOOLEAN
    <3>1. met \in BOOLEAN
      BY DEF PaymentTypes, RaceTypes
    <3> QED
      BY <1>3, <3>1, Zenon DEF RequestFails, Killed
  <2>3. answered' = answered \/ (fun[f].do # "recording" /\ Answer(f))
    BY <1>3 DEF RequestFails, Killed
  <2>4. EventTypes' /\ RaceTypes'
    BY <2>1, <2>2, <2>3, AnswerTypes DEF PaymentTypes, RaceTypes
  <2> QED
    BY <1>2, <2>1, <2>4
<1>4. ASSUME NEW f \in Functions, NEW do, NEW i, NEW c, Enter(f, do, i, c) PROVE met' \in BOOLEAN
  <2>1. met \in BOOLEAN
    BY DEF PaymentTypes, RaceTypes
  <2> QED
    BY <1>4, <2>1, Zenon DEF Enter
<1>5. ASSUME NEW f \in Functions, NEW i \in Intents, NEW event \in Events, Deliver(f, i, event)
      PROVE  PaymentTypes'
  <2>1. UNCHANGED <<charge, intent, booked, happened, answered>> /\ Enter(f, event, i, 0)
    BY <1>5 DEF Deliver, Enter
  <2>2. raced' \subseteq Intents
    <3>1. raced \subseteq Intents
      BY DEF PaymentTypes, RaceTypes
    <3> QED
      BY <1>5, <3>1 DEF Deliver
  <2>3. EventTypes' /\ RaceTypes'
    BY <1>4, <2>1, <2>2 DEF PaymentTypes, EventTypes, RaceTypes
  <2> QED
    BY <1>2, <2>1, <2>3
<1>6. ASSUME NEW f \in Functions, NEW c \in Charges, RecordOffline(f, c)
      PROVE  PaymentTypes'
  <2>1. /\ UNCHANGED <<charge, intent, booked, happened, answered, raced>>
        /\ Enter(f, "recording", Manual, c)
    BY <1>6 DEF RecordOffline, Enter
  <2>2. EventTypes' /\ RaceTypes'
    BY <1>4, <2>1 DEF PaymentTypes, EventTypes, RaceTypes
  <2> QED
    BY <1>2, <2>1, <2>2
<1>7. ASSUME NEW i \in Intents, Refund(i) PROVE PaymentTypes'
  <2>1. UNCHANGED <<charge, intent, booked, answered, raced, met>> /\ happened' = happened \cup {<<i, "refunding">>}
    BY <1>7 DEF Refund
  <2>2. EventTypes' /\ RaceTypes'
    BY <2>1 DEF PaymentTypes, EventTypes, RaceTypes, Started
  <2> QED
    BY <1>2, <2>1, <2>2
<1>8. ASSUME NEW i \in Intents, NEW c \in Charges, Pay(i, c) PROVE PaymentTypes'
  BY <1>8, CollectTypes DEF Pay, Open
<1> QED
  BY <1>1, <1>3, <1>5, <1>6, <1>7, <1>8 DEF PaymentsNext

-----------------------------------------------------------------------------
(* The worker's own types *)

\* What the run has left to generate is due within its horizon.
LEMMA BeginTypes ==
  ASSUME DuesInv, Begin
  PROVE  PaymentTypes' /\ WorkerTypes'
<1> DEFINE todo == Drafts(charge)
           w == [at |-> "generate", seen |-> charge, todo |-> todo, newest |-> floor]
<1>1. /\ worker' = w /\ UNCHANGED <<paymentVars, day, floor, keys>>
  BY DEF Begin
<1>2. \A p \in todo : DueOn[p] \in Days
  <2>1. ASSUME NEW p \in todo PROVE DueOn[p] \in Days
    <3>1. p \in Periods /\ DueOn[p] <= day + Ahead
      BY DEF Drafts
    <3>2. DueOn[p] \in Nat /\ Ahead \in Nat /\ LastDay \in Nat /\ day \in 1..LastDay
      BY <3>1, BillingConstants DEF DuesInv, WorkerTypes, DayTypes
    <3> QED
      BY <3>1, <3>2 DEF Days
  <2> QED
    BY <2>1
<1> HIDE DEF todo
<1>3. w.at = "generate" /\ w.seen = charge /\ w.todo = todo /\ w.newest = floor
  OBVIOUS
<1> HIDE DEF w
<1>4. PaymentTypes'
  BY <1>1 DEF paymentVars, DuesInv, PaymentTypes, IssueTypes, IntentTypes, EventTypes, BookTypes, RaceTypes
<1>5. DayTypes'
  BY <1>1 DEF DuesInv, WorkerTypes, DayTypes
<1>6. RunTypes'
  <2>1. floor \in {0} \cup Periods /\ \A c \in Charges : charge[c].status \in Statuses /\ charge[c].due \in Days
    BY DEF DuesInv, WorkerTypes, DayTypes, PaymentTypes, IssueTypes
  <2> QED
    BY <1>1, <1>2, <1>3, <2>1 DEF RunTypes
<1> QED
  BY <1>4, <1>5, <1>6 DEF WorkerTypes

\* Charges change beside the payments.
LEMMA IssueOnly ==
  ASSUME PaymentTypes, UNCHANGED <<intent, happened, answered, booked, raced>>, IssueTypes', met' \in BOOLEAN
  PROVE  PaymentTypes'
  BY DEF PaymentTypes, IntentTypes, EventTypes, BookTypes, RaceTypes

LEMMA InsertTypes ==
  ASSUME DuesInv, worker # Asleep, NEW c \in worker.todo, NEW due \in Days, Insert(c, due),
         UNCHANGED <<intent, happened, answered, booked, raced, met, day, floor, keys>>
  PROVE  PaymentTypes' /\ WorkerTypes'
<1> PICK row : row = [status |-> "active", paid |-> 0, due |-> due]
  OBVIOUS
<1> DEFINE seen == [worker.seen EXCEPT ![c] = row]
           todo == worker.todo \ {c}
           newest == IF c \in Periods THEN c ELSE worker.newest
           w == [at |-> worker.at, seen |-> seen, todo |-> todo, newest |-> newest]
<1>1. charge' = [charge EXCEPT ![c] = row]
  BY DEF Insert
<1>2. worker' = w
  <2> DEFINE at == worker.at
             s == worker.seen
             t == worker.todo
             n == worker.newest
  <2>1. worker = [at |-> at, seen |-> s, todo |-> t, newest |-> n]
    BY DEF DuesInv, BillingBooks, ChargingInv, WorkerInv
  <2>2. worker' = [worker EXCEPT !.todo = worker.todo \ {c}, !.seen = seen, !.newest = newest]
    BY DEF Insert
  <2> QED
    BY <2>1, <2>2
<1>3. row.status \in Statuses /\ row.due \in Days
  BY DEF Statuses
<1>4. c \in Charges /\ DOMAIN worker.seen = Charges
  BY DEF DuesInv, BillingBooks, ChargingInv, WorkerInv
<1>5. IssueTypes'
  BY <1>1, <1>3, <1>4 DEF DuesInv, PaymentTypes, IssueTypes
<1>6. PaymentTypes'
  BY <1>5, IssueOnly DEF DuesInv, PaymentTypes, RaceTypes
<1>7. \A d \in Charges : seen[d].status \in Statuses /\ seen[d].due \in Days
  <2>1. seen[c] = row /\ \A d \in Charges : d # c => seen[d] = worker.seen[d]
    BY <1>4
  <2> HIDE DEF seen
  <2> QED
    BY <1>3, <2>1 DEF DuesInv, WorkerTypes, RunTypes
<1>8. newest \in {0} \cup Periods
  BY DEF DuesInv, WorkerTypes, RunTypes
<1>9. worker.at = "generate" => \A p \in todo : DueOn[p] \in Days
  BY DEF DuesInv, WorkerTypes, RunTypes
<1> HIDE DEF seen, todo, newest
<1>10. w.at = worker.at /\ w.seen = seen /\ w.todo = todo /\ w.newest = newest
  OBVIOUS
<1> HIDE DEF w
<1>11. RunTypes'
  BY <1>2, <1>7, <1>8, <1>9, <1>10 DEF RunTypes
<1>12. DayTypes'
  BY DEF DuesInv, WorkerTypes, DayTypes
<1> QED
  BY <1>6, <1>11, <1>12 DEF WorkerTypes

LEMMA GenerateTypes ==
  ASSUME DuesInv, GenerateCharge
  PROVE  PaymentTypes' /\ WorkerTypes'
<1> PICK p : p = Min(worker.todo)
  OBVIOUS
<1>1. /\ worker # Asleep /\ worker.at = "generate" /\ worker.todo # {} /\ Insert(p, DueOn[p])
      /\ UNCHANGED <<intent, happened, answered, booked, raced, met, day, floor, keys>>
  BY AtAwake DEF GenerateCharge, At
<1>2. p \in worker.todo
  BY <1>1, TodoMin DEF DuesInv, BillingBooks
<1>3. DueOn[p] \in Days
  BY <1>1, <1>2 DEF DuesInv, WorkerTypes, RunTypes
<1> QED
  BY <1>1, <1>2, <1>3, InsertTypes

LEMMA FeeTypes ==
  ASSUME DuesInv, ApplyFee
  PROVE  PaymentTypes' /\ WorkerTypes'
<1> PICK c : c = Min(worker.todo)
  OBVIOUS
<1>1. /\ worker # Asleep /\ worker.todo # {} /\ Insert(c, day)
      /\ UNCHANGED <<intent, happened, answered, booked, raced, met, day, floor, keys>>
  BY AtAwake DEF ApplyFee
<1>2. c \in worker.todo
  BY <1>1, TodoMin DEF DuesInv, BillingBooks
<1>3. day \in Days
  <2>1. day \in 1..LastDay /\ LastDay \in Nat /\ Ahead \in Nat
    BY BillingConstants DEF DuesInv, WorkerTypes, DayTypes
  <2> QED
    BY <2>1 DEF Days
<1> QED
  BY <1>1, <1>2, <1>3, InsertTypes

LEMMA NoPaymentTypes ==
  ASSUME PaymentTypes, UNCHANGED <<charge, intent, happened, answered, booked, raced, met>>
  PROVE  PaymentTypes'
  BY DEF PaymentTypes, IssueTypes, IntentTypes, EventTypes, BookTypes, RaceTypes

LEMMA PatchTypes ==
  ASSUME DuesInv, PatchSchedule
  PROVE  PaymentTypes' /\ WorkerTypes'
<1>1. /\ worker # Asleep /\ worker' = [worker EXCEPT !.at = "fees", !.todo = FeesDue]
      /\ floor' = worker.newest
      /\ UNCHANGED <<charge, intent, happened, answered, booked, raced, met, day, keys>>
  BY AtAwake DEF PatchSchedule, paymentVars
<1>2. worker'.seen = worker.seen /\ worker'.at = "fees" /\ worker'.newest = worker.newest
  <2>1. DOMAIN worker = {"at", "seen", "todo", "newest"}
    BY <1>1, RunIs DEF DuesInv, BillingBooks, ChargingInv
  <2> HIDE DEF FeesDue
  <2> QED
    BY <1>1, <2>1
<1>3. PaymentTypes'
  BY <1>1, NoPaymentTypes DEF DuesInv
<1> QED
  BY <1>1, <1>2, <1>3 DEF DuesInv, WorkerTypes, RunTypes, DayTypes

\* A charge is marked or canceled: its due date stays.
LEMMA MarkedTypes ==
  ASSUME PaymentTypes, ChargesTyped, NEW c \in Charges, NEW status \in Statuses,
         charge' = [charge EXCEPT ![c].status = status],
         UNCHANGED <<intent, happened, answered, booked, raced>>, met' \in BOOLEAN
  PROVE  PaymentTypes'
<1> PICK row : row = [charge[c] EXCEPT !.status = status]
  OBVIOUS
<1>1. charge' = [charge EXCEPT ![c] = row]
  OBVIOUS
<1>2. row.status = status /\ row.due = charge[c].due
  <2>1. ChargeRow(charge[c])
    BY DEF ChargesTyped
  <2> QED
    BY <2>1 DEF ChargeRow
<1>3. IssueTypes'
  BY <1>1, <1>2 DEF ChargesTyped, PaymentTypes, IssueTypes
<1> QED
  BY <1>3, IssueOnly

LEMMA OverdueTypes ==
  ASSUME DuesInv, MarkOverdue
  PROVE  PaymentTypes' /\ WorkerTypes'
<1>1. /\ worker # Asleep /\ worker.at = "fees"
      /\ UNCHANGED <<intent, happened, answered, booked, raced, day, floor, keys>>
  BY AtAwake DEF MarkOverdue, At
<1>2. DOMAIN worker = {"at", "seen", "todo", "newest"} /\ DOMAIN worker.seen = Charges
      /\ \A c \in Charges : ChargeRow(worker.seen[c])
  BY <1>1, RunIs DEF DuesInv, BillingBooks, ChargingInv, WorkerInv
<1>3. CASE ToMark = {}
  <2>1. worker' = [worker EXCEPT !.at = "autopay"] /\ UNCHANGED <<charge, met>>
    BY <1>3 DEF MarkOverdue
  <2>2. PaymentTypes'
    BY <1>1, <2>1, NoPaymentTypes DEF DuesInv
  <2>3. worker'.seen = worker.seen /\ worker'.at = "autopay" /\ worker'.newest = worker.newest
    BY <1>2, <2>1
  <2> QED
    BY <1>1, <2>2, <2>3 DEF DuesInv, WorkerTypes, RunTypes, DayTypes
<1>4. CASE ToMark # {}
  <2> PICK p : p = Min(ToMark)
    OBVIOUS
  <2>1. p \in Charges
    <3>1. ToMark \subseteq Nat
      BY BillingConstants, PaymentConstants DEF ToMark
    <3>2. p \in ToMark
      BY <1>4, <3>1, MinIn
    <3> QED
      BY <3>2 DEF ToMark, Overdue, Known
  <2> PICK marked : marked = [worker.seen[p] EXCEPT !.status = "overdue"]
    OBVIOUS
  <2>2. /\ charge' = [charge EXCEPT ![p].status = "overdue"]
        /\ worker' = [worker EXCEPT !.seen = [worker.seen EXCEPT ![p] = marked]]
        /\ met' = (met \/ Remaining(p, charge[p].paid) = 0)
    BY <1>4 DEF MarkOverdue
  <2>3. met' \in BOOLEAN
    <3>1. met \in BOOLEAN
      BY DEF DuesInv, PaymentTypes, RaceTypes
    <3> QED
      BY <2>2, <3>1, Zenon
  <2>4. ChargesTyped /\ "overdue" \in Statuses
    BY DEF DuesInv, BillingBooks, Books, AmountsInv, AmountsTyped, Statuses
  <2>5. PaymentTypes'
    BY <1>1, <2>1, <2>2, <2>3, <2>4, MarkedTypes DEF DuesInv
  <2>6. marked.status = "overdue" /\ marked.due = worker.seen[p].due
    <3>1. ChargeRow(worker.seen[p])
      BY <1>2, <2>1
    <3> QED
      BY <3>1 DEF ChargeRow
  <2>7. /\ worker'.at = "fees" /\ worker'.newest = worker.newest
        /\ worker'.seen[p] = marked
        /\ \A d \in Charges : d # p => worker'.seen[d] = worker.seen[d]
    BY <1>1, <1>2, <2>1, <2>2
  <2>8. RunTypes'
    BY <1>1, <2>1, <2>4, <2>6, <2>7 DEF DuesInv, WorkerTypes, RunTypes
  <2> QED
    BY <1>1, <2>5, <2>8 DEF DuesInv, WorkerTypes, DayTypes
<1> QED
  BY <1>3, <1>4

\* Autopay is for something: each of the charges lacks some of its price.
LEMMA AutopayTypes ==
  ASSUME DuesInv, NEW i \in Intents, NEW declined \in BOOLEAN, Autopay(i, declined)
  PROVE  PaymentTypes' /\ WorkerTypes'
<1>1. worker # Asleep /\ worker' = Asleep /\ UNCHANGED <<day, floor>>
  BY AtAwake DEF Autopay
<1>2. keys' \subseteq 1..LastDay
  BY DEF Autopay, DuesInv, WorkerTypes, DayTypes
<1>3. WorkerTypes'
  BY <1>1, <1>2 DEF DuesInv, WorkerTypes, DayTypes, RunTypes
<1>4. CASE UNCHANGED paymentVars
  BY <1>3, <1>4, NoPaymentTypes DEF DuesInv, paymentVars
<1>5. CASE ~UNCHANGED paymentVars
  <2> PICK charges : charges = OpenSeen
    OBVIOUS
  <2> PICK amount : amount = MapThenSumSet(LAMBDA c : Remaining(c, worker.seen[c].paid), charges)
    OBVIOUS
  <2> PICK request : request = CHOOSE c \in charges : \A d \in charges \ {c} : SeenOlder(c, d)
    OBVIOUS
  <2>1. charges # {} /\ Collect(i, charges, request, amount)
    BY <1>5 DEF Autopay, SeenOlder
  <2>2. charges \in SUBSET Charges
    BY DEF OpenSeen, Known
  <2>3. \A c \in charges : SeenLacks[c] \in Nat /\ SeenLacks[c] > 0
    <3>1. ASSUME NEW c \in charges PROVE SeenLacks[c] \in Nat /\ SeenLacks[c] > 0
      <4> PICK paid : paid = worker.seen[c].paid
        OBVIOUS
      <4>1. paid \in Int /\ Price[c] \in Int
        BY <1>1, <2>2, PriceIs DEF DuesInv, BillingBooks, WorkerAmounts
      <4>2. Remaining(c, paid) > 0 /\ SeenLacks[c] = Remaining(c, paid)
        BY <2>2 DEF OpenSeen, Open, SeenLacks
      <4> PICK price \in Int : price = Price[c]
        BY <4>1
      <4>3. Remaining(c, paid) = IF price > paid THEN price - paid ELSE 0
        BY DEF Remaining, Amount
      <4>4. (IF price > paid THEN price - paid ELSE 0) \in Nat
        BY <4>1
      <4> QED
        BY <4>2, <4>3, <4>4
    <3> QED
      BY <3>1
  <2>4. IsFiniteSet(charges)
    BY <2>2, ChargesFinite
  <2> PICK c \in charges : TRUE
    BY <2>1
  <2>5. {c} \in SUBSET charges /\ SeenLacks[c] \in Int
    BY <2>3
  <2>6. Sum(SeenLacks, {c}) = SeenLacks[c]
    BY <2>5, SumOne
  <2>7. Sum(SeenLacks, {c}) <= Sum(SeenLacks, charges) /\ Sum(SeenLacks, charges) \in Nat
    BY <2>3, <2>4, <2>5, SumPart, SumNat
  <2>8. amount = Sum(SeenLacks, charges)
    BY <2>2, SeenSum
  <2>9. amount > 0
    BY <2>3, <2>6, <2>7, <2>8
  <2> QED
    BY <1>3, <2>1, <2>9, CollectTypes DEF DuesInv
<1> QED
  BY <1>4, <1>5

LEMMA DuesStep == DuesInv /\ [BillingNext]_billingVars => DuesInv'
<1> SUFFICES ASSUME DuesInv, [BillingNext]_billingVars PROVE PaymentTypes' /\ WorkerTypes'
  BY BillingBooksStep DEF DuesInv
<1>1. CASE PaymentsNext /\ UNCHANGED workerVars
  <2>1. PaymentTypes'
    BY <1>1, PaymentTypesKeep DEF DuesInv, BillingBooks
  <2> QED
    BY <1>1, <2>1 DEF workerVars, DuesInv, WorkerTypes, DayTypes, RunTypes
<1>2. CASE Begin
  BY <1>2, BeginTypes
<1>3. CASE WorkerStep
  BY <1>3, GenerateTypes, PatchTypes, FeeTypes, OverdueTypes, AutopayTypes DEF WorkerStep
<1>4. CASE RunEnds
  <2>1. worker' = Asleep
        /\ UNCHANGED <<charge, intent, happened, answered, booked, raced, met, day, floor, keys>>
    BY <1>4 DEF RunEnds
  <2> QED
    BY <2>1, NoPaymentTypes DEF DuesInv, WorkerTypes, DayTypes, RunTypes
<1>5. CASE NextDay
  <2>1. /\ worker' = Asleep /\ day < LastDay /\ day' = day + 1
        /\ UNCHANGED <<charge, intent, happened, answered, booked, raced, met, floor, keys>>
    BY <1>5 DEF NextDay, paymentVars
  <2>2. day' \in 1..LastDay
    <3>1. LastDay \in Nat /\ day \in 1..LastDay
      BY BillingConstants DEF DuesInv, WorkerTypes, DayTypes
    <3> QED
      BY <2>1, <3>1
  <2> QED
    BY <2>1, <2>2, NoPaymentTypes DEF DuesInv, WorkerTypes, DayTypes, RunTypes
<1>6. ASSUME NEW c \in Charges, Cancel(c) PROVE PaymentTypes' /\ WorkerTypes'
  <2>1. /\ charge' = [charge EXCEPT ![c].status = "canceled"] /\ met' = TRUE
        /\ UNCHANGED <<intent, happened, answered, booked, raced, day, floor, keys, worker>>
    BY <1>6 DEF Cancel
  <2>2. ChargesTyped /\ "canceled" \in Statuses
    BY DEF DuesInv, BillingBooks, Books, AmountsInv, AmountsTyped, Statuses
  <2>3. PaymentTypes'
    BY <2>1, <2>2, MarkedTypes DEF DuesInv
  <2> QED
    BY <2>1, <2>3 DEF DuesInv, WorkerTypes, DayTypes, RunTypes
<1>7. CASE UNCHANGED billingVars
  BY <1>7, NoPaymentTypes DEF billingVars, paymentVars, workerVars, DuesInv, WorkerTypes, DayTypes, RunTypes
<1> QED
  BY <1>1, <1>2, <1>3, <1>4, <1>5, <1>6, <1>7 DEF BillingNext

LEMMA DuesInitially == BillingInit => DuesInv
<1> SUFFICES ASSUME BillingInit PROVE PaymentTypes /\ WorkerTypes
  BY BillingBooksInitially DEF DuesInv
<1>1. IssueTypes
  <2>1. charge = [c \in Charges |-> [status |-> "none", paid |-> 0, due |-> 0]]
    BY DEF BillingInit, NoCharge
  <2>2. 0 \in Days
    BY BillingConstants DEF Days
  <2> QED
    BY <2>1, <2>2 DEF IssueTypes, Statuses
<1>2. IntentTypes /\ EventTypes /\ RaceTypes
  BY DEF BillingInit, NothingPaid, IntentTypes, EventTypes, RaceTypes
<1>3. BookTypes
  BY DEF BillingInit, NothingPaid, BookTypes
<1>4. DayTypes
  BY BillingConstants DEF BillingInit, DayTypes
<1>5. RunTypes
  BY DEF BillingInit, RunTypes
<1> QED
  BY <1>1, <1>2, <1>3, <1>4, <1>5 DEF PaymentTypes, WorkerTypes

\* Charges, payments, transactions and the worker's run are well typed: the worker
\* and the routes write statuses and due dates the schedule has, a payment is for
\* charges that were issued and for more than nothing, and only what happened at
\* Stripe is answered.
THEOREM DuesTyped == BillingSpec => []BillingTypeOK
<1>1. DuesInv => BillingTypeOK
  BY TypesOfDues DEF DuesInv, BillingBooks, WorkerTypes
<1> QED
  BY <1>1, DuesInitially, DuesStep, PTL DEF BillingSpec

-----------------------------------------------------------------------------
(* The routes, the worker and the reminders, side by side as the run has them *)

\* The worker's part knows more than the others need.
MoneyInv ==
    /\ RemindersInv /\ Books /\ PaymentTypes /\ DayTypes
    /\ part = Worker => DuesInv

LEMMA PaySeveralTypes ==
  ASSUME Books, PaymentTypes, NEW i \in Intents, NEW charges \in (SUBSET Charges) \ {{}},
         PaySeveral(i, charges)
  PROVE  PaymentTypes'
<1> PICK amount : amount = MapThenSumSet(LAMBDA c : Remaining(c, charge[c].paid), charges)
  OBVIOUS
<1> PICK request : request = CHOOSE c \in charges : \A d \in charges \ {c} : Older(c, d)
  OBVIOUS
<1>1. Collect(i, charges, request, amount)
  BY DEF PaySeveral
<1>2. \A c \in charges : LacksOf[c] \in Nat /\ LacksOf[c] > 0
  <2>1. ASSUME NEW c \in charges PROVE LacksOf[c] \in Nat /\ LacksOf[c] > 0
    <3> PICK paid : paid = charge[c].paid
      OBVIOUS
    <3>1. paid \in Int /\ Price[c] \in Int
      BY PriceIs DEF Books, AmountsInv, AmountsTyped, ChargesTyped
    <3>2. Remaining(c, paid) > 0 /\ LacksOf[c] = Remaining(c, paid)
      BY DEF PaySeveral, Open, LacksOf
    <3> PICK price \in Int : price = Price[c]
      BY <3>1
    <3>3. Remaining(c, paid) = IF price > paid THEN price - paid ELSE 0
      BY DEF Remaining, Amount
    <3>4. (IF price > paid THEN price - paid ELSE 0) \in Nat
      BY <3>1
    <3> QED
      BY <3>2, <3>3, <3>4
  <2> QED
    BY <2>1
<1>3. IsFiniteSet(charges)
  BY ChargesFinite
<1> PICK c \in charges : TRUE
  OBVIOUS
<1>4. {c} \in SUBSET charges /\ LacksOf[c] \in Int
  BY <1>2
<1>5. Sum(LacksOf, {c}) = LacksOf[c]
  BY <1>4, SumOne
<1>6. Sum(LacksOf, {c}) <= Sum(LacksOf, charges) /\ Sum(LacksOf, charges) \in Nat
  BY <1>2, <1>3, <1>4, SumPart, SumNat
<1>7. amount = Sum(LacksOf, charges)
  BY LacksSum
<1>8. amount > 0
  BY <1>2, <1>5, <1>6, <1>7
<1> QED
  BY <1>1, <1>8, CollectTypes

LEMMA RoutesTypesStep ==
  ASSUME Books, PaymentTypes, [PaymentsAlone]_paymentVars
  PROVE  PaymentTypes'
<1>1. CASE PaymentsNext
  BY <1>1, PaymentTypesKeep
<1>2. ASSUME NEW i \in Intents, NEW charges \in (SUBSET Charges) \ {{}}, PaySeveral(i, charges)
      PROVE  PaymentTypes'
  BY <1>2, PaySeveralTypes
<1>3. CASE UNCHANGED paymentVars
  BY <1>3, NoPaymentTypes DEF paymentVars
<1> QED
  BY <1>1, <1>2, <1>3 DEF PaymentsAlone

\* The routes begin with the periods issued and due.
LEMMA RoutesStart ==
  ASSUME PaymentsInit(Periods)
  PROVE  Books /\ PaymentTypes
<1>1. /\ charge = [c \in Charges |->
                     IF c \in Periods THEN [status |-> "active", paid |-> 0, due |-> c] ELSE NoCharge]
      /\ NothingPaid
  BY DEF PaymentsInit
<1>2. ASSUME NEW c \in Charges
      PROVE  /\ ChargeRow(charge[c]) /\ charge[c].status \in {"active", "none"}
             /\ charge[c].paid = 0 /\ charge[c].due \in Days
  <2>1. CASE c \in Periods
    <3>1. charge[c] = [status |-> "active", paid |-> 0, due |-> c] /\ c \in Days
      BY <1>1, <2>1, PartsAssumption DEF Days
    <3> QED
      BY <3>1 DEF ChargeRow
  <2>2. CASE c \notin Periods
    <3>1. charge[c] = [status |-> "none", paid |-> 0, due |-> 0]
      BY <1>1, <2>2 DEF NoCharge
    <3>2. 0 \in Days
      BY BillingConstants DEF Days
    <3> QED
      BY <3>1, <3>2 DEF ChargeRow
  <2> QED
    BY <2>1, <2>2
<1>3. Days \subseteq Int
  BY DEF Days
<1>4. Books
  <2>1. \A c \in Charges : /\ ChargeRow(charge[c]) /\ charge[c].status # "paid"
                           /\ charge[c].paid = 0 /\ charge[c].due \in Int
    BY <1>2, <1>3
  <2>2. DOMAIN charge = Charges
    BY <1>1
  <2> QED
    BY <1>1, <2>1, <2>2, NothingPaidAmounts
<1>5. IssueTypes
  <2>1. charge = [c \in Charges |-> charge[c]]
    BY <1>1
  <2> QED
    BY <1>2, <2>1 DEF IssueTypes, Statuses
<1>6. IntentTypes /\ EventTypes /\ RaceTypes
  BY <1>1 DEF NothingPaid, IntentTypes, EventTypes, RaceTypes
<1>7. BookTypes
  BY <1>1 DEF NothingPaid, BookTypes
<1> QED
  BY <1>4, <1>5, <1>6, <1>7 DEF PaymentTypes

LEMMA MoneyStarts == Init => MoneyInv
<1> SUFFICES ASSUME Init PROVE MoneyInv
  OBVIOUS
<1>1. RemindersInv
  BY RemindersInitially DEF Init
<1>2. CASE part = Worker
  <2>1. BillingInit
    BY <1>2, PartsAssumption DEF Init
  <2>2. DuesInv
    BY <2>1, DuesInitially
  <2> QED
    BY <1>1, <2>2 DEF MoneyInv, DuesInv, BillingBooks, WorkerTypes
<1>3. CASE part # Worker
  <2>1. PaymentsInit(Periods) /\ day = 1 /\ floor = 0 /\ keys = {}
    BY <1>3 DEF Init
  <2>2. DayTypes
    BY <2>1, BillingConstants DEF DayTypes
  <2> QED
    BY <1>1, <1>3, <2>1, <2>2, RoutesStart DEF MoneyInv
<1> QED
  BY <1>2, <1>3

\* One part moves by a step of its own, the others stay.
LEMMA MoneyStep == MoneyInv /\ [Next]_vars => MoneyInv'
<1> SUFFICES ASSUME MoneyInv, [Next]_vars PROVE MoneyInv'
  OBVIOUS
<1>1. [ReminderNext]_reminderVars
  BY DEF Next, vars, InWorker
<1>2. RemindersInv'
  BY <1>1, RemindersStep DEF MoneyInv
<1>3. CASE part = Worker
  <2>1. [BillingNext]_billingVars /\ part' = part
    BY <1>3, PartsAssumption DEF Next, vars, InWorker
  <2>2. DuesInv'
    BY <1>3, <2>1, DuesStep DEF MoneyInv
  <2> QED
    BY <1>2, <2>2 DEF MoneyInv, DuesInv, BillingBooks, WorkerTypes
<1>4. CASE part # Worker
  <2>1. [PaymentsAlone]_paymentVars /\ UNCHANGED <<workerVars, part>>
    BY <1>4 DEF Next, vars, InWorker, billingVars
  <2>2. Books' /\ PaymentTypes'
    BY <2>1, BooksAloneStep, RoutesTypesStep DEF MoneyInv
  <2>3. DayTypes'
    BY <2>1 DEF MoneyInv, DayTypes, workerVars
  <2> QED
    BY <1>2, <1>4, <2>1, <2>2, <2>3 DEF MoneyInv
<1> QED
  BY <1>3, <1>4

\* Charges, payments, transactions and reminders are well typed, whichever of the
\* routes, the worker and the reminders moves.
THEOREM MoneyTyped == Spec => []TypeOK
<1>1. MoneyInv => TypeOK
  BY TypesOfDues DEF MoneyInv, RemindersInv, TypeOK
<1> QED
  BY <1>1, MoneyStarts, MoneyStep, PTL DEF Spec
=============================================================================
