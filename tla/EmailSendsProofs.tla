--------------------------- MODULE EmailSendsProofs ---------------------------
(***************************************************************************)
(* However many functions act on one email, and whatever they read before: *)
(* no part of an occurrence is mailed twice, and none is mailed before the *)
(* occurrence's plan is whole.                                             *)
(*                                                                         *)
(* The lease alone does not give this.  Rows are what refuses a duplicate, *)
(* and rows are deleted, of mailed occurrences too (DeletedNeverMailed is  *)
(* violated).  What saves such an occurrence is that the tick only closes  *)
(* an email nobody can enqueue again: Terminal.                            *)
(*                                                                         *)
(* The last part is about SendTotals: what a finished send shows is what   *)
(* its rows say, once whoever promoted rows has refreshed the totals.      *)
(***************************************************************************)
EXTENDS MCEmailSends, FiniteSetTheorems, TLAPS

ScheduledKeys == {Scheduled(n) : n \in 1 .. LastAt}

-----------------------------------------------------------------------------
(* What each function remembers, and where it can be *)

Writing  == {"create", "total", "undoRows", "undoStatus"}
Snapshot == {"acquire", "expect", "first", "leave", "quit"} \cup Writing
Before   == {"acquire", "expect", "first"}  \* a send that has written nothing

PlacesOf ==
    [k \in Kinds |->
       CASE k = "send"    -> Snapshot
         [] k = "enqueue" -> Snapshot \cup {"due", "refuse"}
         [] k = "run"     -> {"off", "listed", "acquire", "enter", "work", "complete", "quit"}
         [] k = "finish"  -> {"acquire", "complete", "quit"}
         [] k = "close"   -> {"listed", "acquire", "closeRows", "closeStatus", "quit"}
         [] k = "refresh" -> {"refresh"}
         [] k = "save"    -> {"save"}]

\* A run at work, or one that ended, on the occurrence it found.
Serving(w) == kind[w] = "finish" \/ (kind[w] = "run" /\ pc[w] \in {"work", "complete"})

Remembers(w) ==
    /\ pc[w] \in PlacesOf[kind[w]]
    /\ kind[w] = "send" => key[w] \in ManualKeys /\ seen[w].status # "sending"
    /\ kind[w] = "enqueue" /\ pc[w] # "due" => key[w] \in ScheduledKeys
    /\ kind[w] = "close" => ~seen[w].ready /\ (pc[w] # "listed" => key[w] = seen[w].key)
    /\ Serving(w) => key[w] \in Keys
    /\ kind[w] = "run" /\ pc[w] \in {"work", "complete"} => seen[w].ready
    /\ pc[w] \notin Writing \cup {"leave", "quit"} => written[w] = 0
    /\ pc[w] = "create" => written[w] < Batches
    /\ pc[w] = "total" => written[w] = Batches
    /\ pc[w] = "undoRows" => written[w] > 0

LiveInv == \A w \in Runs : Remembers(w)

-----------------------------------------------------------------------------
(* The lease *)

\* Who holds the lease; and its key is the email's while it writes or sends.
Holds(w) ==
    /\ pc[w] \in Holding => lease = w
    /\ pc[w] \in Writing \cup {"work"} => email.key = key[w]
    /\ pc[w] \in {"create", "total"} => ~email.ready
    /\ pc[w] = "work" => email.ready

HolderInv == \A w \in Runs : Holds(w)

-----------------------------------------------------------------------------
(* Plans *)

Prefix(S) == \E m \in 0 .. Batches : S = 1 .. m

\* Plans are written in order.
PlanInv ==
    /\ \A k \in Keys : Prefix(rows[k]) /\ open[k] \subseteq rows[k]
    /\ \A w \in Runs : (pc[w] = "create" /\ written[w] > 0) \/ pc[w] = "total"
                       => rows[key[w]] = 1 .. written[w]

\* A ready email's plan is whole, or gone.
ReadyInv == email.ready /\ email.key # NoKey => rows[email.key] \in {{}, Parts}

-----------------------------------------------------------------------------
(* Mail *)

Unmailed(k) == \A b \in Parts : mails[k][b] = 0

\* Nobody can enqueue the email again, or complete it into its next occurrence.
NeverAgain(w) ==
    pc[w] # "off" =>
       /\ kind[w] \notin {"enqueue", "save"}
       /\ kind[w] = "send" => seen[w].status \notin {"draft", "scheduled"}
       /\ Serving(w) => key[w] \in ManualKeys
       /\ pc[w] = "listed" /\ seen[w].ready => seen[w].key \in ManualKeys \cup {NoKey}

Over ==
    /\ email.status \notin {"draft", "scheduled"}
    /\ email.status \in {"sending", "paused"} /\ email.ready => email.key \notin ScheduledKeys

Terminal == Over /\ \A w \in Runs : NeverAgain(w)

\* A queued row was not mailed.
QueuedInv == \A k \in Keys, b \in Parts : mails[k][b] <= 1 /\ (b \in open[k] => mails[k][b] = 0)

\* A mailed row that is gone is not written again.
GoneInv == \A k \in Keys, b \in Parts :
    mails[k][b] > 0 /\ b \notin rows[k] => Terminal /\ k \notin ManualKeys

\* w has rows of its own, or may have, to delete when it undoes.
HasRows(w) == (pc[w] = "create" /\ written[w] > 0) \/ pc[w] \in {"total", "undoRows"}

\* Whoever can delete rows: nobody was sent them, or nobody will be again.
DeleterInv == \A w \in Runs :
    /\ HasRows(w) => Unmailed(key[w])
    /\ kind[w] = "close" => Terminal

-----------------------------------------------------------------------------
(* The key of a Send is its own *)

\* Nothing was written under m, and only w knows it; nobody, when w is NoRun.
Untouched(m, w) ==
    /\ Unmailed(m)
    /\ email.key # m
    /\ \A v \in Runs : seen[v].key # m /\ (v # w => key[v] # m)

PressInv ==
    /\ \A i \in 1 .. MaxSends : i > sends => Untouched(Manual(i), NoRun)
    /\ \A w \in Runs : kind[w] = "send" /\ pc[w] \in Before => Untouched(key[w], w)

\* Before a Send's plan is whole nothing of it is mailed, and one that is closed
\* never becomes whole.
Closed(m) ==
    /\ Unmailed(m)
    /\ ~(email.key = m /\ email.ready)
    /\ \A v \in Runs : kind[v] = "send" => key[v] # m

UnreadyInv ==
    /\ email.key \in ManualKeys /\ ~email.ready => Unmailed(email.key)
    /\ \A w \in Runs : kind[w] = "close" /\ seen[w].key \in ManualKeys => Closed(seen[w].key)

SendsInv ==
    /\ TypeOK /\ LiveInv /\ HolderInv /\ PlanInv /\ ReadyInv
    /\ QueuedInv /\ GoneInv /\ DeleterInv /\ PressInv /\ UnreadyInv

-----------------------------------------------------------------------------
(* Values *)

LEMMA KeysTyped ==
    /\ ManualKeys \subseteq Keys /\ ScheduledKeys \subseteq Keys
    /\ ManualKeys \cap ScheduledKeys = {}
    /\ Keys = ManualKeys \cup ScheduledKeys
    /\ NoKey \notin Keys
    /\ \A i \in 1 .. MaxSends : Manual(i) \in ManualKeys
    /\ \A i, j \in 1 .. MaxSends : Manual(i) = Manual(j) => i = j
    /\ \A n \in 1 .. LastAt : Scheduled(n) \in ScheduledKeys
  BY KeyAssumption DEF Keys, ManualKeys, ScheduledKeys, Manual, Scheduled

LEMMA EmailParts ==
    ASSUME NEW e \in Emails
    PROVE  /\ e.status \in Statuses /\ e.key \in Keys \cup {NoKey}
           /\ e.ready \in BOOLEAN /\ e.at \in 1 .. LastAt
  BY DEF Emails

LEMMA NewEmailIs ==
    /\ NewEmail \in Emails
    /\ NewEmail.status = "draft" /\ NewEmail.key = NoKey
    /\ NewEmail.ready = FALSE /\ NewEmail.at = 1
  BY SendsAssumption DEF NewEmail, Emails, Statuses

\* e is d with another status.
Restated(d, e, s) ==
    e \in Emails /\ e.status = s /\ e.key = d.key /\ e.ready = d.ready /\ e.at = d.at

LEMMA StatusChanged ==
    ASSUME NEW d \in Emails, NEW s \in Statuses
    PROVE  Restated(d, [d EXCEPT !.status = s], s)
  BY DEF Emails, Restated

LEMMA TimeChanged ==
    ASSUME NEW d \in Emails, NEW n \in 1 .. LastAt
    PROVE  LET e == [d EXCEPT !.at = n]
           IN  e \in Emails /\ e.status = d.status /\ e.key = d.key /\ e.ready = d.ready /\ e.at = n
  BY DEF Emails

LEMMA KeyChanged ==
    ASSUME NEW d \in Emails, NEW k \in Keys \cup {NoKey}
    PROVE  LET e == [d EXCEPT !.key = k]
           IN  e \in Emails /\ e.status = d.status /\ e.key = k /\ e.ready = d.ready /\ e.at = d.at
  BY DEF Emails

LEMMA ReadyChanged ==
    ASSUME NEW d \in Emails, NEW r \in BOOLEAN
    PROVE  LET e == [d EXCEPT !.ready = r]
           IN  e \in Emails /\ e.status = d.status /\ e.key = d.key /\ e.ready = r /\ e.at = d.at
  BY DEF Emails

-----------------------------------------------------------------------------
(* What each action does to the invocation that takes it, and to the email *)

RunsTyped ==
    /\ pc \in [Runs -> Places] /\ kind \in [Runs -> Kinds] /\ seen \in [Runs -> Emails]
    /\ key \in [Runs -> Keys \cup {NoKey}] /\ written \in [Runs -> 0 .. Batches]

\* Of the invocations only w changes, to this.
Becomes(w, p, k, e, ky, n) ==
    /\ RunsTyped'
    /\ pc'[w] = p /\ kind'[w] = k /\ seen'[w] = e /\ key'[w] = ky /\ written'[w] = n
    /\ \A v \in Runs \ {w} :
         /\ pc'[v] = pc[v] /\ kind'[v] = kind[v] /\ seen'[v] = seen[v]
         /\ key'[v] = key[v] /\ written'[v] = written[v]

Moves(w, p) == Becomes(w, p, kind[w], seen[w], key[w], written[w])
Ends(w)     == Becomes(w, "off", "run", NewEmail, NoKey, 0)

LEMMA OneBecomes ==
    ASSUME TypeOK, NEW w \in Runs, NEW p \in Places, NEW k \in Kinds, NEW e \in Emails,
           NEW ky \in Keys \cup {NoKey}, NEW n \in 0 .. Batches,
           pc' = [pc EXCEPT ![w] = p],
           kind' = [kind EXCEPT ![w] = k],
           seen' = [seen EXCEPT ![w] = e],
           key' = [key EXCEPT ![w] = ky],
           written' = [written EXCEPT ![w] = n]
    PROVE  Becomes(w, p, k, e, ky, n)
<1>1. RunsTyped'
  BY DEF TypeOK, RunsTyped
<1>2. QED
  BY <1>1 DEF TypeOK, Becomes

LEMMA SameExcept ==
    ASSUME NEW S, NEW T, NEW f \in [S -> T], NEW x \in S
    PROVE  f = [f EXCEPT ![x] = f[x]]
  OBVIOUS

LEMMA OneMoves ==
    ASSUME TypeOK, NEW w \in Runs, NEW p \in Places, Goto(w, p), UNCHANGED runVars
    PROVE  Moves(w, p)
<1>1. RunsTyped'
  BY DEF TypeOK, RunsTyped, Goto, runVars
<1>2. QED
  BY <1>1 DEF TypeOK, Becomes, Moves, Goto, runVars

LEMMA OneEnds ==
    ASSUME TypeOK, NEW w \in Runs, End(w)
    PROVE  Ends(w)
<1>1. "off" \in Places /\ "run" \in Kinds /\ 0 \in 0 .. Batches /\ NoKey \in Keys \cup {NoKey}
  BY SendsAssumption DEF Places, Kinds
<1>2. QED
  BY <1>1, NewEmailIs, OneBecomes DEF End, Goto, Ends

\* What w can do next depends on the kind of function it is.
LEMMA AtWork ==
    ASSUME TypeOK, LiveInv, NEW w \in Runs
    PROVE  /\ pc[w] \in Places /\ kind[w] \in Kinds /\ seen[w] \in Emails
           /\ key[w] \in Keys \cup {NoKey} /\ written[w] \in 0 .. Batches
           /\ Remembers(w)
  BY DEF TypeOK, LiveInv

\* Everything that is not an invocation's own.
world == <<email, lease, rows, open, mails, now, sends>>

LEMMA PressSendDoes ==
    ASSUME TypeOK, LiveInv, NEW w \in Runs, PressSend(w)
    PROVE  /\ pc[w] = "off" /\ lease # w /\ email.status # "sending"
           /\ sends + 1 \in 1 .. MaxSends /\ sends' = sends + 1
           /\ UNCHANGED <<email, lease, rows, open, mails, now>>
           /\ \E e \in Emails : /\ e.status = email.status /\ e.key = NoKey /\ ~e.ready
                                /\ Becomes(w, "acquire", "send", e, Manual(sends + 1), written[w])
<1> DEFINE e == [NewEmail EXCEPT !.status = email.status]
<1>1. e \in Emails /\ e.status = email.status /\ e.key = NoKey /\ ~e.ready
  BY NewEmailIs, StatusChanged, EmailParts DEF TypeOK, Restated
<1>2. sends + 1 \in 1 .. MaxSends /\ Manual(sends + 1) \in Keys /\ written[w] \in 0 .. Batches
  BY KeysTyped, SendsAssumption, AtWork DEF TypeOK, PressSend
<1>3. "acquire" \in Places /\ "send" \in Kinds /\ written' = [written EXCEPT ![w] = written[w]]
  BY DEF Places, Kinds, PressSend, TypeOK
<1>4. Becomes(w, "acquire", "send", e, Manual(sends + 1), written[w])
  BY <1>1, <1>2, <1>3, OneBecomes DEF PressSend, Begin, Goto
<1>5. QED
  BY <1>1, <1>2, <1>4 DEF PressSend, Begin, dataVars

\* The other ways in: the function remembers of the email what it uses later.
LEMMA BeginDoes ==
    ASSUME TypeOK, LiveInv, NEW w \in Runs, NEW k \in Kinds, NEW e \in Emails, NEW p \in Places,
           Begin(w, k, e, p), UNCHANGED <<key, written>>
    PROVE  pc[w] = "off" /\ lease # w /\ Becomes(w, p, k, e, key[w], written[w])
<1>1. key[w] \in Keys \cup {NoKey} /\ written[w] \in 0 .. Batches
  BY AtWork
<1>2. key' = [key EXCEPT ![w] = key[w]] /\ written' = [written EXCEPT ![w] = written[w]]
  BY SameExcept DEF TypeOK
<1>3. QED
  BY <1>1, <1>2, OneBecomes DEF Begin, Goto

LEMMA ListDueDoes ==
    ASSUME TypeOK, LiveInv, NEW w \in Runs, ListDue(w)
    PROVE  /\ pc[w] = "off" /\ lease # w /\ email.status = "scheduled" /\ UNCHANGED world
           /\ Becomes(w, "due", "enqueue", NewEmail, key[w], written[w])
<1>1. "due" \in Places /\ "enqueue" \in Kinds
  BY DEF Places, Kinds
<1>2. QED
  BY <1>1, NewEmailIs, BeginDoes DEF ListDue, world, dataVars

LEMMA ListSendingDoes ==
    ASSUME TypeOK, LiveInv, NEW w \in Runs, ListSending(w)
    PROVE  /\ pc[w] = "off" /\ lease # w /\ email.status = "sending" /\ UNCHANGED world
           /\ \E k \in {"run", "close"} :
                /\ k = "close" <=> PreparingDied(email)
                /\ Becomes(w, "listed", k, email, key[w], written[w])
<1> DEFINE k == IF PreparingDied(email) THEN "close" ELSE "run"
<1>1. "listed" \in Places /\ k \in Kinds /\ email \in Emails
  BY DEF Places, Kinds, TypeOK
<1>2. pc[w] = "off" /\ lease # w /\ Becomes(w, "listed", k, email, key[w], written[w])
  BY <1>1, BeginDoes DEF ListSending
<1>3. QED
  BY <1>2 DEF ListSending, world, dataVars

LEMMA ReadForSaveDoes ==
    ASSUME TypeOK, LiveInv, NEW w \in Runs, ReadForSave(w)
    PROVE  /\ pc[w] = "off" /\ lease # w /\ email.status \in {"draft", "scheduled"} /\ UNCHANGED world
           /\ \E e \in Emails : /\ e.key = NoKey
                                /\ Becomes(w, "save", "save", e, key[w], written[w])
<1> DEFINE e == [NewEmail EXCEPT !.at = email.at]
<1>1. "save" \in Places /\ "save" \in Kinds /\ e \in Emails /\ e.key = NoKey
  BY NewEmailIs, TimeChanged, EmailParts DEF Places, Kinds, TypeOK
<1>2. pc[w] = "off" /\ lease # w /\ Becomes(w, "save", "save", e, key[w], written[w])
  BY <1>1, BeginDoes DEF ReadForSave
<1>3. QED
  BY <1>1, <1>2 DEF ReadForSave, world, dataVars

LEMMA ReadForTotalsDoes ==
    ASSUME TypeOK, LiveInv, NEW w \in Runs, ReadForTotals(w)
    PROVE  /\ pc[w] = "off" /\ lease # w /\ UNCHANGED world
           /\ Becomes(w, "refresh", "refresh", email, key[w], written[w])
<1>1. "refresh" \in Places /\ "refresh" \in Kinds /\ email \in Emails
  BY DEF Places, Kinds, TypeOK
<1>2. QED
  BY <1>1, BeginDoes DEF ReadForTotals, world, dataVars

LEMMA ReadScheduledDoes ==
    ASSUME TypeOK, LiveInv, NEW w \in Runs, ReadScheduled(w)
    PROVE  /\ pc[w] = "due" /\ UNCHANGED world
           /\ \E p \in {"acquire", "refuse"}, ky \in ScheduledKeys :
                 Becomes(w, p, kind[w], seen[w], ky, written[w])
<1> DEFINE ky == Scheduled(email.at)
<1>1. ky \in ScheduledKeys /\ ky \in Keys \cup {NoKey}
  BY KeysTyped, EmailParts DEF TypeOK
<1>2. PICK p \in {"acquire", "refuse"} : Goto(w, p)
  BY DEF ReadScheduled
<1>3. /\ kind' = [kind EXCEPT ![w] = kind[w]] /\ seen' = [seen EXCEPT ![w] = seen[w]]
      /\ written' = [written EXCEPT ![w] = written[w]] /\ key' = [key EXCEPT ![w] = ky]
  BY SameExcept DEF TypeOK, ReadScheduled
<1>4. p \in Places
  BY DEF Places
<1>5. Becomes(w, p, kind[w], seen[w], ky, written[w])
  BY <1>1, <1>2, <1>3, <1>4, OneBecomes, AtWork DEF Goto
<1>6. QED
  BY <1>1, <1>5 DEF ReadScheduled, world, dataVars

LEMMA WriteRefusalDoes ==
    ASSUME TypeOK, LiveInv, NEW w \in Runs, WriteRefusal(w)
    PROVE  /\ pc[w] = "refuse" /\ Ends(w) /\ Restated(email, email', "failed")
           /\ UNCHANGED <<lease, rows, open, mails, now, sends>>
<1>1. "failed" \in Statuses /\ email \in Emails
  BY DEF Statuses, TypeOK
<1>2. QED
  BY <1>1, OneEnds, StatusChanged DEF WriteRefusal, dataVars

LEMMA VisitListedDoes ==
    ASSUME TypeOK, LiveInv, NEW w \in Runs, VisitListed(w)
    PROVE  /\ pc[w] = "listed" /\ UNCHANGED world
           /\ \/ /\ seen[w].ready
                 /\ Becomes(w, "acquire", kind[w], NewEmail, key[w], written[w])
              \/ /\ kind[w] = "close"
                 /\ Becomes(w, "acquire", "close", seen[w], seen[w].key, written[w])
              \/ /\ seen[w].ready /\ seen[w].key \in Keys
                 /\ Becomes(w, "acquire", "finish", seen[w], seen[w].key, written[w])
<1>1. /\ kind[w] \in Kinds /\ seen[w] \in Emails /\ key[w] \in Keys \cup {NoKey}
      /\ written[w] \in 0 .. Batches /\ seen[w].key \in Keys \cup {NoKey}
      /\ "acquire" \in Places /\ "finish" \in Kinds /\ NewEmail \in Emails
  BY AtWork, EmailParts, NewEmailIs DEF Places, Kinds
<1>2. /\ UNCHANGED kind => kind' = [kind EXCEPT ![w] = kind[w]]
      /\ UNCHANGED seen => seen' = [seen EXCEPT ![w] = seen[w]]
      /\ UNCHANGED key => key' = [key EXCEPT ![w] = key[w]]
      /\ written' = [written EXCEPT ![w] = written[w]]
  BY SameExcept DEF TypeOK, VisitListed
<1>3. pc[w] = "listed" /\ UNCHANGED world /\ pc' = [pc EXCEPT ![w] = "acquire"]
  BY DEF VisitListed, world, dataVars, Goto
<1>4. CASE /\ seen[w].ready
           /\ seen' = [seen EXCEPT ![w] = NewEmail]
           /\ UNCHANGED <<kind, key>>
  BY <1>1, <1>2, <1>3, <1>4, OneBecomes
<1>5. CASE /\ kind[w] = "close"
           /\ key' = [key EXCEPT ![w] = seen[w].key]
           /\ UNCHANGED <<kind, seen>>
  BY <1>1, <1>2, <1>3, <1>5, OneBecomes
<1>6. CASE /\ seen[w].ready /\ seen[w].key # NoKey
           /\ kind' = [kind EXCEPT ![w] = "finish"]
           /\ key' = [key EXCEPT ![w] = seen[w].key]
           /\ UNCHANGED seen
  BY <1>1, <1>2, <1>3, <1>6, OneBecomes
<1>7. QED
  BY <1>4, <1>5, <1>6 DEF VisitListed

LEMMA PassListedDoes ==
    ASSUME TypeOK, LiveInv, NEW w \in Runs, PassListed(w)
    PROVE  pc[w] = "listed" /\ UNCHANGED world /\ Ends(w)
  BY OneEnds DEF PassListed, world, dataVars

LEMMA SaveDoes ==
    ASSUME TypeOK, LiveInv, NEW w \in Runs, Save(w)
    PROVE  /\ pc[w] = "save" /\ Ends(w)
           /\ email' \in Emails /\ email'.status \in {"draft", "scheduled"}
           /\ email'.key = email.key /\ email'.ready = email.ready
           /\ UNCHANGED <<lease, rows, open, mails, now, sends>>
<1>1. PICK s \in {"draft", "scheduled"}, n \in seen[w].at .. LastAt :
        email' = [email EXCEPT !.status = s, !.at = n]
  BY DEF Save
<1>2. s \in Statuses /\ n \in 1 .. LastAt /\ email \in Emails
  BY AtWork, EmailParts, SendsAssumption DEF Statuses, TypeOK
<1>3. Restated(email, [email EXCEPT !.status = s], s)
  BY <1>2, StatusChanged
<1>4. /\ email' \in Emails /\ email'.status = s
      /\ email'.key = email.key /\ email'.ready = email.ready
  BY <1>1, <1>2, <1>3, TimeChanged DEF Restated
<1>5. QED
  BY <1>4, OneEnds DEF Save, dataVars

LEMMA RefreshTotalsDoes ==
    ASSUME TypeOK, LiveInv, NEW w \in Runs, RefreshTotals(w)
    PROVE  /\ pc[w] = "refresh" /\ Ends(w) /\ UNCHANGED <<lease, rows, open, mails, now, sends>>
           /\ UNCHANGED email \/ \E s \in {"sent", "failed"} : Restated(email, email', s)
<1>1. "sent" \in Statuses /\ "failed" \in Statuses /\ email \in Emails
  BY DEF Statuses, TypeOK
<1>2. UNCHANGED email \/ \E s \in {"sent", "failed"} : email' = [email EXCEPT !.status = s]
  BY DEF RefreshTotals
<1>3. UNCHANGED email \/ \E s \in {"sent", "failed"} : Restated(email, email', s)
  BY <1>1, <1>2, StatusChanged
<1>4. QED
  BY <1>3, OneEnds DEF RefreshTotals, dataVars

LEMMA AcquireDoes ==
    ASSUME TypeOK, LiveInv, NEW w \in Runs, Acquire(w)
    PROVE  /\ pc[w] = "acquire" /\ UNCHANGED <<email, rows, open, mails, now, sends>>
           /\ \/ Free /\ lease' = w /\ Moves(w, Under(kind[w]))
              \/ Ends(w) /\ UNCHANGED lease
<1>1. pc[w] = "acquire"
  BY DEF Acquire
<1>2. Under(kind[w]) \in Places
  BY <1>1, AtWork DEF Under, Places, Holding, Remembers, PlacesOf, Snapshot, Kinds
<1>3. QED
  BY <1>1, <1>2, OneMoves, OneEnds DEF Acquire, dataVars

LEMMA ReleaseDoes ==
    ASSUME TypeOK, LiveInv, NEW w \in Runs, Release(w)
    PROVE  /\ pc[w] \in {"leave", "quit"} /\ lease' = NoRun
           /\ UNCHANGED <<email, rows, open, mails, now, sends>>
           /\ Ends(w) \/ Becomes(w, "acquire", "run", NewEmail, NoKey, 0)
<1>1. /\ "acquire" \in Places /\ "run" \in Kinds /\ NewEmail \in Emails
      /\ NoKey \in Keys \cup {NoKey} /\ 0 \in 0 .. Batches
  BY NewEmailIs, SendsAssumption DEF Places, Kinds
<1>2. CASE End(w)
  BY <1>2, OneEnds DEF Release, dataVars
<1>3. CASE ~End(w)
  BY <1>1, <1>3, OneBecomes DEF Release, Goto, dataVars
<1>4. QED
  BY <1>2, <1>3

LEMMA CheckExpectedDoes ==
    ASSUME TypeOK, LiveInv, NEW w \in Runs, CheckExpected(w)
    PROVE  /\ pc[w] = "expect" /\ UNCHANGED world
           /\ Moves(w, "first") \/ Moves(w, "quit")
<1>1. "first" \in Places /\ "quit" \in Places
  BY DEF Places, Holding
<1>2. QED
  BY <1>1, OneMoves DEF CheckExpected, world, dataVars

LEMMA StartSnapshotDoes ==
    ASSUME TypeOK, LiveInv, NEW w \in Runs, StartSnapshot(w)
    PROVE  /\ pc[w] = "first" /\ Moves(w, "create")
           /\ email' \in Emails /\ email'.status = "sending" /\ email'.key = key[w]
           /\ ~email'.ready
           /\ UNCHANGED <<lease, rows, open, mails, now, sends>>
<1> DEFINE e1 == [email EXCEPT !.status = "sending"]
           e2 == [e1 EXCEPT !.key = key[w]]
           e3 == [e2 EXCEPT !.ready = FALSE]
<1>1. email \in Emails /\ "sending" \in Statuses /\ "create" \in Places
  BY DEF Statuses, TypeOK, Places, Holding
<1>2. e1 \in Emails /\ e1.status = "sending"
  BY <1>1, StatusChanged DEF Restated
<1>3. e2 \in Emails /\ e2.status = "sending" /\ e2.key = key[w]
  BY <1>2, AtWork, KeyChanged
<1>4. e3 \in Emails /\ e3.status = "sending" /\ e3.key = key[w] /\ e3.ready = FALSE
  BY <1>3, ReadyChanged
<1>5. email' = e3 /\ Moves(w, "create")
  BY <1>1, OneMoves DEF StartSnapshot
<1>6. QED
  BY <1>4, <1>5 DEF StartSnapshot, dataVars

\* The batch w is at has landed, and it did not collide.
WritesPart(w) ==
    /\ ~Collides(key[w], written[w] + 1)
    /\ AddPart(key[w], written[w] + 1)

LEMMA CreateRowsDoes ==
    ASSUME TypeOK, LiveInv, NEW w \in Runs, CreateRows(w)
    PROVE  /\ pc[w] = "create" /\ UNCHANGED <<email, lease, mails, now, sends>>
           /\ \/ \E p \in {"create", "total", "undoRows", "undoStatus"} :
                   /\ WritesPart(w)
                   /\ \/ /\ p = IF written[w] + 1 = Batches THEN "total" ELSE "create"
                         /\ Becomes(w, p, kind[w], seen[w], key[w], written[w] + 1)
                      \/ /\ p = IF written[w] > 0 THEN "undoRows" ELSE "undoStatus"
                         /\ Moves(w, p)
              \/ /\ UNCHANGED <<rows, open>>
                 /\ Moves(w, "undoStatus") \/ (written[w] > 0 /\ Moves(w, "undoRows"))
<1> DEFINE b == written[w] + 1
<1>1. /\ pc[w] = "create" /\ UNCHANGED <<email, lease, mails, now, sends, kind, seen, key>>
      /\ written[w] \in 0 .. Batches /\ written[w] < Batches
  BY AtWork DEF CreateRows, Remembers
<1>2. {"create", "total", "undoRows", "undoStatus"} \subseteq Places /\ b \in 0 .. Batches
  BY <1>1, SendsAssumption DEF Places, Holding
<1>3. CASE /\ ~Collides(key[w], b) /\ AddPart(key[w], b)
           /\ written' = [written EXCEPT ![w] = b]
           /\ Goto(w, IF PlanWritten(b) THEN "total" ELSE "create")
  <2> DEFINE p == IF b = Batches THEN "total" ELSE "create"
  <2>1. /\ kind' = [kind EXCEPT ![w] = kind[w]] /\ seen' = [seen EXCEPT ![w] = seen[w]]
        /\ key' = [key EXCEPT ![w] = key[w]] /\ pc' = [pc EXCEPT ![w] = p]
    BY <1>1, <1>3, SameExcept DEF TypeOK, Goto, PlanWritten
  <2>2. p \in Places
    BY <1>2
  <2>3. Becomes(w, p, kind[w], seen[w], key[w], b)
    BY <1>2, <1>3, <2>1, <2>2, OneBecomes, AtWork
  <2>4. QED
    BY <1>1, <1>3, <2>3 DEF WritesPart
<1>4. CASE /\ Collides(key[w], b) \/ Mishap
           /\ AfterFailure(w, Collides(key[w], b)) \/ AfterFailure(w, FALSE)
           /\ UNCHANGED <<rows, open, written>>
  BY <1>1, <1>2, <1>4, OneMoves DEF AfterFailure, UndoesRows, runVars
<1>5. CASE /\ ~Collides(key[w], b) /\ AddPart(key[w], b)
           /\ AfterFailure(w, FALSE) /\ UNCHANGED written
  <2> DEFINE p == IF written[w] > 0 THEN "undoRows" ELSE "undoStatus"
  <2>1. Moves(w, p)
    BY <1>1, <1>2, <1>5, OneMoves DEF AfterFailure, UndoesRows, runVars
  <2>2. QED
    BY <1>1, <1>5, <2>1 DEF WritesPart
<1>6. QED
  BY <1>3, <1>4, <1>5 DEF CreateRows

LEMMA SetTotalDoes ==
    ASSUME TypeOK, LiveInv, NEW w \in Runs, SetTotal(w)
    PROVE  /\ pc[w] = "total" /\ UNCHANGED <<lease, rows, open, mails, now, sends>>
           /\ \/ UNCHANGED email /\ Moves(w, "undoRows")
              \/ /\ email' \in Emails /\ email'.ready = TRUE
                 /\ email'.status = email.status /\ email'.key = email.key
                 /\ Moves(w, "leave") \/ Moves(w, "undoRows")
<1>1. {"leave", "undoRows"} \subseteq Places /\ email \in Emails /\ written[w] > 0
  BY AtWork, SendsAssumption DEF Places, Holding, TypeOK, SetTotal, Remembers
<1>2. LET e == [email EXCEPT !.ready = TRUE]
      IN  e \in Emails /\ e.ready = TRUE /\ e.status = email.status /\ e.key = email.key
  BY <1>1, ReadyChanged
<1>3. Goto(w, "leave") => Moves(w, "leave")
  BY <1>1, OneMoves DEF SetTotal
<1>4. AfterFailure(w, FALSE) => Moves(w, "undoRows")
  BY <1>1, OneMoves DEF SetTotal, AfterFailure, UndoesRows
<1>5. QED
  BY <1>2, <1>3, <1>4 DEF SetTotal, dataVars

DeletesPlan(k) ==
    /\ rows' = [rows EXCEPT ![k] = {}]
    /\ open' = [open EXCEPT ![k] = {}]

LEMMA UndoRowsDoes ==
    ASSUME TypeOK, LiveInv, NEW w \in Runs, UndoRows(w)
    PROVE  /\ pc[w] = "undoRows" /\ Moves(w, "undoStatus")
           /\ UNCHANGED <<email, lease, mails, now, sends>>
           /\ DeletesPlan(key[w]) \/ UNCHANGED <<rows, open>>
<1>1. "undoStatus" \in Places
  BY DEF Places, Holding
<1>2. QED
  BY <1>1, OneMoves DEF UndoRows, DeletesPlan

LEMMA UndoStatusDoes ==
    ASSUME TypeOK, LiveInv, NEW w \in Runs, UndoStatus(w)
    PROVE  /\ pc[w] = "undoStatus" /\ Moves(w, "quit")
           /\ UNCHANGED <<lease, rows, open, mails, now, sends>>
           /\ \/ UNCHANGED email
              \/ /\ email' \in Emails /\ email'.key = NoKey
                 /\ email'.ready = email.ready
                 /\ email'.status = IF kind[w] = "send" THEN seen[w].status ELSE "scheduled"
<1> DEFINE s  == IF kind[w] = "send" THEN seen[w].status ELSE "scheduled"
           e1 == [email EXCEPT !.key = NoKey]
           e2 == [e1 EXCEPT !.status = s]
<1>1. "quit" \in Places /\ email \in Emails /\ s \in Statuses
  BY AtWork, EmailParts DEF Places, Holding, TypeOK, Statuses
<1>2. e1 \in Emails /\ e1.key = NoKey /\ e1.ready = email.ready
  BY <1>1, KeyChanged
<1>3. e2 \in Emails /\ e2.key = NoKey /\ e2.ready = email.ready /\ e2.status = s
  BY <1>1, <1>2, StatusChanged DEF Restated
<1>4. email' = e2 \/ UNCHANGED email
  BY DEF UndoStatus
<1>5. QED
  BY <1>1, <1>3, <1>4, OneMoves DEF UndoStatus, dataVars

LEMMA EnterDoes ==
    ASSUME TypeOK, LiveInv, NEW w \in Runs, Enter(w)
    PROVE  /\ pc[w] = "enter" /\ UNCHANGED world
           /\ \/ Moves(w, "quit")
              \/ /\ Sendable(email) /\ email.key \in Keys
                 /\ Becomes(w, "work", kind[w], email, email.key, written[w])
<1>1. {"quit", "work"} \subseteq Places /\ email \in Emails /\ email.key \in Keys \cup {NoKey}
  BY EmailParts DEF Places, Holding, TypeOK
<1>2. CASE ~Sendable(email)
  BY <1>1, <1>2, OneMoves DEF Enter, world, dataVars, runVars
<1>3. CASE Sendable(email)
  <2>1. /\ kind' = [kind EXCEPT ![w] = kind[w]] /\ written' = [written EXCEPT ![w] = written[w]]
        /\ seen' = [seen EXCEPT ![w] = email] /\ key' = [key EXCEPT ![w] = email.key]
        /\ pc' = [pc EXCEPT ![w] = "work"]
    BY <1>3, SameExcept DEF TypeOK, Enter, Goto
  <2>2. Becomes(w, "work", kind[w], email, email.key, written[w])
    BY <1>1, <2>1, AtWork, OneBecomes
  <2>3. QED
    BY <1>1, <1>3, <2>2 DEF Enter, world, dataVars, Sendable
<1>4. QED
  BY <1>2, <1>3

LEMMA EndWorkDoes ==
    ASSUME TypeOK, LiveInv, NEW w \in Runs, EndWork(w)
    PROVE  /\ pc[w] = "work" /\ UNCHANGED world
           /\ Moves(w, "complete") \/ Moves(w, "quit")
<1>1. {"complete", "quit"} \subseteq Places
  BY DEF Places, Holding
<1>2. QED
  BY <1>1, OneMoves DEF EndWork, world, dataVars

LEMMA CompleteDoes ==
    ASSUME TypeOK, LiveInv, NEW w \in Runs, Complete(w)
    PROVE  /\ pc[w] = "complete" /\ Moves(w, "quit")
           /\ UNCHANGED <<lease, rows, open, mails, now, sends>>
           /\ email' \in Emails /\ email'.key = email.key /\ email'.ready = email.ready
           /\ email'.status \in {"scheduled", "sent", "failed"}
           /\ email'.status = "scheduled" => key[w] \notin ManualKeys
<1>1. "quit" \in Places /\ email \in Emails /\ {"scheduled", "sent", "failed"} \subseteq Statuses
  BY DEF Places, Holding, TypeOK, Statuses
<1>2. CASE Repeats(key[w], seen[w].at)
  <2> DEFINE e1 == [email EXCEPT !.status = "scheduled"]
             e2 == [e1 EXCEPT !.at = seen[w].at + 1]
  <2>1. seen[w].at + 1 \in 1 .. LastAt /\ key[w] \notin ManualKeys
    BY <1>2, AtWork, EmailParts, SendsAssumption DEF Repeats
  <2>2. /\ e1 \in Emails /\ e1.status = "scheduled" /\ e1.key = email.key
        /\ e1.ready = email.ready
    BY <1>1, StatusChanged DEF Restated
  <2>3. /\ e2 \in Emails /\ e2.status = "scheduled" /\ e2.key = email.key
        /\ e2.ready = email.ready
    BY <2>1, <2>2, TimeChanged
  <2>4. email' = e2 /\ Moves(w, "quit")
    BY <1>1, <1>2, OneMoves DEF Complete
  <2>5. QED
    BY <2>1, <2>3, <2>4 DEF Complete, dataVars
<1>3. CASE ~Repeats(key[w], seen[w].at)
  <2> DEFINE s == IF AnyMailed(key[w]) THEN "sent" ELSE "failed"
  <2>1. s \in {"sent", "failed"} /\ Restated(email, [email EXCEPT !.status = s], s)
    BY <1>1, StatusChanged
  <2>2. email' = [email EXCEPT !.status = s] /\ Moves(w, "quit")
    BY <1>1, <1>3, OneMoves DEF Complete
  <2>3. QED
    BY <2>1, <2>2 DEF Complete, dataVars, Restated
<1>4. QED
  BY <1>2, <1>3

LEMMA CloseRowsDoes ==
    ASSUME TypeOK, LiveInv, NEW w \in Runs, CloseRows(w)
    PROVE  /\ pc[w] = "closeRows" /\ Moves(w, "closeStatus")
           /\ UNCHANGED <<email, lease, mails, now, sends>>
           /\ UNCHANGED <<rows, open>> \/ (key[w] \in Keys /\ DeletesPlan(key[w]))
<1>1. "closeStatus" \in Places /\ key[w] \in Keys \cup {NoKey}
  BY AtWork DEF Places, Holding
<1>2. QED
  BY <1>1, OneMoves DEF CloseRows, DeletesPlan

LEMMA CloseStatusDoes ==
    ASSUME TypeOK, LiveInv, NEW w \in Runs, CloseStatus(w)
    PROVE  /\ pc[w] = "closeStatus" /\ Moves(w, "quit") /\ Restated(email, email', "failed")
           /\ UNCHANGED <<lease, rows, open, mails, now, sends>>
<1>1. "quit" \in Places /\ email \in Emails /\ "failed" \in Statuses
  BY DEF Places, Holding, TypeOK, Statuses
<1>2. QED
  BY <1>1, StatusChanged, OneMoves DEF CloseStatus, dataVars

LEMMA KillDoes ==
    ASSUME TypeOK, LiveInv, NEW w \in Runs, Kill(w)
    PROVE  pc[w] # "off" /\ UNCHANGED world /\ Ends(w)
  BY OneEnds DEF Kill, world, dataVars

LEMMA FailDoes ==
    ASSUME TypeOK, LiveInv, NEW w \in Runs, Fail(w)
    PROVE  /\ pc[w] \in Holding /\ pc[w] \notin {"create", "total", "undoRows", "undoStatus"}
           /\ UNCHANGED world /\ Moves(w, "quit")
<1>1. "quit" \in Places
  BY DEF Places, Holding
<1>2. QED
  BY <1>1, OneMoves DEF Fail, world, dataVars, Holding

LEMMA PauseDoes ==
    ASSUME TypeOK, Pause
    PROVE  /\ Free /\ Sendable(email) /\ Restated(email, email', "paused") /\ lease' = NoRun
           /\ UNCHANGED <<rows, open, mails, pc, kind, seen, key, written, now, sends>>
<1>1. email \in Emails /\ "paused" \in Statuses
  BY DEF TypeOK, Statuses
<1>2. QED
  BY <1>1, StatusChanged DEF Pause, dataVars, runVars

LEMMA ResumeDoes ==
    ASSUME TypeOK, Resume
    PROVE  /\ Free /\ Restated(email, email', "sending") /\ lease' = NoRun
           /\ email.status = "paused" /\ email.ready /\ email.key # NoKey
           /\ UNCHANGED <<rows, open, mails, pc, kind, seen, key, written, now, sends>>
<1>1. email \in Emails /\ "sending" \in Statuses
  BY DEF TypeOK, Statuses
<1>2. QED
  BY <1>1, StatusChanged DEF Resume, dataVars, runVars

-----------------------------------------------------------------------------
(* Types, and what an invocation remembers *)

WorldTyped ==
    /\ email \in Emails /\ lease \in Runs \cup {NoRun}
    /\ rows \in [Keys -> SUBSET Parts] /\ open \in [Keys -> SUBSET Parts]
    /\ mails \in [Keys -> [Parts -> Nat]]
    /\ now \in 0 .. LastAt /\ sends \in 0 .. MaxSends

LEMMA TypeParts == TypeOK <=> WorldTyped /\ RunsTyped /\ faults \in Nat
  BY DEF TypeOK, WorldTyped, RunsTyped

LEMMA FaultsTyped == TypeOK /\ [Next]_vars => faults' \in Nat
<1> SUFFICES ASSUME TypeOK, [Next]_vars PROVE faults' \in Nat
  OBVIOUS
<1>1. faults \in Nat
  BY DEF TypeOK
<1>2. faults' \in {faults, faults + 1}
  BY DEF Next, vars, Step, Mishap,
         PressSend, ListDue, ListSending, ReadForSave, ReadForTotals, ReadScheduled,
         WriteRefusal, VisitListed, PassListed, Save, RefreshTotals, Acquire, Release,
         CheckExpected, StartSnapshot, CreateRows, SetTotal, UndoRows, UndoStatus, Enter, Work,
         EndWork, Complete, CloseRows, CloseStatus, Kill, Fail, Pause, Resume, TimePasses
<1>3. QED
  BY <1>1, <1>2

LEMMA SameWorld ==
    ASSUME TypeOK, UNCHANGED world
    PROVE  WorldTyped'
  BY TypeParts DEF WorldTyped, world

\* Only w moves, to where its kind of function can be, and it remembers what that needs.
LEMMA OneRemembers ==
    ASSUME LiveInv, NEW w \in Runs, NEW p, NEW k, NEW e, NEW ky, NEW n,
           Becomes(w, p, k, e, ky, n), Remembers(w)'
    PROVE  RunsTyped' /\ LiveInv'
<1>1. ASSUME NEW v \in Runs, v # w
      PROVE  Remembers(v)'
  BY <1>1 DEF LiveInv, Becomes, Remembers, Serving
<1>2. QED
  BY <1>1 DEF LiveInv, Becomes

\* Nobody remembers anything between two invocations.
LEMMA OneForgets ==
    ASSUME LiveInv, NEW w \in Runs, Ends(w)
    PROVE  RunsTyped' /\ LiveInv'
<1>1. Remembers(w)'
  BY DEF Ends, Becomes, Remembers, PlacesOf, Kinds, Serving, Writing
<1>2. QED
  BY <1>1, OneRemembers DEF Ends

\* Who writes a snapshot, and how far it is.
LEMMA Writer ==
    ASSUME TypeOK, LiveInv, NEW w \in Runs, pc[w] \in Writing
    PROVE  /\ kind[w] \in {"send", "enqueue"} /\ key[w] \in Keys /\ written[w] \in 0 .. Batches
           /\ kind[w] = "send" => key[w] \in ManualKeys
           /\ kind[w] = "enqueue" => key[w] \in ScheduledKeys
           /\ pc[w] = "create" => written[w] + 1 \in Parts
           /\ pc[w] = "total" => written[w] = Batches
           /\ pc[w] \in {"total", "undoRows"} => written[w] > 0
<1>1. kind[w] \in {"send", "enqueue"}
  BY AtWork DEF Remembers, PlacesOf, Writing, Snapshot, Kinds
<1>2. /\ kind[w] = "send" => key[w] \in ManualKeys
      /\ kind[w] = "enqueue" => key[w] \in ScheduledKeys
  BY AtWork DEF Remembers, Writing
<1>3. written[w] \in 0 .. Batches
  BY AtWork
<1>4. /\ pc[w] = "create" => written[w] < Batches
      /\ pc[w] = "total" => written[w] = Batches
      /\ pc[w] = "undoRows" => written[w] > 0
  BY AtWork DEF Remembers
<1>5. QED
  BY <1>1, <1>2, <1>3, <1>4, KeysTyped, SendsAssumption DEF Parts

LEMMA LiveStep ==
    ASSUME TypeOK, LiveInv, [Next]_vars
    PROVE  WorldTyped' /\ RunsTyped' /\ LiveInv'
<1> USE DEF Remembers, PlacesOf, Kinds, Serving, Writing, Snapshot
<1>PressSend. ASSUME NEW w \in Runs, PressSend(w) PROVE WorldTyped' /\ RunsTyped' /\ LiveInv'
  <2>1. PICK e \in Emails : /\ e.status = email.status
                             /\ Becomes(w, "acquire", "send", e, Manual(sends + 1), written[w])
    BY <1>PressSend, PressSendDoes
  <2>2. Remembers(w)'
    BY <1>PressSend, PressSendDoes, <2>1, AtWork, KeysTyped DEF Becomes
  <2>3. RunsTyped' /\ LiveInv'
    BY <2>1, <2>2, OneRemembers
  <2>4. WorldTyped'
    BY <1>PressSend, PressSendDoes, TypeParts DEF WorldTyped
  <2>5. QED
    BY <2>3, <2>4
<1>ListDue. ASSUME NEW w \in Runs, ListDue(w) PROVE WorldTyped' /\ RunsTyped' /\ LiveInv'
  <2>1. Remembers(w)'
    BY <1>ListDue, ListDueDoes, AtWork DEF Becomes, Moves
  <2>2. RunsTyped' /\ LiveInv'
    BY <1>ListDue, ListDueDoes, <2>1, OneRemembers DEF Moves
  <2>3. WorldTyped'
    BY <1>ListDue, ListDueDoes, TypeParts, SameWorld DEF WorldTyped
  <2>4. QED
    BY <2>2, <2>3
<1>ListSending. ASSUME NEW w \in Runs, ListSending(w) PROVE WorldTyped' /\ RunsTyped' /\ LiveInv'
  <2>1. Remembers(w)'
    BY <1>ListSending, ListSendingDoes, AtWork DEF Becomes, Moves, PreparingDied
  <2>2. RunsTyped' /\ LiveInv'
    BY <1>ListSending, ListSendingDoes, <2>1, OneRemembers DEF Moves
  <2>3. WorldTyped'
    BY <1>ListSending, ListSendingDoes, TypeParts, SameWorld DEF WorldTyped
  <2>4. QED
    BY <2>2, <2>3
<1>ReadForSave. ASSUME NEW w \in Runs, ReadForSave(w) PROVE WorldTyped' /\ RunsTyped' /\ LiveInv'
  <2>1. Remembers(w)'
    BY <1>ReadForSave, ReadForSaveDoes, AtWork DEF Becomes, Moves
  <2>2. RunsTyped' /\ LiveInv'
    BY <1>ReadForSave, ReadForSaveDoes, <2>1, OneRemembers DEF Moves
  <2>3. WorldTyped'
    BY <1>ReadForSave, ReadForSaveDoes, TypeParts, SameWorld DEF WorldTyped
  <2>4. QED
    BY <2>2, <2>3
<1>ReadForTotals. ASSUME NEW w \in Runs, ReadForTotals(w)
      PROVE  WorldTyped' /\ RunsTyped' /\ LiveInv'
  <2>1. Remembers(w)'
    BY <1>ReadForTotals, ReadForTotalsDoes, AtWork DEF Becomes, Moves
  <2>2. RunsTyped' /\ LiveInv'
    BY <1>ReadForTotals, ReadForTotalsDoes, <2>1, OneRemembers DEF Moves
  <2>3. WorldTyped'
    BY <1>ReadForTotals, ReadForTotalsDoes, TypeParts, SameWorld DEF WorldTyped
  <2>4. QED
    BY <2>2, <2>3
<1>ReadScheduled. ASSUME NEW w \in Runs, ReadScheduled(w)
      PROVE  WorldTyped' /\ RunsTyped' /\ LiveInv'
  <2>1. Remembers(w)'
    BY <1>ReadScheduled, ReadScheduledDoes, AtWork DEF Becomes, Moves
  <2>2. RunsTyped' /\ LiveInv'
    BY <1>ReadScheduled, ReadScheduledDoes, <2>1, OneRemembers DEF Moves
  <2>3. WorldTyped'
    BY <1>ReadScheduled, ReadScheduledDoes, TypeParts, SameWorld DEF WorldTyped
  <2>4. QED
    BY <2>2, <2>3
<1>WriteRefusal. ASSUME NEW w \in Runs, WriteRefusal(w) PROVE WorldTyped' /\ RunsTyped' /\ LiveInv'
  BY <1>WriteRefusal, WriteRefusalDoes, OneForgets, TypeParts, SameWorld DEF WorldTyped, Restated
<1>VisitListed. ASSUME NEW w \in Runs, VisitListed(w) PROVE WorldTyped' /\ RunsTyped' /\ LiveInv'
  <2>1. Remembers(w)'
    BY <1>VisitListed, VisitListedDoes, AtWork DEF Becomes, Moves
  <2>2. RunsTyped' /\ LiveInv'
    BY <1>VisitListed, VisitListedDoes, <2>1, OneRemembers DEF Moves
  <2>3. WorldTyped'
    BY <1>VisitListed, VisitListedDoes, TypeParts, SameWorld DEF WorldTyped
  <2>4. QED
    BY <2>2, <2>3
<1>PassListed. ASSUME NEW w \in Runs, PassListed(w) PROVE WorldTyped' /\ RunsTyped' /\ LiveInv'
  BY <1>PassListed, PassListedDoes, OneForgets, TypeParts, SameWorld DEF WorldTyped, Restated
<1>Save. ASSUME NEW w \in Runs, Save(w) PROVE WorldTyped' /\ RunsTyped' /\ LiveInv'
  BY <1>Save, SaveDoes, OneForgets, TypeParts, SameWorld DEF WorldTyped, Restated
<1>RefreshTotals. ASSUME NEW w \in Runs, RefreshTotals(w)
      PROVE  WorldTyped' /\ RunsTyped' /\ LiveInv'
  BY <1>RefreshTotals, RefreshTotalsDoes, OneForgets, TypeParts, SameWorld DEF WorldTyped, Restated
<1>Acquire. ASSUME NEW w \in Runs, Acquire(w) PROVE WorldTyped' /\ RunsTyped' /\ LiveInv'
  <2>1. CASE Ends(w)
    BY <1>Acquire, AcquireDoes, <2>1, OneForgets, TypeParts DEF WorldTyped
  <2>2. CASE Moves(w, Under(kind[w])) /\ lease' = w
    <3>1. Remembers(w)'
      BY <1>Acquire, AcquireDoes, <2>2, AtWork DEF Becomes, Moves, Under
    <3>2. RunsTyped' /\ LiveInv'
      BY <2>2, <3>1, OneRemembers DEF Moves
    <3>3. QED
      BY <1>Acquire, AcquireDoes, <2>2, <3>2, TypeParts DEF WorldTyped
  <2>3. QED
    BY <1>Acquire, AcquireDoes, <2>1, <2>2
<1>Release. ASSUME NEW w \in Runs, Release(w) PROVE WorldTyped' /\ RunsTyped' /\ LiveInv'
  <2>1. CASE Ends(w)
    BY <1>Release, ReleaseDoes, <2>1, OneForgets, TypeParts DEF WorldTyped
  <2>2. CASE Becomes(w, "acquire", "run", NewEmail, NoKey, 0)
    <3>1. Remembers(w)'
      BY <2>2 DEF Becomes
    <3>2. QED
      BY <1>Release, ReleaseDoes, <2>2, <3>1, OneRemembers, TypeParts DEF WorldTyped
  <2>3. QED
    BY <1>Release, ReleaseDoes, <2>1, <2>2
<1>CheckExpected. ASSUME NEW w \in Runs, CheckExpected(w)
      PROVE  WorldTyped' /\ RunsTyped' /\ LiveInv'
  <2>1. Remembers(w)'
    BY <1>CheckExpected, CheckExpectedDoes, AtWork DEF Becomes, Moves
  <2>2. RunsTyped' /\ LiveInv'
    BY <1>CheckExpected, CheckExpectedDoes, <2>1, OneRemembers DEF Moves
  <2>3. WorldTyped'
    BY <1>CheckExpected, CheckExpectedDoes, TypeParts, SameWorld DEF WorldTyped
  <2>4. QED
    BY <2>2, <2>3
<1>StartSnapshot. ASSUME NEW w \in Runs, StartSnapshot(w)
      PROVE  WorldTyped' /\ RunsTyped' /\ LiveInv'
  <2>1. Remembers(w)'
    BY <1>StartSnapshot, StartSnapshotDoes, AtWork, SendsAssumption DEF Becomes, Moves
  <2>2. RunsTyped' /\ LiveInv'
    BY <1>StartSnapshot, StartSnapshotDoes, <2>1, OneRemembers DEF Moves
  <2>3. WorldTyped'
    BY <1>StartSnapshot, StartSnapshotDoes, TypeParts, SameWorld DEF WorldTyped
  <2>4. QED
    BY <2>2, <2>3
<1>CreateRows. ASSUME NEW w \in Runs, CreateRows(w) PROVE WorldTyped' /\ RunsTyped' /\ LiveInv'
  <2>1. /\ pc[w] = "create" /\ UNCHANGED <<email, lease, mails, now, sends>>
        /\ kind[w] \in {"send", "enqueue"} /\ key[w] \in Keys
        /\ written[w] \in 0 .. Batches /\ written[w] + 1 \in Parts
    BY <1>CreateRows, Writer DEF CreateRows, Parts
  <2>2. ASSUME NEW p \in {"create", "total", "undoRows", "undoStatus"}, WritesPart(w),
               p = IF written[w] + 1 = Batches THEN "total" ELSE "create",
               Becomes(w, p, kind[w], seen[w], key[w], written[w] + 1)
        PROVE  RunsTyped' /\ LiveInv'
    <3>1. Remembers(w)'
      BY <2>1, <2>2, AtWork, SendsAssumption DEF Becomes, Parts
    <3>2. QED
      BY <2>2, <3>1, OneRemembers
  <2>3. ASSUME NEW p \in {"undoRows", "undoStatus"}, Moves(w, p), p = "undoRows" => written[w] > 0
        PROVE  RunsTyped' /\ LiveInv'
    <3>1. Remembers(w)'
      BY <2>1, <2>3, AtWork DEF Becomes, Moves
    <3>2. QED
      BY <2>3, <3>1, OneRemembers DEF Moves
  <2>4. RunsTyped' /\ LiveInv'
    BY <1>CreateRows, CreateRowsDoes, <2>2, <2>3
  <2>5. WritesPart(w) => rows' \in [Keys -> SUBSET Parts] /\ open' \in [Keys -> SUBSET Parts]
    BY <2>1 DEF WritesPart, AddPart, TypeOK
  <2>6. WorldTyped'
    BY <1>CreateRows, CreateRowsDoes, <2>1, <2>5, TypeParts DEF WorldTyped
  <2>7. QED
    BY <2>4, <2>6
<1>SetTotal. ASSUME NEW w \in Runs, SetTotal(w) PROVE WorldTyped' /\ RunsTyped' /\ LiveInv'
  <2>1. pc[w] = "total" /\ kind[w] \in {"send", "enqueue"} /\ written[w] > 0
    BY <1>SetTotal, Writer DEF SetTotal
  <2>2. ASSUME NEW p \in {"leave", "undoRows"}, Moves(w, p)
        PROVE  RunsTyped' /\ LiveInv'
    <3>1. Remembers(w)'
      BY <2>1, <2>2, AtWork DEF Becomes, Moves
    <3>2. QED
      BY <2>2, <3>1, OneRemembers DEF Moves
  <2>3. WorldTyped'
    BY <1>SetTotal, SetTotalDoes, TypeParts DEF WorldTyped
  <2>4. QED
    BY <1>SetTotal, SetTotalDoes, <2>2, <2>3
<1>UndoRows. ASSUME NEW w \in Runs, UndoRows(w) PROVE WorldTyped' /\ RunsTyped' /\ LiveInv'
  <2>1. Remembers(w)'
    BY <1>UndoRows, UndoRowsDoes, AtWork DEF Becomes, Moves
  <2>2. RunsTyped' /\ LiveInv'
    BY <1>UndoRows, UndoRowsDoes, <2>1, OneRemembers DEF Moves
  <2>3. WorldTyped'
    BY <1>UndoRows, UndoRowsDoes, TypeParts, SameWorld DEF WorldTyped, DeletesPlan
  <2>4. QED
    BY <2>2, <2>3
<1>UndoStatus. ASSUME NEW w \in Runs, UndoStatus(w) PROVE WorldTyped' /\ RunsTyped' /\ LiveInv'
  <2>1. Remembers(w)'
    BY <1>UndoStatus, UndoStatusDoes, AtWork DEF Becomes, Moves
  <2>2. RunsTyped' /\ LiveInv'
    BY <1>UndoStatus, UndoStatusDoes, <2>1, OneRemembers DEF Moves
  <2>3. WorldTyped'
    BY <1>UndoStatus, UndoStatusDoes, TypeParts, SameWorld DEF WorldTyped
  <2>4. QED
    BY <2>2, <2>3
<1>Enter. ASSUME NEW w \in Runs, Enter(w) PROVE WorldTyped' /\ RunsTyped' /\ LiveInv'
  <2>1. Remembers(w)'
    BY <1>Enter, EnterDoes, AtWork DEF Becomes, Moves, Sendable
  <2>2. RunsTyped' /\ LiveInv'
    BY <1>Enter, EnterDoes, <2>1, OneRemembers DEF Moves
  <2>3. WorldTyped'
    BY <1>Enter, EnterDoes, TypeParts, SameWorld DEF WorldTyped
  <2>4. QED
    BY <2>2, <2>3
<1>Work. ASSUME NEW w \in Runs, Work(w) PROVE WorldTyped' /\ RunsTyped' /\ LiveInv'
  <2>1. key[w] \in Keys /\ UNCHANGED <<email, lease, rows, pc, kind, seen, key, written, now, sends>>
    BY <1>Work, AtWork DEF Work, runVars
  <2>2. LiveInv' /\ RunsTyped'
    BY <2>1, TypeParts DEF LiveInv, RunsTyped
  <2>3. open' \in [Keys -> SUBSET Parts] /\ mails' \in [Keys -> [Parts -> Nat]]
    BY <1>Work, <2>1 DEF Work, TypeOK
  <2>4. QED
    BY <2>1, <2>2, <2>3 DEF WorldTyped, TypeOK
<1>EndWork. ASSUME NEW w \in Runs, EndWork(w) PROVE WorldTyped' /\ RunsTyped' /\ LiveInv'
  <2>1. Remembers(w)'
    BY <1>EndWork, EndWorkDoes, AtWork DEF Becomes, Moves
  <2>2. RunsTyped' /\ LiveInv'
    BY <1>EndWork, EndWorkDoes, <2>1, OneRemembers DEF Moves
  <2>3. WorldTyped'
    BY <1>EndWork, EndWorkDoes, TypeParts, SameWorld DEF WorldTyped
  <2>4. QED
    BY <2>2, <2>3
<1>Complete. ASSUME NEW w \in Runs, Complete(w) PROVE WorldTyped' /\ RunsTyped' /\ LiveInv'
  <2>1. Remembers(w)'
    BY <1>Complete, CompleteDoes, AtWork DEF Becomes, Moves
  <2>2. RunsTyped' /\ LiveInv'
    BY <1>Complete, CompleteDoes, <2>1, OneRemembers DEF Moves
  <2>3. WorldTyped'
    BY <1>Complete, CompleteDoes, TypeParts, SameWorld DEF WorldTyped
  <2>4. QED
    BY <2>2, <2>3
<1>CloseRows. ASSUME NEW w \in Runs, CloseRows(w) PROVE WorldTyped' /\ RunsTyped' /\ LiveInv'
  <2>1. Remembers(w)'
    BY <1>CloseRows, CloseRowsDoes, AtWork DEF Becomes, Moves
  <2>2. RunsTyped' /\ LiveInv'
    BY <1>CloseRows, CloseRowsDoes, <2>1, OneRemembers DEF Moves
  <2>3. WorldTyped'
    BY <1>CloseRows, CloseRowsDoes, TypeParts, SameWorld DEF WorldTyped, DeletesPlan, Restated
  <2>4. QED
    BY <2>2, <2>3
<1>CloseStatus. ASSUME NEW w \in Runs, CloseStatus(w) PROVE WorldTyped' /\ RunsTyped' /\ LiveInv'
  <2>1. Remembers(w)'
    BY <1>CloseStatus, CloseStatusDoes, AtWork DEF Becomes, Moves
  <2>2. RunsTyped' /\ LiveInv'
    BY <1>CloseStatus, CloseStatusDoes, <2>1, OneRemembers DEF Moves
  <2>3. WorldTyped'
    BY <1>CloseStatus, CloseStatusDoes, TypeParts, SameWorld DEF WorldTyped, Restated
  <2>4. QED
    BY <2>2, <2>3
<1>Kill. ASSUME NEW w \in Runs, Kill(w) PROVE WorldTyped' /\ RunsTyped' /\ LiveInv'
  BY <1>Kill, KillDoes, OneForgets, TypeParts, SameWorld DEF WorldTyped, Restated
<1>Fail. ASSUME NEW w \in Runs, Fail(w) PROVE WorldTyped' /\ RunsTyped' /\ LiveInv'
  <2>1. Remembers(w)'
    BY <1>Fail, FailDoes, AtWork DEF Becomes, Moves, Holding
  <2>2. RunsTyped' /\ LiveInv'
    BY <1>Fail, FailDoes, <2>1, OneRemembers DEF Moves
  <2>3. WorldTyped'
    BY <1>Fail, FailDoes, TypeParts, SameWorld DEF WorldTyped
  <2>4. QED
    BY <2>2, <2>3
<1>Pause. CASE Pause
  BY <1>Pause, PauseDoes, TypeParts DEF LiveInv, WorldTyped, RunsTyped, Restated
<1>Resume. CASE Resume
  BY <1>Resume, ResumeDoes, TypeParts DEF LiveInv, WorldTyped, RunsTyped, Restated
<1>TimePasses. CASE TimePasses
  <2>1. UNCHANGED <<email, lease, rows, open, mails, pc, kind, seen, key, written, sends>>
        /\ now' = now + 1 /\ now < LastAt
    BY <1>TimePasses DEF TimePasses, dataVars, runVars
  <2>2. now' \in 0 .. LastAt
    BY <2>1, SendsAssumption DEF TypeOK
  <2>3. QED
    BY <2>1, <2>2, TypeParts DEF LiveInv, WorldTyped, RunsTyped
<1>stutter. CASE UNCHANGED vars
  BY <1>stutter, TypeParts DEF vars, LiveInv, WorldTyped, RunsTyped, dataVars, runVars
<1> QED
  BY <1>PressSend, <1>ListDue, <1>ListSending, <1>ReadForSave, <1>ReadForTotals,
     <1>ReadScheduled, <1>WriteRefusal, <1>VisitListed, <1>PassListed, <1>Save, <1>RefreshTotals,
     <1>Acquire, <1>Release, <1>CheckExpected, <1>StartSnapshot, <1>CreateRows, <1>SetTotal,
     <1>UndoRows, <1>UndoStatus, <1>Enter, <1>Work, <1>EndWork, <1>Complete, <1>CloseRows,
     <1>CloseStatus, <1>Kill, <1>Fail, <1>Pause, <1>Resume, <1>TimePasses, <1>stutter
     DEF Next, Step

LEMMA TypeStep ==
    ASSUME TypeOK, LiveInv, [Next]_vars
    PROVE  TypeOK' /\ LiveInv'
  BY LiveStep, FaultsTyped DEF TypeOK, WorldTyped, RunsTyped

-----------------------------------------------------------------------------
(* One holder *)

LEMMA OneHolder ==
    ASSUME HolderInv, NEW w \in Runs, pc[w] \in Holding
    PROVE  lease = w /\ \A v \in Runs \ {w} : pc[v] \notin Holding
  BY DEF HolderInv, Holds

LEMMA NoHolder ==
    ASSUME HolderInv, Free
    PROVE  \A v \in Runs : pc[v] \notin Holding
  BY DEF HolderInv, Holds, Free, Holding

\* A holder writes; nobody else is where it would matter to.
LEMMA HolderMoves ==
    ASSUME HolderInv, NEW w \in Runs, NEW p, NEW k, NEW e, NEW ky, NEW n,
           pc[w] \in Holding, Becomes(w, p, k, e, ky, n), Holds(w)'
    PROVE  HolderInv'
<1>1. \A v \in Runs \ {w} : pc'[v] \notin Holding
  BY OneHolder DEF Becomes
<1>2. Writing \cup {"work"} \subseteq Holding
  BY DEF Writing, Holding
<1>3. ASSUME NEW v \in Runs, v # w
      PROVE  Holds(v)'
  BY <1>1, <1>2, <1>3 DEF Holds, Writing, Holding
<1>4. QED
  BY <1>3 DEF HolderInv

\* Who does not hold the lease leaves it, the key and the total alone.
LEMMA HolderKept ==
    ASSUME HolderInv, NEW w \in Runs, NEW p, NEW k, NEW e, NEW ky, NEW n,
           Becomes(w, p, k, e, ky, n), p \notin Holding,
           lease' = lease \/ pc[w] \in Holding,
           email'.key = email.key, email'.ready = email.ready
    PROVE  HolderInv'
<1>1. Holds(w)'
  BY DEF Becomes, Holds, Holding, Writing
<1>2. ASSUME NEW v \in Runs, v # w
      PROVE  Holds(v)'
  <2>1. CASE pc[w] \in Holding
    BY <1>1, <2>1, HolderMoves DEF HolderInv
  <2>2. CASE lease' = lease
    BY <1>2, <2>2 DEF HolderInv, Holds, Becomes
  <2>3. QED
    BY <2>1, <2>2
<1>3. QED
  BY <1>1, <1>2 DEF HolderInv

LEMMA HolderStep ==
    ASSUME TypeOK, LiveInv, HolderInv, [Next]_vars
    PROVE  HolderInv'
<1>PressSend. ASSUME NEW w \in Runs, PressSend(w) PROVE HolderInv'
  BY <1>PressSend, PressSendDoes, HolderKept DEF Ends, Holding, world, Restated
<1>ListDue. ASSUME NEW w \in Runs, ListDue(w) PROVE HolderInv'
  BY <1>ListDue, ListDueDoes, HolderKept DEF Ends, Holding, world, Restated
<1>ListSending. ASSUME NEW w \in Runs, ListSending(w) PROVE HolderInv'
  BY <1>ListSending, ListSendingDoes, HolderKept DEF Ends, Holding, world, Restated
<1>ReadForSave. ASSUME NEW w \in Runs, ReadForSave(w) PROVE HolderInv'
  BY <1>ReadForSave, ReadForSaveDoes, HolderKept DEF Ends, Holding, world, Restated
<1>ReadForTotals. ASSUME NEW w \in Runs, ReadForTotals(w) PROVE HolderInv'
  BY <1>ReadForTotals, ReadForTotalsDoes, HolderKept DEF Ends, Holding, world, Restated
<1>ReadScheduled. ASSUME NEW w \in Runs, ReadScheduled(w) PROVE HolderInv'
  BY <1>ReadScheduled, ReadScheduledDoes, HolderKept DEF Ends, Holding, world, Restated
<1>WriteRefusal. ASSUME NEW w \in Runs, WriteRefusal(w) PROVE HolderInv'
  BY <1>WriteRefusal, WriteRefusalDoes, HolderKept DEF Ends, Holding, world, Restated
<1>VisitListed. ASSUME NEW w \in Runs, VisitListed(w) PROVE HolderInv'
  BY <1>VisitListed, VisitListedDoes, HolderKept DEF Ends, Holding, world, Restated
<1>PassListed. ASSUME NEW w \in Runs, PassListed(w) PROVE HolderInv'
  BY <1>PassListed, PassListedDoes, HolderKept DEF Ends, Holding, world, Restated
<1>Save. ASSUME NEW w \in Runs, Save(w) PROVE HolderInv'
  BY <1>Save, SaveDoes, HolderKept DEF Ends, Holding, world, Restated
<1>RefreshTotals. ASSUME NEW w \in Runs, RefreshTotals(w) PROVE HolderInv'
  BY <1>RefreshTotals, RefreshTotalsDoes, HolderKept DEF Ends, Holding, world, Restated
<1>Acquire. ASSUME NEW w \in Runs, Acquire(w) PROVE HolderInv'
  <2>1. CASE Ends(w) /\ UNCHANGED lease
    BY <1>Acquire, AcquireDoes, <2>1, HolderKept DEF Ends, Holding
  <2>2. CASE Free /\ lease' = w /\ Moves(w, Under(kind[w]))
    <3>1. Under(kind[w]) \notin Writing \cup {"work"}
      BY <1>Acquire, AcquireDoes, AtWork DEF Under, Writing, Remembers, PlacesOf, Kinds
    <3>2. \A v \in Runs \ {w} : pc'[v] \notin Holding
      BY <2>2, NoHolder DEF Moves, Becomes
    <3>3. ASSUME NEW v \in Runs, v # w
          PROVE  Holds(v)'
      BY <3>2, <3>3 DEF Holds, Writing, Holding
    <3>4. Holds(w)'
      BY <2>2, <3>1 DEF Holds, Moves, Becomes, Writing
    <3>5. QED
      BY <3>3, <3>4 DEF HolderInv
  <2>3. QED
    BY <1>Acquire, AcquireDoes, <2>1, <2>2
<1>Release. ASSUME NEW w \in Runs, Release(w) PROVE HolderInv'
  BY <1>Release, ReleaseDoes, HolderKept DEF Ends, Holding, world, Restated
<1>CheckExpected. ASSUME NEW w \in Runs, CheckExpected(w) PROVE HolderInv'
  <2>1. pc[w] \in Holding /\ Holds(w)
    BY <1>CheckExpected, CheckExpectedDoes DEF HolderInv, Holding
  <2>2. Holds(w)'
    BY <1>CheckExpected, CheckExpectedDoes, <2>1 DEF Holds, Becomes, Moves, Writing, Holding, world
  <2>3. QED
    BY <1>CheckExpected, CheckExpectedDoes, <2>1, <2>2, HolderMoves DEF Moves
<1>StartSnapshot. ASSUME NEW w \in Runs, StartSnapshot(w) PROVE HolderInv'
  <2>1. pc[w] \in Holding /\ Holds(w)
    BY <1>StartSnapshot, StartSnapshotDoes DEF HolderInv, Holding
  <2>2. Holds(w)'
    BY <1>StartSnapshot, StartSnapshotDoes, <2>1 DEF Holds, Becomes, Moves, Writing, Holding
  <2>3. QED
    BY <1>StartSnapshot, StartSnapshotDoes, <2>1, <2>2, HolderMoves DEF Moves
<1>CreateRows. ASSUME NEW w \in Runs, CreateRows(w) PROVE HolderInv'
  <2>1. pc[w] \in Holding /\ Holds(w)
    BY <1>CreateRows, CreateRowsDoes DEF HolderInv, Holding
  <2>2. Holds(w)'
    BY <1>CreateRows, CreateRowsDoes, <2>1 DEF Holds, Becomes, Moves, Writing, Holding
  <2>3. QED
    BY <1>CreateRows, CreateRowsDoes, <2>1, <2>2, HolderMoves DEF Moves
<1>SetTotal. ASSUME NEW w \in Runs, SetTotal(w) PROVE HolderInv'
  <2>1. pc[w] \in Holding /\ Holds(w)
    BY <1>SetTotal, SetTotalDoes DEF HolderInv, Holding
  <2>2. Holds(w)'
    BY <1>SetTotal, SetTotalDoes, <2>1 DEF Holds, Becomes, Moves, Writing, Holding
  <2>3. QED
    BY <1>SetTotal, SetTotalDoes, <2>1, <2>2, HolderMoves DEF Moves
<1>UndoRows. ASSUME NEW w \in Runs, UndoRows(w) PROVE HolderInv'
  <2>1. pc[w] \in Holding /\ Holds(w)
    BY <1>UndoRows, UndoRowsDoes DEF HolderInv, Holding
  <2>2. Holds(w)'
    BY <1>UndoRows, UndoRowsDoes, <2>1 DEF Holds, Becomes, Moves, Writing, Holding
  <2>3. QED
    BY <1>UndoRows, UndoRowsDoes, <2>1, <2>2, HolderMoves DEF Moves
<1>UndoStatus. ASSUME NEW w \in Runs, UndoStatus(w) PROVE HolderInv'
  <2>1. pc[w] \in Holding /\ Holds(w)
    BY <1>UndoStatus, UndoStatusDoes DEF HolderInv, Holding
  <2>2. Holds(w)'
    BY <1>UndoStatus, UndoStatusDoes, <2>1 DEF Holds, Becomes, Moves, Writing, Holding
  <2>3. QED
    BY <1>UndoStatus, UndoStatusDoes, <2>1, <2>2, HolderMoves DEF Moves
<1>Enter. ASSUME NEW w \in Runs, Enter(w) PROVE HolderInv'
  <2>1. pc[w] \in Holding /\ Holds(w)
    BY <1>Enter, EnterDoes DEF HolderInv, Holding
  <2>2. Holds(w)'
    BY <1>Enter, EnterDoes, <2>1 DEF Holds, Becomes, Moves, Writing, Holding, world, Sendable
  <2>3. QED
    BY <1>Enter, EnterDoes, <2>1, <2>2, HolderMoves DEF Moves
<1>Work. ASSUME NEW w \in Runs, Work(w) PROVE HolderInv'
  BY <1>Work DEF Work, HolderInv, Holds, runVars
<1>EndWork. ASSUME NEW w \in Runs, EndWork(w) PROVE HolderInv'
  <2>1. pc[w] \in Holding /\ Holds(w)
    BY <1>EndWork, EndWorkDoes DEF HolderInv, Holding
  <2>2. Holds(w)'
    BY <1>EndWork, EndWorkDoes, <2>1 DEF Holds, Becomes, Moves, Writing, Holding, world
  <2>3. QED
    BY <1>EndWork, EndWorkDoes, <2>1, <2>2, HolderMoves DEF Moves
<1>Complete. ASSUME NEW w \in Runs, Complete(w) PROVE HolderInv'
  <2>1. pc[w] \in Holding /\ Holds(w)
    BY <1>Complete, CompleteDoes DEF HolderInv, Holding
  <2>2. Holds(w)'
    BY <1>Complete, CompleteDoes, <2>1 DEF Holds, Becomes, Moves, Writing, Holding
  <2>3. QED
    BY <1>Complete, CompleteDoes, <2>1, <2>2, HolderMoves DEF Moves
<1>CloseRows. ASSUME NEW w \in Runs, CloseRows(w) PROVE HolderInv'
  <2>1. pc[w] \in Holding /\ Holds(w)
    BY <1>CloseRows, CloseRowsDoes DEF HolderInv, Holding
  <2>2. Holds(w)'
    BY <1>CloseRows, CloseRowsDoes, <2>1 DEF Holds, Becomes, Moves, Writing, Holding
  <2>3. QED
    BY <1>CloseRows, CloseRowsDoes, <2>1, <2>2, HolderMoves DEF Moves
<1>CloseStatus. ASSUME NEW w \in Runs, CloseStatus(w) PROVE HolderInv'
  <2>1. pc[w] \in Holding /\ Holds(w)
    BY <1>CloseStatus, CloseStatusDoes DEF HolderInv, Holding
  <2>2. Holds(w)'
    BY <1>CloseStatus, CloseStatusDoes, <2>1 DEF Holds, Becomes, Moves, Writing, Holding
  <2>3. QED
    BY <1>CloseStatus, CloseStatusDoes, <2>1, <2>2, HolderMoves DEF Moves
<1>Kill. ASSUME NEW w \in Runs, Kill(w) PROVE HolderInv'
  BY <1>Kill, KillDoes, HolderKept DEF Ends, Holding, world, Restated
<1>Fail. ASSUME NEW w \in Runs, Fail(w) PROVE HolderInv'
  <2>1. pc[w] \in Holding /\ Holds(w)
    BY <1>Fail, FailDoes DEF HolderInv, Holding
  <2>2. Holds(w)'
    BY <1>Fail, FailDoes, <2>1 DEF Holds, Becomes, Moves, Writing, Holding, world
  <2>3. QED
    BY <1>Fail, FailDoes, <2>1, <2>2, HolderMoves DEF Moves
<1>Pause. CASE Pause
  <2>1. \A v \in Runs : pc'[v] \notin Holding
    BY <1>Pause, PauseDoes, NoHolder
  <2>2. QED
    BY <2>1 DEF HolderInv, Holds, Holding, Writing
<1>Resume. CASE Resume
  <2>1. \A v \in Runs : pc'[v] \notin Holding
    BY <1>Resume, ResumeDoes, NoHolder
  <2>2. QED
    BY <2>1 DEF HolderInv, Holds, Holding, Writing
<1>TimePasses. CASE TimePasses
  BY <1>TimePasses DEF TimePasses, HolderInv, Holds, runVars
<1>stutter. CASE UNCHANGED vars
  BY <1>stutter DEF vars, HolderInv, Holds, runVars
<1> QED
  BY <1>PressSend, <1>ListDue, <1>ListSending, <1>ReadForSave, <1>ReadForTotals,
     <1>ReadScheduled, <1>WriteRefusal, <1>VisitListed, <1>PassListed, <1>Save, <1>RefreshTotals,
     <1>Acquire, <1>Release, <1>CheckExpected, <1>StartSnapshot, <1>CreateRows, <1>SetTotal,
     <1>UndoRows, <1>UndoStatus, <1>Enter, <1>Work, <1>EndWork, <1>Complete, <1>CloseRows,
     <1>CloseStatus, <1>Kill, <1>Fail, <1>Pause, <1>Resume, <1>TimePasses, <1>stutter
     DEF Next, Step

-----------------------------------------------------------------------------
(* Plans are written in order, and are whole when the total is set *)

LEMMA WrittenPart ==
    ASSUME TypeOK, LiveInv, PlanInv, NEW w \in Runs, pc[w] = "create", WritesPart(w)
    PROVE  /\ key[w] \in Keys /\ written[w] + 1 \in Parts /\ written[w] + 1 \notin rows[key[w]]
           /\ rows[key[w]] = 1 .. written[w]
           /\ rows'[key[w]] = 1 .. (written[w] + 1)
           /\ open'[key[w]] = open[key[w]] \cup {written[w] + 1}
           /\ \A k \in Keys \ {key[w]} : rows'[k] = rows[k] /\ open'[k] = open[k]
<1>1. key[w] \in Keys /\ written[w] \in Nat /\ written[w] + 1 \in Parts
  BY Writer DEF Writing
<1>2. written[w] + 1 \notin rows[key[w]]
  BY DEF WritesPart, Collides
<1>3. rows[key[w]] = 1 .. written[w]
  <2>1. PICK m \in 0 .. Batches : rows[key[w]] = 1 .. m
    BY <1>1 DEF PlanInv, Prefix
  <2>2. CASE written[w] = 0
    BY <1>2, <2>1, <2>2, SendsAssumption
  <2>3. CASE written[w] > 0
    BY <2>3 DEF PlanInv
  <2>4. QED
    BY <1>1, <2>2, <2>3
<1>4. 1 .. (written[w] + 1) = (1 .. written[w]) \cup {written[w] + 1}
  BY <1>1
<1>5. QED
  BY <1>1, <1>2, <1>3, <1>4 DEF WritesPart, AddPart, TypeOK

LEMMA DeletedPlan ==
    ASSUME TypeOK, NEW k \in Keys, DeletesPlan(k)
    PROVE  /\ rows'[k] = {} /\ open'[k] = {}
           /\ \A j \in Keys \ {k} : rows'[j] = rows[j] /\ open'[j] = open[j]
  BY DEF TypeOK, DeletesPlan

LEMMA EmptyPrefix == Prefix({})
<1>1. 0 \in 0 .. Batches /\ {} = 1 .. 0
  BY SendsAssumption
<1>2. QED
  BY <1>1 DEF Prefix

LEMMA PlanKept ==
    ASSUME PlanInv, NEW w \in Runs, NEW p, NEW k, NEW e, NEW ky, NEW n,
           Becomes(w, p, k, e, ky, n), UNCHANGED <<rows, open>>,
           p \notin {"create", "total"} \/ (p = "create" /\ n = 0)
    PROVE  PlanInv'
<1>1. \A j \in Keys : Prefix(rows'[j]) /\ open'[j] \subseteq rows'[j]
  BY DEF PlanInv
<1>2. QED
  BY <1>1 DEF PlanInv, Becomes

\* A plan is deleted under the lease: nobody else is writing it.
LEMMA PlanDeleted ==
    ASSUME TypeOK, HolderInv, PlanInv, ReadyInv, NEW w \in Runs, NEW p, NEW j \in Keys,
           pc[w] \in Holding, Moves(w, p), p \notin {"create", "total"},
           DeletesPlan(j), UNCHANGED email
    PROVE  PlanInv' /\ ReadyInv'
<1>1. \A i \in Keys : Prefix(rows'[i]) /\ open'[i] \subseteq rows'[i]
  BY DeletedPlan, EmptyPrefix DEF PlanInv
<1>2. \A v \in Runs : pc'[v] \notin {"create", "total"}
  BY OneHolder DEF Holding, Moves, Becomes
<1>3. ReadyInv'
  BY DeletedPlan, EmailParts DEF ReadyInv, TypeOK
<1>4. QED
  BY <1>1, <1>2, <1>3 DEF PlanInv

LEMMA ReadyKept ==
    ASSUME ReadyInv, UNCHANGED rows, email'.key = email.key, email'.ready = email.ready
    PROVE  ReadyInv'
  BY DEF ReadyInv

LEMMA PlanStep ==
    ASSUME TypeOK, LiveInv, HolderInv, PlanInv, ReadyInv, [Next]_vars
    PROVE  PlanInv' /\ ReadyInv'
<1>PressSend. ASSUME NEW w \in Runs, PressSend(w) PROVE PlanInv' /\ ReadyInv'
  BY <1>PressSend, PressSendDoes, PlanKept, ReadyKept DEF Ends, Moves, world, Restated
<1>ListDue. ASSUME NEW w \in Runs, ListDue(w) PROVE PlanInv' /\ ReadyInv'
  BY <1>ListDue, ListDueDoes, PlanKept, ReadyKept DEF Ends, Moves, world, Restated
<1>ListSending. ASSUME NEW w \in Runs, ListSending(w) PROVE PlanInv' /\ ReadyInv'
  BY <1>ListSending, ListSendingDoes, PlanKept, ReadyKept DEF world
<1>ReadForSave. ASSUME NEW w \in Runs, ReadForSave(w) PROVE PlanInv' /\ ReadyInv'
  BY <1>ReadForSave, ReadForSaveDoes, PlanKept, ReadyKept DEF Ends, Moves, world, Restated
<1>ReadForTotals. ASSUME NEW w \in Runs, ReadForTotals(w) PROVE PlanInv' /\ ReadyInv'
  BY <1>ReadForTotals, ReadForTotalsDoes, PlanKept, ReadyKept DEF Ends, Moves, world, Restated
<1>ReadScheduled. ASSUME NEW w \in Runs, ReadScheduled(w) PROVE PlanInv' /\ ReadyInv'
  BY <1>ReadScheduled, ReadScheduledDoes, PlanKept, ReadyKept DEF Ends, Moves, world, Restated
<1>WriteRefusal. ASSUME NEW w \in Runs, WriteRefusal(w) PROVE PlanInv' /\ ReadyInv'
  BY <1>WriteRefusal, WriteRefusalDoes, PlanKept, ReadyKept DEF Ends, Moves, world, Restated
<1>VisitListed. ASSUME NEW w \in Runs, VisitListed(w) PROVE PlanInv' /\ ReadyInv'
  BY <1>VisitListed, VisitListedDoes, PlanKept, ReadyKept DEF Ends, Moves, world, Restated
<1>PassListed. ASSUME NEW w \in Runs, PassListed(w) PROVE PlanInv' /\ ReadyInv'
  BY <1>PassListed, PassListedDoes, PlanKept, ReadyKept DEF Ends, Moves, world, Restated
<1>Save. ASSUME NEW w \in Runs, Save(w) PROVE PlanInv' /\ ReadyInv'
  BY <1>Save, SaveDoes, PlanKept, ReadyKept DEF Ends, Moves, world, Restated
<1>RefreshTotals. ASSUME NEW w \in Runs, RefreshTotals(w) PROVE PlanInv' /\ ReadyInv'
  BY <1>RefreshTotals, RefreshTotalsDoes, PlanKept, ReadyKept DEF Ends, Moves, world, Restated
<1>Acquire. ASSUME NEW w \in Runs, Acquire(w) PROVE PlanInv' /\ ReadyInv'
  <2>1. CASE Ends(w)
    BY <1>Acquire, AcquireDoes, <2>1, PlanKept, ReadyKept DEF Ends
  <2>2. CASE Moves(w, Under(kind[w]))
    <3>1. Under(kind[w]) \notin {"create", "total"}
      BY <1>Acquire, AcquireDoes, AtWork DEF Under, Remembers, PlacesOf, Kinds
    <3>2. QED
      BY <1>Acquire, AcquireDoes, <2>2, <3>1, PlanKept, ReadyKept DEF Moves
  <2>3. QED
    BY <1>Acquire, AcquireDoes, <2>1, <2>2
<1>Release. ASSUME NEW w \in Runs, Release(w) PROVE PlanInv' /\ ReadyInv'
  BY <1>Release, ReleaseDoes, PlanKept, ReadyKept DEF Ends, Moves, world, Restated
<1>CheckExpected. ASSUME NEW w \in Runs, CheckExpected(w) PROVE PlanInv' /\ ReadyInv'
  BY <1>CheckExpected, CheckExpectedDoes, PlanKept, ReadyKept DEF Ends, Moves, world, Restated
<1>StartSnapshot. ASSUME NEW w \in Runs, StartSnapshot(w) PROVE PlanInv' /\ ReadyInv'
  <2>1. written[w] = 0
    BY <1>StartSnapshot, StartSnapshotDoes, AtWork DEF Remembers, Writing
  <2>2. PlanInv'
    BY <1>StartSnapshot, StartSnapshotDoes, <2>1, PlanKept DEF Moves
  <2>3. QED
    BY <1>StartSnapshot, StartSnapshotDoes, <2>2 DEF ReadyInv
<1>CreateRows. ASSUME NEW w \in Runs, CreateRows(w) PROVE PlanInv' /\ ReadyInv'
  <2>1. pc[w] = "create" /\ UNCHANGED email
    BY <1>CreateRows DEF CreateRows
  <2>2. ReadyInv'
    BY <2>1 DEF HolderInv, Holds, ReadyInv
  <2>3. CASE WritesPart(w)
    <3>1. \A k \in Keys : Prefix(rows'[k]) /\ open'[k] \subseteq rows'[k]
      <4>1. Prefix(rows'[key[w]]) /\ open'[key[w]] \subseteq rows'[key[w]]
        BY <2>1, <2>3, WrittenPart DEF Prefix, Parts, PlanInv
      <4>2. QED
        BY <2>1, <2>3, <4>1, WrittenPart DEF PlanInv
    <3>2. \A v \in Runs \ {w} : pc'[v] \notin {"create", "total"}
      BY <1>CreateRows, CreateRowsDoes, <2>1, OneHolder DEF Holding, Moves, Becomes
    <3>3. pc'[w] \in {"create", "total"}
          => /\ key'[w] = key[w]
             /\ \/ written'[w] = written[w] + 1
                \/ written'[w] = 0 /\ pc'[w] = "create"
      BY <1>CreateRows, CreateRowsDoes DEF Moves, Becomes
    <3>4. QED
      BY <2>1, <2>2, <2>3, <3>1, <3>2, <3>3, WrittenPart DEF PlanInv
  <2>4. CASE UNCHANGED <<rows, open>> /\ (Moves(w, "undoStatus") \/ Moves(w, "undoRows"))
    BY <2>2, <2>4, PlanKept DEF Moves
  <2>5. QED
    BY <1>CreateRows, CreateRowsDoes, <2>3, <2>4
<1>SetTotal. ASSUME NEW w \in Runs, SetTotal(w) PROVE PlanInv' /\ ReadyInv'
  <2>1. PlanInv'
    BY <1>SetTotal, SetTotalDoes, PlanKept DEF Moves
  <2>2. rows[email.key] = Parts
    <3>1. pc[w] = "total"
      BY <1>SetTotal DEF SetTotal
    <3>2. email.key = key[w] /\ written[w] = Batches /\ rows[key[w]] = 1 .. written[w]
      BY <3>1, Writer DEF Writing, PlanInv, HolderInv, Holds
    <3>3. QED
      BY <3>2 DEF Parts
  <2>3. ReadyInv'
    BY <1>SetTotal, SetTotalDoes, <2>2 DEF ReadyInv
  <2>4. QED
    BY <2>1, <2>3
<1>UndoRows. ASSUME NEW w \in Runs, UndoRows(w) PROVE PlanInv' /\ ReadyInv'
  <2>1. pc[w] \in Holding /\ Moves(w, "undoStatus") /\ UNCHANGED email
    BY <1>UndoRows, UndoRowsDoes DEF Holding
  <2>2. CASE UNCHANGED <<rows, open>>
    BY <2>1, <2>2, PlanKept, ReadyKept DEF Moves
  <2>3. CASE key[w] \in Keys /\ DeletesPlan(key[w])
    BY <2>1, <2>3, PlanDeleted
  <2>4. QED
    BY <1>UndoRows, UndoRowsDoes, <2>2, <2>3, Writer DEF Writing
<1>UndoStatus. ASSUME NEW w \in Runs, UndoStatus(w) PROVE PlanInv' /\ ReadyInv'
  <2>1. PlanInv'
    BY <1>UndoStatus, UndoStatusDoes, PlanKept DEF Moves
  <2>2. ReadyInv'
    BY <1>UndoStatus, UndoStatusDoes DEF ReadyInv
  <2>3. QED
    BY <2>1, <2>2
<1>Enter. ASSUME NEW w \in Runs, Enter(w) PROVE PlanInv' /\ ReadyInv'
  BY <1>Enter, EnterDoes, PlanKept, ReadyKept DEF Ends, Moves, world, Restated
<1>Work. ASSUME NEW w \in Runs, Work(w) PROVE PlanInv' /\ ReadyInv'
  <2>1. /\ UNCHANGED <<email, rows, pc, key, written>>
        /\ \A k \in Keys : open'[k] \subseteq open[k]
    BY <1>Work DEF Work, TypeOK, runVars
  <2>2. QED
    BY <2>1 DEF PlanInv, ReadyInv
<1>EndWork. ASSUME NEW w \in Runs, EndWork(w) PROVE PlanInv' /\ ReadyInv'
  BY <1>EndWork, EndWorkDoes, PlanKept, ReadyKept DEF Ends, Moves, world, Restated
<1>Complete. ASSUME NEW w \in Runs, Complete(w) PROVE PlanInv' /\ ReadyInv'
  BY <1>Complete, CompleteDoes, PlanKept, ReadyKept DEF Ends, Moves, world, Restated
<1>CloseRows. ASSUME NEW w \in Runs, CloseRows(w) PROVE PlanInv' /\ ReadyInv'
  <2>1. pc[w] \in Holding /\ Moves(w, "closeStatus") /\ UNCHANGED email
    BY <1>CloseRows, CloseRowsDoes DEF Holding
  <2>2. CASE UNCHANGED <<rows, open>>
    BY <2>1, <2>2, PlanKept, ReadyKept DEF Moves
  <2>3. CASE key[w] \in Keys /\ DeletesPlan(key[w])
    BY <2>1, <2>3, PlanDeleted
  <2>4. QED
    BY <1>CloseRows, CloseRowsDoes, <2>2, <2>3
<1>CloseStatus. ASSUME NEW w \in Runs, CloseStatus(w) PROVE PlanInv' /\ ReadyInv'
  BY <1>CloseStatus, CloseStatusDoes, PlanKept, ReadyKept DEF Ends, Moves, world, Restated
<1>Kill. ASSUME NEW w \in Runs, Kill(w) PROVE PlanInv' /\ ReadyInv'
  BY <1>Kill, KillDoes, PlanKept, ReadyKept DEF Ends, Moves, world, Restated
<1>Fail. ASSUME NEW w \in Runs, Fail(w) PROVE PlanInv' /\ ReadyInv'
  BY <1>Fail, FailDoes, PlanKept, ReadyKept DEF Ends, Moves, world, Restated
<1>Pause. CASE Pause
  BY <1>Pause, PauseDoes, ReadyKept DEF PlanInv, Restated
<1>Resume. CASE Resume
  BY <1>Resume, ResumeDoes, ReadyKept DEF PlanInv, Restated
<1>TimePasses. CASE TimePasses
  BY <1>TimePasses DEF TimePasses, PlanInv, ReadyInv, dataVars, runVars
<1>stutter. CASE UNCHANGED vars
  BY <1>stutter DEF vars, PlanInv, ReadyInv, dataVars, runVars
<1> QED
  BY <1>PressSend, <1>ListDue, <1>ListSending, <1>ReadForSave, <1>ReadForTotals,
     <1>ReadScheduled, <1>WriteRefusal, <1>VisitListed, <1>PassListed, <1>Save, <1>RefreshTotals,
     <1>Acquire, <1>Release, <1>CheckExpected, <1>StartSnapshot, <1>CreateRows, <1>SetTotal,
     <1>UndoRows, <1>UndoStatus, <1>Enter, <1>Work, <1>EndWork, <1>Complete, <1>CloseRows,
     <1>CloseStatus, <1>Kill, <1>Fail, <1>Pause, <1>Resume, <1>TimePasses, <1>stutter
     DEF Next, Step

-----------------------------------------------------------------------------
(* An email that is over stays over *)

LEMMA OverKept ==
    ASSUME Terminal, NEW w \in Runs, NEW p, NEW k, NEW e, NEW ky, NEW n,
           Becomes(w, p, k, e, ky, n), NeverAgain(w)', Over'
    PROVE  Terminal'
<1>1. ASSUME NEW v \in Runs, v # w
      PROVE  NeverAgain(v)'
  BY <1>1 DEF Terminal, NeverAgain, Becomes, Serving
<1>2. QED
  BY <1>1 DEF Terminal

LEMMA OneLeavesOver ==
    ASSUME Terminal, NEW w \in Runs, Ends(w), Over'
    PROVE  Terminal'
<1>1. NeverAgain(w)'
  BY DEF Ends, Becomes, NeverAgain
<1>2. QED
  BY <1>1, OverKept DEF Ends

\* Only the email's status changed, and not to one that is sent again.
LEMMA StillOver ==
    ASSUME Over, NEW s \in {"sent", "failed"}, UNCHANGED email \/ Restated(email, email', s)
    PROVE  Over'
  BY DEF Over, Restated

LEMMA TerminalStep ==
    ASSUME TypeOK, LiveInv, HolderInv, Terminal, [Next]_vars
    PROVE  Terminal'
<1>over. Over /\ \A w \in Runs : NeverAgain(w)
  BY DEF Terminal
<1>PressSend. ASSUME NEW w \in Runs, PressSend(w) PROVE Terminal'
  <2>1. PICK e \in Emails : /\ e.status = email.status
                             /\ Becomes(w, "acquire", "send", e, Manual(sends + 1), written[w])
    BY <1>PressSend, PressSendDoes
  <2>2. NeverAgain(w)'
    BY <1>over, <2>1 DEF Over, NeverAgain, Becomes, Serving
  <2>3. Over'
    BY <1>PressSend, PressSendDoes, <1>over DEF Over
  <2>4. QED
    BY <2>1, <2>2, <2>3, OverKept
<1>ListDue. ASSUME NEW w \in Runs, ListDue(w) PROVE Terminal'
  BY <1>ListDue, ListDueDoes, <1>over DEF Over
<1>ListSending. ASSUME NEW w \in Runs, ListSending(w) PROVE Terminal'
  <2>1. PICK k \in {"run", "close"} : Becomes(w, "listed", k, email, key[w], written[w])
    BY <1>ListSending, ListSendingDoes
  <2>2. Over' /\ UNCHANGED email /\ email.status = "sending"
    BY <1>ListSending, ListSendingDoes, <1>over DEF Over, world
  <2>3. email.key \in ManualKeys \cup ScheduledKeys \cup {NoKey}
    BY KeysTyped, EmailParts DEF TypeOK
  <2>4. NeverAgain(w)'
    BY <2>1, <2>2, <2>3, <1>over DEF NeverAgain, Becomes, Serving, Over
  <2>5. QED
    BY <2>1, <2>2, <2>4, OverKept
<1>ReadForSave. ASSUME NEW w \in Runs, ReadForSave(w) PROVE Terminal'
  BY <1>ReadForSave, ReadForSaveDoes, <1>over DEF Over
<1>ReadForTotals. ASSUME NEW w \in Runs, ReadForTotals(w) PROVE Terminal'
  <2>1. Over'
    BY <1>ReadForTotals, ReadForTotalsDoes, <1>over DEF Over, world
  <2>2. NeverAgain(w)'
    BY <1>ReadForTotals, ReadForTotalsDoes, <1>over, AtWork, KeysTyped
       DEF NeverAgain, Moves, Becomes, Serving, Over, Remembers, PlacesOf, Kinds, Snapshot, Writing
  <2>3. QED
    BY <1>ReadForTotals, ReadForTotalsDoes, <2>1, <2>2, OverKept DEF Moves
<1>ReadScheduled. ASSUME NEW w \in Runs, ReadScheduled(w) PROVE Terminal'
  BY <1>ReadScheduled, ReadScheduledDoes, <1>over, AtWork
     DEF NeverAgain, Remembers, PlacesOf, Kinds, Snapshot, Writing
<1>WriteRefusal. ASSUME NEW w \in Runs, WriteRefusal(w) PROVE Terminal'
  BY <1>WriteRefusal, WriteRefusalDoes, <1>over, AtWork
     DEF NeverAgain, Remembers, PlacesOf, Kinds, Snapshot, Writing
<1>VisitListed. ASSUME NEW w \in Runs, VisitListed(w) PROVE Terminal'
  <2>1. Over' /\ pc[w] = "listed" /\ kind[w] \in {"run", "close"}
    BY <1>VisitListed, VisitListedDoes, <1>over, AtWork
       DEF Over, world, Remembers, PlacesOf, Kinds, Snapshot, Writing
  <2>2. ASSUME NEW k \in {"run", "close"}, NEW e, NEW ky, Becomes(w, "acquire", k, e, ky, written[w])
        PROVE  NeverAgain(w)'
    BY <2>2 DEF NeverAgain, Becomes, Serving
  <2>3. ASSUME seen[w].ready, seen[w].key \in Keys,
               Becomes(w, "acquire", "finish", seen[w], seen[w].key, written[w])
        PROVE  NeverAgain(w)'
    <3>1. seen[w].key \in ManualKeys
      BY <1>over, <2>1, <2>3, KeysTyped DEF NeverAgain
    <3>2. QED
      BY <2>3, <3>1 DEF NeverAgain, Becomes, Serving
  <2>4. QED
    BY <1>VisitListed, VisitListedDoes, <2>1, <2>2, <2>3, OverKept
<1>PassListed. ASSUME NEW w \in Runs, PassListed(w) PROVE Terminal'
  BY <1>PassListed, PassListedDoes, <1>over, OneLeavesOver DEF world, Over
<1>Save. ASSUME NEW w \in Runs, Save(w) PROVE Terminal'
  BY <1>Save, SaveDoes, <1>over, AtWork
     DEF NeverAgain, Remembers, PlacesOf, Kinds, Snapshot, Writing
<1>RefreshTotals. ASSUME NEW w \in Runs, RefreshTotals(w) PROVE Terminal'
  <2>1. Over'
    BY <1>RefreshTotals, RefreshTotalsDoes, <1>over, StillOver
  <2>2. QED
    BY <1>RefreshTotals, RefreshTotalsDoes, <2>1, OneLeavesOver
<1>Acquire. ASSUME NEW w \in Runs, Acquire(w) PROVE Terminal'
  <2>1. Over' /\ pc[w] = "acquire"
    BY <1>Acquire, AcquireDoes, <1>over DEF Over
  <2>2. CASE Ends(w)
    BY <2>1, <2>2, OneLeavesOver
  <2>3. CASE Moves(w, Under(kind[w]))
    <3>1. NeverAgain(w)'
      BY <1>over, <2>1, <2>3, AtWork
         DEF NeverAgain, Moves, Becomes, Serving, Under, Remembers, PlacesOf, Kinds
    <3>2. QED
      BY <2>1, <2>3, <3>1, OverKept DEF Moves
  <2>4. QED
    BY <1>Acquire, AcquireDoes, <2>2, <2>3
<1>Release. ASSUME NEW w \in Runs, Release(w) PROVE Terminal'
  <2>1. Over'
    BY <1>Release, ReleaseDoes, <1>over DEF Over
  <2>2. CASE Ends(w)
    BY <2>1, <2>2, OneLeavesOver
  <2>3. CASE Becomes(w, "acquire", "run", NewEmail, NoKey, 0)
    <3>1. NeverAgain(w)'
      BY <2>3 DEF NeverAgain, Becomes, Serving
    <3>2. QED
      BY <2>1, <2>3, <3>1, OverKept
  <2>4. QED
    BY <1>Release, ReleaseDoes, <2>2, <2>3
<1>CheckExpected. ASSUME NEW w \in Runs, CheckExpected(w) PROVE Terminal'
  <2>1. Over'
    BY <1>CheckExpected, CheckExpectedDoes, <1>over DEF Over, world
  <2>2. NeverAgain(w)'
    BY <1>CheckExpected, CheckExpectedDoes, <1>over, AtWork, KeysTyped
       DEF NeverAgain, Moves, Becomes, Serving, Over, Remembers, PlacesOf, Kinds, Snapshot, Writing
  <2>3. QED
    BY <1>CheckExpected, CheckExpectedDoes, <2>1, <2>2, OverKept DEF Moves
<1>StartSnapshot. ASSUME NEW w \in Runs, StartSnapshot(w) PROVE Terminal'
  <2>1. Over'
    <3>1. kind[w] # "enqueue" /\ kind[w] \in {"send", "enqueue"}
      BY <1>over, <1>StartSnapshot, StartSnapshotDoes, AtWork
         DEF NeverAgain, Remembers, PlacesOf, Kinds, Snapshot
    <3>2. QED
      BY <1>StartSnapshot, StartSnapshotDoes, <3>1, AtWork DEF Over
  <2>2. NeverAgain(w)'
    BY <1>StartSnapshot, StartSnapshotDoes, <1>over, AtWork, KeysTyped
       DEF NeverAgain, Moves, Becomes, Serving, Over, Remembers, PlacesOf, Kinds, Snapshot, Writing
  <2>3. QED
    BY <1>StartSnapshot, StartSnapshotDoes, <2>1, <2>2, OverKept DEF Moves
<1>CreateRows. ASSUME NEW w \in Runs, CreateRows(w) PROVE Terminal'
  <2>1. Over' /\ kind[w] \in {"send", "enqueue"} /\ pc[w] = "create"
    BY <1>CreateRows, Writer, <1>over DEF CreateRows, Over, Writing
  <2>2. ASSUME NEW p \in Writing, NEW n, Becomes(w, p, kind[w], seen[w], key[w], n)
        PROVE  Terminal'
    <3>1. NeverAgain(w)'
      BY <1>over, <2>1, <2>2 DEF NeverAgain, Becomes, Serving, Writing
    <3>2. QED
      BY <2>1, <2>2, <3>1, OverKept
  <2>3. QED
    BY <1>CreateRows, CreateRowsDoes, <2>2 DEF Moves, Writing
<1>SetTotal. ASSUME NEW w \in Runs, SetTotal(w) PROVE Terminal'
  <2>1. Over'
    <3>1. pc[w] = "total"
      BY <1>SetTotal DEF SetTotal
    <3>2. email.key = key[w] /\ key[w] \in ManualKeys
      BY <3>1, <1>over, Writer DEF HolderInv, Holds, Writing, NeverAgain
    <3>3. QED
      BY <1>SetTotal, SetTotalDoes, <1>over, <3>2, KeysTyped DEF Over
  <2>2. NeverAgain(w)'
    BY <1>SetTotal, SetTotalDoes, <1>over, AtWork, KeysTyped
       DEF NeverAgain, Moves, Becomes, Serving, Over, Remembers, PlacesOf, Kinds, Snapshot, Writing
  <2>3. QED
    BY <1>SetTotal, SetTotalDoes, <2>1, <2>2, OverKept DEF Moves
<1>UndoRows. ASSUME NEW w \in Runs, UndoRows(w) PROVE Terminal'
  <2>1. Over'
    BY <1>UndoRows, UndoRowsDoes, <1>over DEF Over, world
  <2>2. NeverAgain(w)'
    BY <1>UndoRows, UndoRowsDoes, <1>over, AtWork, KeysTyped
       DEF NeverAgain, Moves, Becomes, Serving, Over, Remembers, PlacesOf, Kinds, Snapshot, Writing
  <2>3. QED
    BY <1>UndoRows, UndoRowsDoes, <2>1, <2>2, OverKept DEF Moves
<1>UndoStatus. ASSUME NEW w \in Runs, UndoStatus(w) PROVE Terminal'
  <2>1. Over'
    <3>1. pc[w] = "undoStatus"
      BY <1>UndoStatus DEF UndoStatus
    <3>2. kind[w] = "send" /\ seen[w].status \notin {"draft", "scheduled"}
      BY <3>1, <1>over, Writer DEF Writing, NeverAgain
    <3>3. QED
      BY <1>UndoStatus, UndoStatusDoes, <1>over, <3>2, KeysTyped DEF Over
  <2>2. NeverAgain(w)'
    BY <1>UndoStatus, UndoStatusDoes, <1>over, AtWork, KeysTyped
       DEF NeverAgain, Moves, Becomes, Serving, Over, Remembers, PlacesOf, Kinds, Snapshot, Writing
  <2>3. QED
    BY <1>UndoStatus, UndoStatusDoes, <2>1, <2>2, OverKept DEF Moves
<1>Enter. ASSUME NEW w \in Runs, Enter(w) PROVE Terminal'
  <2>1. Over'
    BY <1>Enter, EnterDoes, <1>over DEF Over, world
  <2>2. NeverAgain(w)'
    BY <1>Enter, EnterDoes, <1>over, AtWork, KeysTyped
       DEF NeverAgain, Moves, Becomes, Serving, Over, Remembers, PlacesOf, Kinds,
           Snapshot, Writing, Sendable
  <2>3. QED
    BY <1>Enter, EnterDoes, <2>1, <2>2, OverKept DEF Moves
<1>Work. ASSUME NEW w \in Runs, Work(w) PROVE Terminal'
  <2>1. UNCHANGED <<email, pc, kind, seen, key>>
    BY <1>Work DEF Work, runVars
  <2>2. QED
    BY <1>over, <2>1 DEF Terminal, Over, NeverAgain, Serving
<1>EndWork. ASSUME NEW w \in Runs, EndWork(w) PROVE Terminal'
  <2>1. Over'
    BY <1>EndWork, EndWorkDoes, <1>over DEF Over, world
  <2>2. NeverAgain(w)'
    BY <1>EndWork, EndWorkDoes, <1>over, AtWork, KeysTyped
       DEF NeverAgain, Moves, Becomes, Serving, Over, Remembers, PlacesOf, Kinds, Snapshot, Writing
  <2>3. QED
    BY <1>EndWork, EndWorkDoes, <2>1, <2>2, OverKept DEF Moves
<1>Complete. ASSUME NEW w \in Runs, Complete(w) PROVE Terminal'
  <2>1. Over'
    <3>1. pc[w] = "complete"
      BY <1>Complete DEF Complete
    <3>2. key[w] \in ManualKeys
      BY <3>1, <1>over, AtWork
         DEF NeverAgain, Serving, Remembers, PlacesOf, Kinds, Snapshot, Writing
    <3>3. QED
      BY <1>Complete, CompleteDoes, <1>over, <3>2 DEF Over
  <2>2. NeverAgain(w)'
    BY <1>Complete, CompleteDoes, <1>over, AtWork, KeysTyped
       DEF NeverAgain, Moves, Becomes, Serving, Over, Remembers, PlacesOf, Kinds, Snapshot, Writing
  <2>3. QED
    BY <1>Complete, CompleteDoes, <2>1, <2>2, OverKept DEF Moves
<1>CloseRows. ASSUME NEW w \in Runs, CloseRows(w) PROVE Terminal'
  <2>1. Over'
    BY <1>CloseRows, CloseRowsDoes, <1>over DEF Over, world
  <2>2. NeverAgain(w)'
    BY <1>CloseRows, CloseRowsDoes, <1>over, AtWork, KeysTyped
       DEF NeverAgain, Moves, Becomes, Serving, Over, Remembers, PlacesOf, Kinds, Snapshot, Writing
  <2>3. QED
    BY <1>CloseRows, CloseRowsDoes, <2>1, <2>2, OverKept DEF Moves
<1>CloseStatus. ASSUME NEW w \in Runs, CloseStatus(w) PROVE Terminal'
  <2>1. Over'
    BY <1>CloseStatus, CloseStatusDoes, <1>over, StillOver
  <2>2. NeverAgain(w)'
    BY <1>CloseStatus, CloseStatusDoes, <1>over, AtWork, KeysTyped
       DEF NeverAgain, Moves, Becomes, Serving, Over, Remembers, PlacesOf, Kinds, Snapshot, Writing
  <2>3. QED
    BY <1>CloseStatus, CloseStatusDoes, <2>1, <2>2, OverKept DEF Moves
<1>Kill. ASSUME NEW w \in Runs, Kill(w) PROVE Terminal'
  BY <1>Kill, KillDoes, <1>over, OneLeavesOver DEF world, Over
<1>Fail. ASSUME NEW w \in Runs, Fail(w) PROVE Terminal'
  <2>1. Over'
    BY <1>Fail, FailDoes, <1>over DEF Over, world
  <2>2. NeverAgain(w)'
    BY <1>Fail, FailDoes, <1>over, AtWork, KeysTyped
       DEF NeverAgain, Moves, Becomes, Serving, Over, Remembers, PlacesOf, Kinds, Snapshot, Writing
  <2>3. QED
    BY <1>Fail, FailDoes, <2>1, <2>2, OverKept DEF Moves
<1>Pause. CASE Pause
  BY <1>Pause, PauseDoes, <1>over DEF Terminal, Over, NeverAgain, Serving, Restated, Sendable
<1>Resume. CASE Resume
  BY <1>Resume, ResumeDoes, <1>over DEF Terminal, Over, NeverAgain, Serving, Restated
<1>TimePasses. CASE TimePasses
  BY <1>TimePasses DEF TimePasses, Terminal, Over, NeverAgain, Serving, runVars
<1>stutter. CASE UNCHANGED vars
  BY <1>stutter DEF vars, Terminal, Over, NeverAgain, Serving, runVars
<1> QED
  BY <1>PressSend, <1>ListDue, <1>ListSending, <1>ReadForSave, <1>ReadForTotals,
     <1>ReadScheduled, <1>WriteRefusal, <1>VisitListed, <1>PassListed, <1>Save, <1>RefreshTotals,
     <1>Acquire, <1>Release, <1>CheckExpected, <1>StartSnapshot, <1>CreateRows, <1>SetTotal,
     <1>UndoRows, <1>UndoStatus, <1>Enter, <1>Work, <1>EndWork, <1>Complete, <1>CloseRows,
     <1>CloseStatus, <1>Kill, <1>Fail, <1>Pause, <1>Resume, <1>TimePasses, <1>stutter
     DEF Next, Step

\* A send whose writer died is over once the tick has found it so.
LEMMA ClosingOver ==
    ASSUME TypeOK, LiveInv, NEW w \in Runs, ListSending(w), PreparingDied(email)
    PROVE  Terminal'
<1>1. /\ email.status = "sending" /\ ~email.ready /\ UNCHANGED email /\ pc[w] = "off"
      /\ \A v \in Runs : pc[v] = "off" \/ (kind[v] \in {"run", "close", "refresh"} /\ seen[v] = email)
  BY ListSendingDoes DEF PreparingDied, world
<1>2. Becomes(w, "listed", "close", email, key[w], written[w])
  BY ListSendingDoes
<1>3. Over' /\ NeverAgain(w)'
  BY <1>1, <1>2 DEF Over, NeverAgain, Becomes, Serving
<1>4. ASSUME NEW v \in Runs, v # w
      PROVE  NeverAgain(v)'
  BY <1>1, <1>2, <1>4, AtWork DEF NeverAgain, Becomes, Serving, Remembers
<1>5. QED
  BY <1>3, <1>4 DEF Terminal

-----------------------------------------------------------------------------
(* Where keys come from: how a step changes what each invocation remembers *)

Flows(v) ==
    /\ \/ key'[v] \in {key[v], seen[v].key, email.key, NoKey} \cup ScheduledKeys
       \/ PressSend(v) /\ key'[v] = Manual(sends + 1)
    /\ seen'[v].key \in {seen[v].key, email.key, NoKey}
    /\ kind'[v] = "send" =>
          \/ PressSend(v)
          \/ kind[v] = "send" /\ key'[v] = key[v] /\ (pc'[v] \in Before => pc[v] \in Before)
    /\ kind'[v] = "close" =>
          \/ kind[v] = "close" /\ seen'[v] = seen[v]
          \/ ListSending(v) /\ PreparingDied(email) /\ seen'[v] = email
    /\ HasRows(v)' =>
          /\ key'[v] = key[v]
          /\ HasRows(v) \/ (pc[v] = "create" /\ WritesPart(v))

LEMMA OneFlows ==
    ASSUME NEW w \in Runs, NEW p, NEW k, NEW e, NEW ky, NEW n,
           Becomes(w, p, k, e, ky, n), Flows(w)
    PROVE  \A v \in Runs : Flows(v)
<1>1. ASSUME NEW v \in Runs, v # w
      PROVE  Flows(v)
  <2>1. /\ pc'[v] = pc[v] /\ kind'[v] = kind[v] /\ seen'[v] = seen[v]
        /\ key'[v] = key[v] /\ written'[v] = written[v]
    BY <1>1 DEF Becomes
  <2>2. QED
    BY <2>1 DEF Flows, HasRows
<1>2. QED
  BY <1>1

LEMMA OneStays ==
    ASSUME UNCHANGED <<pc, kind, seen, key, written>>
    PROVE  \A v \in Runs : Flows(v)
  BY DEF Flows, HasRows

LEMMA OneFlowsOut ==
    ASSUME NEW w \in Runs, Ends(w)
    PROVE  \A v \in Runs : Flows(v)
<1>1. Flows(w)
  BY NewEmailIs DEF Ends, Becomes, Flows, HasRows
<1>2. QED
  BY <1>1, OneFlows DEF Ends

LEMMA FlowStep ==
    ASSUME TypeOK, LiveInv, [Next]_vars
    PROVE  \A v \in Runs : Flows(v)
<1>PressSend. ASSUME NEW w \in Runs, PressSend(w) PROVE \A v \in Runs : Flows(v)
  <2>1. PICK e \in Emails :
           e.key = NoKey /\ Becomes(w, "acquire", "send", e, Manual(sends + 1), written[w])
    BY <1>PressSend, PressSendDoes
  <2>2. Flows(w)
    BY <1>PressSend, <2>1 DEF Flows, Becomes, HasRows
  <2>3. QED
    BY <2>1, <2>2, OneFlows
<1>ListDue. ASSUME NEW w \in Runs, ListDue(w) PROVE \A v \in Runs : Flows(v)
  <2>1. Flows(w)
    BY <1>ListDue, ListDueDoes, NewEmailIs DEF Flows, Moves, Becomes, HasRows, Before
  <2>2. QED
    BY <1>ListDue, ListDueDoes, <2>1, OneFlows DEF Moves
<1>ListSending. ASSUME NEW w \in Runs, ListSending(w) PROVE \A v \in Runs : Flows(v)
  <2>1. PICK k \in {"run", "close"} :
           /\ k = "close" <=> PreparingDied(email)
           /\ Becomes(w, "listed", k, email, key[w], written[w])
    BY <1>ListSending, ListSendingDoes
  <2>2. Flows(w)
    BY <1>ListSending, <2>1 DEF Flows, Becomes, HasRows
  <2>3. QED
    BY <2>1, <2>2, OneFlows
<1>ReadForSave. ASSUME NEW w \in Runs, ReadForSave(w) PROVE \A v \in Runs : Flows(v)
  <2>1. Flows(w)
    BY <1>ReadForSave, ReadForSaveDoes DEF Flows, Moves, Becomes, HasRows, Before
  <2>2. QED
    BY <1>ReadForSave, ReadForSaveDoes, <2>1, OneFlows DEF Moves
<1>ReadForTotals. ASSUME NEW w \in Runs, ReadForTotals(w) PROVE \A v \in Runs : Flows(v)
  <2>1. Flows(w)
    BY <1>ReadForTotals, ReadForTotalsDoes DEF Flows, Moves, Becomes, HasRows, Before
  <2>2. QED
    BY <1>ReadForTotals, ReadForTotalsDoes, <2>1, OneFlows DEF Moves
<1>ReadScheduled. ASSUME NEW w \in Runs, ReadScheduled(w) PROVE \A v \in Runs : Flows(v)
  <2>1. Flows(w)
    BY <1>ReadScheduled, ReadScheduledDoes, AtWork
       DEF Flows, Moves, Becomes, HasRows, Before, Remembers, PlacesOf, Kinds, Snapshot, Writing
  <2>2. QED
    BY <1>ReadScheduled, ReadScheduledDoes, <2>1, OneFlows DEF Moves
<1>WriteRefusal. ASSUME NEW w \in Runs, WriteRefusal(w) PROVE \A v \in Runs : Flows(v)
  BY <1>WriteRefusal, WriteRefusalDoes, OneFlowsOut
<1>VisitListed. ASSUME NEW w \in Runs, VisitListed(w) PROVE \A v \in Runs : Flows(v)
  <2>1. CASE seen[w].ready /\ Becomes(w, "acquire", kind[w], NewEmail, key[w], written[w])
    <3>1. pc[w] = "listed" /\ kind[w] = "run"
      BY <1>VisitListed, VisitListedDoes, <2>1, AtWork
         DEF Remembers, PlacesOf, Kinds, Snapshot, Writing
    <3>2. Flows(w)
      BY <2>1, <3>1, NewEmailIs DEF Flows, Becomes, HasRows
    <3>3. QED
      BY <2>1, <3>2, OneFlows
  <2>2. CASE /\ kind[w] = "close"
             /\ Becomes(w, "acquire", "close", seen[w], seen[w].key, written[w])
    <3>1. Flows(w)
      BY <2>2 DEF Flows, Becomes, HasRows
    <3>2. QED
      BY <2>2, <3>1, OneFlows
  <2>3. CASE Becomes(w, "acquire", "finish", seen[w], seen[w].key, written[w])
    <3>1. Flows(w)
      BY <2>3 DEF Flows, Becomes, HasRows
    <3>2. QED
      BY <2>3, <3>1, OneFlows
  <2>4. QED
    BY <1>VisitListed, VisitListedDoes, <2>1, <2>2, <2>3
<1>PassListed. ASSUME NEW w \in Runs, PassListed(w) PROVE \A v \in Runs : Flows(v)
  BY <1>PassListed, PassListedDoes, OneFlowsOut
<1>Save. ASSUME NEW w \in Runs, Save(w) PROVE \A v \in Runs : Flows(v)
  BY <1>Save, SaveDoes, OneFlowsOut
<1>RefreshTotals. ASSUME NEW w \in Runs, RefreshTotals(w) PROVE \A v \in Runs : Flows(v)
  BY <1>RefreshTotals, RefreshTotalsDoes, OneFlowsOut
<1>Acquire. ASSUME NEW w \in Runs, Acquire(w) PROVE \A v \in Runs : Flows(v)
  <2>1. CASE Ends(w)
    BY <2>1, OneFlowsOut
  <2>2. CASE Moves(w, Under(kind[w]))
    <3>1. Under(kind[w]) \notin {"create", "total", "undoRows"} /\ pc[w] \in Before
      BY <1>Acquire, AcquireDoes, AtWork DEF Under, Remembers, PlacesOf, Kinds, Before
    <3>2. Flows(w)
      BY <2>2, <3>1 DEF Flows, Moves, Becomes, HasRows
    <3>3. QED
      BY <2>2, <3>2, OneFlows DEF Moves
  <2>3. QED
    BY <1>Acquire, AcquireDoes, <2>1, <2>2
<1>Release. ASSUME NEW w \in Runs, Release(w) PROVE \A v \in Runs : Flows(v)
  <2>1. CASE Ends(w)
    BY <2>1, OneFlowsOut
  <2>2. CASE Becomes(w, "acquire", "run", NewEmail, NoKey, 0)
    <3>1. Flows(w)
      BY <2>2, NewEmailIs DEF Flows, Becomes, HasRows
    <3>2. QED
      BY <2>2, <3>1, OneFlows
  <2>3. QED
    BY <1>Release, ReleaseDoes, <2>1, <2>2
<1>CheckExpected. ASSUME NEW w \in Runs, CheckExpected(w) PROVE \A v \in Runs : Flows(v)
  <2>1. Flows(w)
    BY <1>CheckExpected, CheckExpectedDoes DEF Flows, Moves, Becomes, HasRows, Before
  <2>2. QED
    BY <1>CheckExpected, CheckExpectedDoes, <2>1, OneFlows DEF Moves
<1>StartSnapshot. ASSUME NEW w \in Runs, StartSnapshot(w) PROVE \A v \in Runs : Flows(v)
  <2>1. Flows(w)
    BY <1>StartSnapshot, StartSnapshotDoes, AtWork
       DEF Flows, Moves, Becomes, HasRows, Before, Remembers, Writing
  <2>2. QED
    BY <1>StartSnapshot, StartSnapshotDoes, <2>1, OneFlows DEF Moves
<1>CreateRows. ASSUME NEW w \in Runs, CreateRows(w) PROVE \A v \in Runs : Flows(v)
  <2>1. CASE \E p \in Writing, n \in Nat :
                WritesPart(w) /\ Becomes(w, p, kind[w], seen[w], key[w], n)
    <3>1. PICK p \in Writing, n \in Nat : WritesPart(w) /\ Becomes(w, p, kind[w], seen[w], key[w], n)
      BY <2>1
    <3>2. Flows(w)
      BY <1>CreateRows, <3>1 DEF CreateRows, Flows, Becomes, HasRows, Writing, Before
    <3>3. QED
      BY <3>1, <3>2, OneFlows
  <2>2. CASE Moves(w, "undoStatus") \/ (written[w] > 0 /\ Moves(w, "undoRows"))
    <3>1. Flows(w)
      BY <1>CreateRows, <2>2 DEF CreateRows, Flows, Moves, Becomes, HasRows, Before
    <3>2. QED
      BY <2>2, <3>1, OneFlows DEF Moves
  <2>3. written[w] \in Nat /\ written[w] + 1 \in Nat
    BY AtWork
  <2>4. QED
    BY <1>CreateRows, CreateRowsDoes, <2>1, <2>2, <2>3 DEF Moves, Writing
<1>SetTotal. ASSUME NEW w \in Runs, SetTotal(w) PROVE \A v \in Runs : Flows(v)
  <2>1. Flows(w)
    BY <1>SetTotal, SetTotalDoes, Writer DEF Flows, Moves, Becomes, HasRows, Before
  <2>2. QED
    BY <1>SetTotal, SetTotalDoes, <2>1, OneFlows DEF Moves
<1>UndoRows. ASSUME NEW w \in Runs, UndoRows(w) PROVE \A v \in Runs : Flows(v)
  <2>1. Flows(w)
    BY <1>UndoRows, UndoRowsDoes DEF Flows, Moves, Becomes, HasRows, Before
  <2>2. QED
    BY <1>UndoRows, UndoRowsDoes, <2>1, OneFlows DEF Moves
<1>UndoStatus. ASSUME NEW w \in Runs, UndoStatus(w) PROVE \A v \in Runs : Flows(v)
  <2>1. Flows(w)
    BY <1>UndoStatus, UndoStatusDoes DEF Flows, Moves, Becomes, HasRows, Before
  <2>2. QED
    BY <1>UndoStatus, UndoStatusDoes, <2>1, OneFlows DEF Moves
<1>Enter. ASSUME NEW w \in Runs, Enter(w) PROVE \A v \in Runs : Flows(v)
  <2>1. Flows(w)
    BY <1>Enter, EnterDoes, AtWork
       DEF Flows, Moves, Becomes, HasRows, Before, Remembers, PlacesOf, Kinds, Snapshot, Writing
  <2>2. QED
    BY <1>Enter, EnterDoes, <2>1, OneFlows DEF Moves
<1>Work. ASSUME NEW w \in Runs, Work(w) PROVE \A v \in Runs : Flows(v)
  BY <1>Work, OneStays DEF Work, runVars
<1>EndWork. ASSUME NEW w \in Runs, EndWork(w) PROVE \A v \in Runs : Flows(v)
  <2>1. Flows(w)
    BY <1>EndWork, EndWorkDoes DEF Flows, Moves, Becomes, HasRows, Before
  <2>2. QED
    BY <1>EndWork, EndWorkDoes, <2>1, OneFlows DEF Moves
<1>Complete. ASSUME NEW w \in Runs, Complete(w) PROVE \A v \in Runs : Flows(v)
  <2>1. Flows(w)
    BY <1>Complete, CompleteDoes DEF Flows, Moves, Becomes, HasRows, Before
  <2>2. QED
    BY <1>Complete, CompleteDoes, <2>1, OneFlows DEF Moves
<1>CloseRows. ASSUME NEW w \in Runs, CloseRows(w) PROVE \A v \in Runs : Flows(v)
  <2>1. Flows(w)
    BY <1>CloseRows, CloseRowsDoes DEF Flows, Moves, Becomes, HasRows, Before
  <2>2. QED
    BY <1>CloseRows, CloseRowsDoes, <2>1, OneFlows DEF Moves
<1>CloseStatus. ASSUME NEW w \in Runs, CloseStatus(w) PROVE \A v \in Runs : Flows(v)
  <2>1. Flows(w)
    BY <1>CloseStatus, CloseStatusDoes DEF Flows, Moves, Becomes, HasRows, Before
  <2>2. QED
    BY <1>CloseStatus, CloseStatusDoes, <2>1, OneFlows DEF Moves
<1>Kill. ASSUME NEW w \in Runs, Kill(w) PROVE \A v \in Runs : Flows(v)
  BY <1>Kill, KillDoes, OneFlowsOut
<1>Fail. ASSUME NEW w \in Runs, Fail(w) PROVE \A v \in Runs : Flows(v)
  <2>1. Flows(w)
    BY <1>Fail, FailDoes DEF Flows, Moves, Becomes, HasRows, Before, Holding
  <2>2. QED
    BY <1>Fail, FailDoes, <2>1, OneFlows DEF Moves
<1>Pause. CASE Pause
  BY <1>Pause, PauseDoes, OneStays
<1>Resume. CASE Resume
  BY <1>Resume, ResumeDoes, OneStays
<1>TimePasses. CASE TimePasses
  BY <1>TimePasses, OneStays DEF TimePasses, runVars
<1>stutter. CASE UNCHANGED vars
  BY <1>stutter, OneStays DEF vars, runVars
<1> QED
  BY <1>PressSend, <1>ListDue, <1>ListSending, <1>ReadForSave, <1>ReadForTotals,
     <1>ReadScheduled, <1>WriteRefusal, <1>VisitListed, <1>PassListed, <1>Save, <1>RefreshTotals,
     <1>Acquire, <1>Release, <1>CheckExpected, <1>StartSnapshot, <1>CreateRows, <1>SetTotal,
     <1>UndoRows, <1>UndoStatus, <1>Enter, <1>Work, <1>EndWork, <1>Complete, <1>CloseRows,
     <1>CloseStatus, <1>Kill, <1>Fail, <1>Pause, <1>Resume, <1>TimePasses, <1>stutter
     DEF Next, Step

-----------------------------------------------------------------------------
(* Who changes the email's key and total, and the rows *)

EmailFlows ==
    /\ \/ email'.key \in {email.key, NoKey}
       \/ \E w \in Runs : StartSnapshot(w)
    /\ \/ email'.ready = email.ready
       \/ \E w \in Runs : StartSnapshot(w) \/ SetTotal(w)
    /\ sends' = sends \/ \E w \in Runs : PressSend(w)

RowsFlow ==
    \/ UNCHANGED <<rows, open, mails>>
    \/ \E w \in Runs : pc[w] = "create" /\ WritesPart(w) /\ UNCHANGED mails
    \/ \E w \in Runs : /\ pc[w] \in {"undoRows", "closeRows"} /\ key[w] \in Keys
                       /\ DeletesPlan(key[w]) /\ UNCHANGED mails
    \/ \E w \in Runs : Work(w)

LEMMA WorldStep ==
    ASSUME TypeOK, LiveInv, [Next]_vars
    PROVE  EmailFlows /\ RowsFlow
<1>PressSend. ASSUME NEW w \in Runs, PressSend(w) PROVE EmailFlows /\ RowsFlow
  BY <1>PressSend, PressSendDoes DEF EmailFlows, RowsFlow, world, Restated
<1>ListDue. ASSUME NEW w \in Runs, ListDue(w) PROVE EmailFlows /\ RowsFlow
  BY <1>ListDue, ListDueDoes DEF EmailFlows, RowsFlow, world, Restated
<1>ListSending. ASSUME NEW w \in Runs, ListSending(w) PROVE EmailFlows /\ RowsFlow
  BY <1>ListSending, ListSendingDoes DEF EmailFlows, RowsFlow, world, Restated
<1>ReadForSave. ASSUME NEW w \in Runs, ReadForSave(w) PROVE EmailFlows /\ RowsFlow
  BY <1>ReadForSave, ReadForSaveDoes DEF EmailFlows, RowsFlow, world, Restated
<1>ReadForTotals. ASSUME NEW w \in Runs, ReadForTotals(w) PROVE EmailFlows /\ RowsFlow
  BY <1>ReadForTotals, ReadForTotalsDoes DEF EmailFlows, RowsFlow, world, Restated
<1>ReadScheduled. ASSUME NEW w \in Runs, ReadScheduled(w) PROVE EmailFlows /\ RowsFlow
  BY <1>ReadScheduled, ReadScheduledDoes DEF EmailFlows, RowsFlow, world, Restated
<1>WriteRefusal. ASSUME NEW w \in Runs, WriteRefusal(w) PROVE EmailFlows /\ RowsFlow
  BY <1>WriteRefusal, WriteRefusalDoes DEF EmailFlows, RowsFlow, world, Restated
<1>VisitListed. ASSUME NEW w \in Runs, VisitListed(w) PROVE EmailFlows /\ RowsFlow
  BY <1>VisitListed, VisitListedDoes DEF EmailFlows, RowsFlow, world, Restated
<1>PassListed. ASSUME NEW w \in Runs, PassListed(w) PROVE EmailFlows /\ RowsFlow
  BY <1>PassListed, PassListedDoes DEF EmailFlows, RowsFlow, world, Restated
<1>Save. ASSUME NEW w \in Runs, Save(w) PROVE EmailFlows /\ RowsFlow
  BY <1>Save, SaveDoes DEF EmailFlows, RowsFlow, world, Restated
<1>RefreshTotals. ASSUME NEW w \in Runs, RefreshTotals(w) PROVE EmailFlows /\ RowsFlow
  BY <1>RefreshTotals, RefreshTotalsDoes DEF EmailFlows, RowsFlow, world, Restated
<1>Acquire. ASSUME NEW w \in Runs, Acquire(w) PROVE EmailFlows /\ RowsFlow
  BY <1>Acquire, AcquireDoes DEF EmailFlows, RowsFlow, world, Restated
<1>Release. ASSUME NEW w \in Runs, Release(w) PROVE EmailFlows /\ RowsFlow
  BY <1>Release, ReleaseDoes DEF EmailFlows, RowsFlow, world, Restated
<1>CheckExpected. ASSUME NEW w \in Runs, CheckExpected(w) PROVE EmailFlows /\ RowsFlow
  BY <1>CheckExpected, CheckExpectedDoes DEF EmailFlows, RowsFlow, world, Restated
<1>StartSnapshot. ASSUME NEW w \in Runs, StartSnapshot(w) PROVE EmailFlows /\ RowsFlow
  BY <1>StartSnapshot, StartSnapshotDoes DEF EmailFlows, RowsFlow, world, Restated
<1>CreateRows. ASSUME NEW w \in Runs, CreateRows(w) PROVE EmailFlows /\ RowsFlow
  BY <1>CreateRows, CreateRowsDoes DEF EmailFlows, RowsFlow
<1>SetTotal. ASSUME NEW w \in Runs, SetTotal(w) PROVE EmailFlows /\ RowsFlow
  BY <1>SetTotal, SetTotalDoes DEF EmailFlows, RowsFlow, world, Restated
<1>UndoRows. ASSUME NEW w \in Runs, UndoRows(w) PROVE EmailFlows /\ RowsFlow
  BY <1>UndoRows, UndoRowsDoes, Writer DEF EmailFlows, RowsFlow, Writing
<1>UndoStatus. ASSUME NEW w \in Runs, UndoStatus(w) PROVE EmailFlows /\ RowsFlow
  BY <1>UndoStatus, UndoStatusDoes DEF EmailFlows, RowsFlow, world, Restated
<1>Enter. ASSUME NEW w \in Runs, Enter(w) PROVE EmailFlows /\ RowsFlow
  BY <1>Enter, EnterDoes DEF EmailFlows, RowsFlow, world, Restated
<1>Work. ASSUME NEW w \in Runs, Work(w) PROVE EmailFlows /\ RowsFlow
  BY <1>Work DEF EmailFlows, RowsFlow, Work
<1>EndWork. ASSUME NEW w \in Runs, EndWork(w) PROVE EmailFlows /\ RowsFlow
  BY <1>EndWork, EndWorkDoes DEF EmailFlows, RowsFlow, world, Restated
<1>Complete. ASSUME NEW w \in Runs, Complete(w) PROVE EmailFlows /\ RowsFlow
  BY <1>Complete, CompleteDoes DEF EmailFlows, RowsFlow, world, Restated
<1>CloseRows. ASSUME NEW w \in Runs, CloseRows(w) PROVE EmailFlows /\ RowsFlow
  BY <1>CloseRows, CloseRowsDoes DEF EmailFlows, RowsFlow
<1>CloseStatus. ASSUME NEW w \in Runs, CloseStatus(w) PROVE EmailFlows /\ RowsFlow
  BY <1>CloseStatus, CloseStatusDoes DEF EmailFlows, RowsFlow, world, Restated
<1>Kill. ASSUME NEW w \in Runs, Kill(w) PROVE EmailFlows /\ RowsFlow
  BY <1>Kill, KillDoes DEF EmailFlows, RowsFlow, world, Restated
<1>Fail. ASSUME NEW w \in Runs, Fail(w) PROVE EmailFlows /\ RowsFlow
  BY <1>Fail, FailDoes DEF EmailFlows, RowsFlow, world, Restated
<1>Pause. CASE Pause
  BY <1>Pause, PauseDoes DEF EmailFlows, RowsFlow, Restated
<1>Resume. CASE Resume
  BY <1>Resume, ResumeDoes DEF EmailFlows, RowsFlow, Restated
<1>TimePasses. CASE TimePasses
  BY <1>TimePasses DEF TimePasses, EmailFlows, RowsFlow, dataVars
<1>stutter. CASE UNCHANGED vars
  BY <1>stutter DEF vars, EmailFlows, RowsFlow, dataVars
<1> QED
  BY <1>PressSend, <1>ListDue, <1>ListSending, <1>ReadForSave, <1>ReadForTotals,
     <1>ReadScheduled, <1>WriteRefusal, <1>VisitListed, <1>PassListed, <1>Save, <1>RefreshTotals,
     <1>Acquire, <1>Release, <1>CheckExpected, <1>StartSnapshot, <1>CreateRows, <1>SetTotal,
     <1>UndoRows, <1>UndoStatus, <1>Enter, <1>Work, <1>EndWork, <1>Complete, <1>CloseRows,
     <1>CloseStatus, <1>Kill, <1>Fail, <1>Pause, <1>Resume, <1>TimePasses, <1>stutter
     DEF Next, Step

\* A run mails from a whole plan, under the email's own key.
LEMMA WorkDoes ==
    ASSUME TypeOK, LiveInv, HolderInv, PlanInv, ReadyInv, NEW w \in Runs, Work(w)
    PROVE  /\ key[w] \in Keys /\ email.key = key[w] /\ email.ready /\ rows[key[w]] = Parts
           /\ UNCHANGED <<email, rows, pc, kind, seen, key, written, sends>>
           /\ \E b \in open[key[w]] :
                 /\ \A k \in Keys, c \in Parts :
                      /\ c \in open'[k] <=> c \in open[k] /\ ~(k = key[w] /\ c = b)
                      /\ \/ mails'[k][c] = mails[k][c]
                         \/ k = key[w] /\ c = b /\ mails'[k][c] = mails[k][c] + 1
           /\ \A k \in Keys \ {key[w]} : mails'[k] = mails[k]
<1>1. pc[w] = "work" /\ UNCHANGED <<email, rows, pc, kind, seen, key, written, sends>>
  BY DEF Work, runVars
<1>2. key[w] \in Keys
  BY <1>1, AtWork DEF Remembers, PlacesOf, Kinds, Serving, Snapshot, Writing
<1>3. email.key = key[w] /\ email.ready
  BY <1>1 DEF HolderInv, Holds
<1>4. PICK b \in open[key[w]] :
         /\ open' = [open EXCEPT ![key[w]] = @ \ {b}]
         /\ mails' = [mails EXCEPT ![key[w]][b] = @ + 1] \/ UNCHANGED mails
  BY DEF Work
<1>5. open[key[w]] \subseteq rows[key[w]] /\ open[key[w]] \subseteq Parts
  BY <1>2 DEF PlanInv, TypeOK
<1>6. rows[key[w]] = Parts
  BY <1>2, <1>3, <1>4, <1>5, KeyAssumption DEF ReadyInv
<1>7. \A k \in Keys, c \in Parts : c \in open'[k] <=> c \in open[k] /\ ~(k = key[w] /\ c = b)
  BY <1>2, <1>4 DEF TypeOK
<1>8. /\ \A k \in Keys, c \in Parts :
            \/ mails'[k][c] = mails[k][c]
            \/ k = key[w] /\ c = b /\ mails'[k][c] = mails[k][c] + 1
      /\ \A k \in Keys \ {key[w]} : mails'[k] = mails[k]
  BY <1>2, <1>4, <1>5 DEF TypeOK
<1>9. QED
  BY <1>1, <1>2, <1>3, <1>6, <1>7, <1>8, <1>4

-----------------------------------------------------------------------------
(* The key of a Send is its own *)

LEMMA PressAlone ==
    ASSUME TypeOK, LiveInv, NEW v \in Runs, PressSend(v)
    PROVE  /\ key'[v] = Manual(sends + 1) /\ Manual(sends + 1) \in ManualKeys
           /\ \A w \in Runs \ {v} : ~PressSend(w)
<1>1. pc[v] = "off" /\ pc'[v] = "acquire" /\ key'[v] = Manual(sends + 1)
      /\ Manual(sends + 1) \in ManualKeys
  BY PressSendDoes, KeysTyped DEF Becomes
<1>2. ASSUME NEW w \in Runs, w # v, PressSend(w)
      PROVE  FALSE
  BY <1>1, <1>2, PressSendDoes DEF Becomes
<1>3. QED
  BY <1>1, <1>2

\* A key spreads only from whoever works under it, or from the email.
LEMMA Spread ==
    ASSUME TypeOK, LiveInv, HolderInv, PlanInv, ReadyInv, [Next]_vars,
           NEW m \in ManualKeys, NEW w, Untouched(m, w), ~(w \in Runs /\ StartSnapshot(w)),
           \A v \in Runs \ {w} : PressSend(v) => m # Manual(sends + 1)
    PROVE  Untouched(m, w)'
<1>1. m # NoKey /\ m \in Keys /\ m \notin ScheduledKeys
  BY KeysTyped
<1>2. Unmailed(m)'
  <2>1. mails'[m] = mails[m]
    BY WorldStep, WorkDoes, <1>1 DEF RowsFlow, Untouched
  <2>2. QED
    BY <2>1 DEF Untouched, Unmailed
<1>3. email'.key # m
  <2>1. ASSUME NEW v \in Runs, StartSnapshot(v)
        PROVE  email'.key # m
    BY <2>1, StartSnapshotDoes DEF Untouched
  <2>2. QED
    BY <1>1, <2>1, WorldStep DEF EmailFlows, Untouched
<1>4. ASSUME NEW v \in Runs
      PROVE  seen'[v].key # m /\ (v # w => key'[v] # m)
  BY <1>1, FlowStep DEF Flows, Untouched
<1>5. QED
  BY <1>2, <1>3, <1>4 DEF Untouched

LEMMA PressStep ==
    ASSUME TypeOK, LiveInv, HolderInv, PlanInv, ReadyInv, PressInv, [Next]_vars
    PROVE  PressInv'
<1>1. ASSUME NEW i \in 1 .. MaxSends, i > sends'
      PROVE  Untouched(Manual(i), NoRun)'
  <2>1. i > sends /\ (i = sends + 1 => \A v \in Runs : ~PressSend(v))
    BY <1>1, WorldStep, PressSendDoes DEF EmailFlows, TypeOK
  <2>2. Untouched(Manual(i), NoRun) /\ Manual(i) \in ManualKeys
    BY <2>1, KeysTyped DEF PressInv
  <2>3. ASSUME NEW v \in Runs, PressSend(v)
        PROVE  Manual(i) # Manual(sends + 1)
    BY <2>1, <2>3, PressSendDoes, KeysTyped
  <2>4. QED
    BY <2>2, <2>3, Spread, SendsAssumption
<1>2. ASSUME NEW w \in Runs, kind'[w] = "send", pc'[w] \in Before,
             NEW m \in ManualKeys, m = key'[w]
      PROVE  Untouched(m, w)'
  <2>1. ~StartSnapshot(w)
    BY <1>2, StartSnapshotDoes DEF Moves, Becomes, Before
  <2>2. CASE PressSend(w)
    <3>1. m = Manual(sends + 1) /\ \A v \in Runs \ {w} : ~PressSend(v)
      BY <1>2, <2>2, PressAlone
    <3>2. sends + 1 \in 1 .. MaxSends /\ sends + 1 > sends
      BY <2>2, PressSendDoes DEF TypeOK
    <3>3. Untouched(m, w)
      BY <3>1, <3>2, SendsAssumption DEF PressInv, Untouched
    <3>4. QED
      BY <2>1, <3>1, <3>3, Spread
  <2>3. CASE kind[w] = "send" /\ key'[w] = key[w] /\ pc[w] \in Before
    <3>1. Untouched(m, w)
      BY <1>2, <2>3 DEF PressInv
    <3>2. ASSUME NEW v \in Runs, PressSend(v)
          PROVE  m # Manual(sends + 1)
      <4>1. sends + 1 \in 1 .. MaxSends /\ sends + 1 > sends
        BY <3>2, PressSendDoes DEF TypeOK
      <4>2. key[w] # Manual(sends + 1)
        BY <4>1, SendsAssumption DEF PressInv, Untouched
      <4>3. QED
        BY <1>2, <2>3, <4>2
    <3>3. QED
      BY <2>1, <3>1, <3>2, Spread
  <2>4. QED
    BY <1>2, <2>2, <2>3, FlowStep DEF Flows
<1>3. ASSUME NEW w \in Runs, kind'[w] = "send", pc'[w] \in Before
      PROVE  Untouched(key[w], w)'
  <2>1. TypeOK' /\ LiveInv'
    BY TypeStep
  <2>2. PICK m \in ManualKeys : m = key'[w]
    BY <1>3, <2>1 DEF LiveInv, Remembers
  <2>3. Untouched(m, w)'
    BY <1>2, <1>3, <2>2
  <2>4. QED
    BY <2>2, <2>3 DEF Untouched, Unmailed
<1>4. QED
  BY <1>1, <1>3 DEF PressInv

-----------------------------------------------------------------------------
(* A Send that is closed never becomes whole *)

\* m is not the key of the next Send.
LEMMA NextKeyIsNew ==
    ASSUME TypeOK, LiveInv, PressInv, NEW v \in Runs, PressSend(v)
    PROVE  Untouched(Manual(sends + 1), NoRun)
<1>1. sends + 1 \in 1 .. MaxSends /\ sends + 1 > sends
  BY PressSendDoes DEF TypeOK
<1>2. QED
  BY <1>1 DEF PressInv

LEMMA ClosedKept ==
    ASSUME TypeOK, LiveInv, HolderInv, PlanInv, ReadyInv, [Next]_vars,
           NEW m \in ManualKeys, Closed(m),
           \A v \in Runs : PressSend(v) => m # Manual(sends + 1)
    PROVE  Closed(m)'
<1>1. m # NoKey /\ m \in Keys /\ m \notin ScheduledKeys
  BY KeysTyped
<1>2. Unmailed(m)'
  <2>1. mails'[m] = mails[m]
    BY WorldStep, WorkDoes, <1>1 DEF RowsFlow, Closed
  <2>2. QED
    BY <2>1 DEF Closed, Unmailed
<1>3. ASSUME email'.key = m, email'.ready
      PROVE  FALSE
  <2>1. \A v \in Runs : ~StartSnapshot(v)
    BY <1>3, StartSnapshotDoes
  <2>2. email.key = m
    BY <1>1, <1>3, <2>1, WorldStep DEF EmailFlows
  <2>3. PICK v \in Runs : SetTotal(v)
    BY <1>3, <2>1, <2>2, WorldStep DEF EmailFlows, Closed
  <2>4. pc[v] = "total" /\ key[v] = m
    BY <2>2, <2>3 DEF SetTotal, HolderInv, Holds, Writing
  <2>5. kind[v] = "send"
    BY <1>1, <2>4, Writer DEF Writing
  <2>6. QED
    BY <2>4, <2>5 DEF Closed
<1>4. ASSUME NEW v \in Runs, kind'[v] = "send"
      PROVE  key'[v] # m
  BY <1>4, FlowStep, PressAlone DEF Flows, Closed
<1>5. QED
  BY <1>2, <1>3, <1>4 DEF Closed

LEMMA UnreadyStep ==
    ASSUME TypeOK, LiveInv, HolderInv, PlanInv, ReadyInv, PressInv, UnreadyInv, [Next]_vars
    PROVE  UnreadyInv'
<1>1. ASSUME email'.key \in ManualKeys, ~email'.ready
      PROVE  Unmailed(email.key)'
  <2>1. CASE \E v \in Runs : StartSnapshot(v)
    <3>1. PICK v \in Runs : StartSnapshot(v)
      BY <2>1
    <3>2. pc[v] = "first" /\ email'.key = key[v] /\ UNCHANGED mails
      BY <3>1, StartSnapshotDoes
    <3>3. kind[v] = "send"
      BY <1>1, <3>2, AtWork, KeysTyped DEF Remembers, PlacesOf, Kinds
    <3>4. Unmailed(key[v])
      BY <3>2, <3>3 DEF PressInv, Before, Untouched
    <3>5. QED
      BY <3>2, <3>4 DEF Unmailed
  <2>2. CASE \A v \in Runs : ~StartSnapshot(v)
    <3>1. email'.key = email.key
      BY <1>1, <2>2, WorldStep, KeysTyped DEF EmailFlows
    <3>2. ~email.ready
      BY <1>1, <2>2, WorldStep, SetTotalDoes DEF EmailFlows
    <3>3. UNCHANGED mails
      BY <3>2, WorldStep, WorkDoes DEF RowsFlow
    <3>4. QED
      BY <1>1, <3>1, <3>2, <3>3 DEF UnreadyInv, Unmailed
  <2>3. QED
    BY <2>1, <2>2
<1>2. ASSUME NEW w \in Runs, kind'[w] = "close", NEW m \in ManualKeys, m = seen'[w].key
      PROVE  Closed(m)'
  <2>1. CASE kind[w] = "close" /\ seen'[w] = seen[w]
    <3>1. Closed(m)
      BY <1>2, <2>1 DEF UnreadyInv
    <3>2. \A v \in Runs : PressSend(v) => m # Manual(sends + 1)
      BY <1>2, <2>1, NextKeyIsNew DEF Untouched
    <3>3. QED
      BY <3>1, <3>2, ClosedKept
  <2>2. CASE ListSending(w) /\ PreparingDied(email) /\ seen'[w] = email
    <3>1. m = email.key /\ ~email.ready
      BY <1>2, <2>2 DEF PreparingDied
    <3>2. \A v \in Runs : kind[v] # "send"
      <4>1. \A v \in Runs : pc[v] = "off" => kind[v] # "send"
        BY AtWork DEF Remembers, PlacesOf, Kinds, Snapshot, Writing
      <4>2. QED
        BY <2>2, <4>1 DEF PreparingDied
    <3>3. Closed(m)
      BY <3>1, <3>2 DEF UnreadyInv, Closed
    <3>4. \A v \in Runs : PressSend(v) => m # Manual(sends + 1)
      BY <3>1, NextKeyIsNew DEF Untouched
    <3>5. QED
      BY <3>3, <3>4, ClosedKept
  <2>3. QED
    BY <1>2, <2>1, <2>2, FlowStep DEF Flows
<1>3. ASSUME NEW w \in Runs, kind'[w] = "close", seen'[w].key \in ManualKeys
      PROVE  Closed(seen[w].key)'
  <2>1. PICK m \in ManualKeys : m = seen'[w].key
    BY <1>3
  <2>2. Closed(m)'
    BY <1>2, <1>3, <2>1
  <2>3. QED
    BY <2>1, <2>2 DEF Closed, Unmailed
<1>4. QED
  BY <1>1, <1>3 DEF UnreadyInv

-----------------------------------------------------------------------------
(* Mail, and rows that are deleted *)

\* The part that is being written was not mailed before, under whatever send.
LEMMA WriterUnmailed ==
    ASSUME TypeOK, LiveInv, PlanInv, GoneInv, DeleterInv,
           NEW w \in Runs, pc[w] = "create", WritesPart(w)
    PROVE  Unmailed(key[w])
<1>1. CASE written[w] > 0
  BY <1>1 DEF DeleterInv, HasRows
<1>2. CASE written[w] = 0
  <2>1. key[w] \in Keys /\ rows[key[w]] = {}
    BY <1>2, WrittenPart
  <2>2. ASSUME NEW b \in Parts, mails[key[w]][b] > 0
        PROVE  FALSE
    <3>1. Terminal /\ key[w] \notin ManualKeys
      BY <2>1, <2>2 DEF GoneInv
    <3>2. kind[w] = "enqueue"
      BY <3>1, Writer DEF Writing
    <3>3. QED
      BY <3>1, <3>2 DEF Terminal, NeverAgain
  <2>3. \A b \in Parts : mails[key[w]][b] \in Nat
    BY <2>1 DEF TypeOK
  <2>4. QED
    BY <2>2, <2>3 DEF Unmailed
<1>3. QED
  BY <1>1, <1>2, Writer DEF Writing

LEMMA QueuedStep ==
    ASSUME TypeOK, LiveInv, HolderInv, PlanInv, ReadyInv, QueuedInv, GoneInv, DeleterInv, [Next]_vars
    PROVE  QueuedInv'
<1>1. CASE UNCHANGED <<rows, open, mails>>
  BY <1>1 DEF QueuedInv
<1>2. ASSUME NEW w \in Runs, pc[w] = "create", WritesPart(w), UNCHANGED mails
      PROVE  QueuedInv'
  BY <1>2, WrittenPart, WriterUnmailed DEF QueuedInv, Unmailed
<1>3. ASSUME NEW w \in Runs, key[w] \in Keys, DeletesPlan(key[w]), UNCHANGED mails
      PROVE  QueuedInv'
  BY <1>3, DeletedPlan DEF QueuedInv
<1>4. ASSUME NEW w \in Runs, Work(w)
      PROVE  QueuedInv'
  BY <1>4, WorkDoes DEF QueuedInv, TypeOK
<1>5. QED
  BY <1>1, <1>2, <1>3, <1>4, WorldStep DEF RowsFlow

LEMMA GoneStep ==
    ASSUME TypeOK, LiveInv, HolderInv, PlanInv, ReadyInv, GoneInv, DeleterInv, UnreadyInv,
           [Next]_vars
    PROVE  GoneInv'
<1> SUFFICES ASSUME NEW k \in Keys, NEW b \in Parts, mails'[k][b] > 0, b \notin rows'[k]
             PROVE  Terminal' /\ k \notin ManualKeys
  BY DEF GoneInv
<1>1. CASE mails[k][b] > 0 /\ b \notin rows[k]
  BY <1>1, TerminalStep DEF GoneInv
<1>2. ASSUME NEW w \in Runs, pc[w] = "create", WritesPart(w), UNCHANGED mails
      PROVE  mails[k][b] > 0 /\ b \notin rows[k]
  <2>1. rows[k] \subseteq rows'[k]
    BY <1>2, WrittenPart, AtWork DEF Parts
  <2>2. QED
    BY <1>2, <2>1
<1>3. ASSUME NEW w \in Runs, pc[w] \in {"undoRows", "closeRows"}, key[w] \in Keys,
             DeletesPlan(key[w]), UNCHANGED mails, b \in rows[k]
      PROVE  Terminal' /\ k \notin ManualKeys
  <2>1. k = key[w] /\ ~Unmailed(k)
    BY <1>3, DeletedPlan DEF Unmailed
  <2>2. pc[w] = "closeRows"
    BY <1>3, <2>1 DEF DeleterInv, HasRows
  <2>3. kind[w] = "close" /\ seen[w].key = k
    BY <2>1, <2>2, AtWork DEF Remembers, PlacesOf, Kinds, Snapshot, Writing
  <2>4. QED
    BY <2>1, <2>3, TerminalStep DEF DeleterInv, UnreadyInv, Closed
<1>4. ASSUME NEW w \in Runs, Work(w)
      PROVE  mails[k][b] > 0 /\ b \notin rows[k]
  BY <1>4, WorkDoes
<1>5. QED
  BY <1>1, <1>2, <1>3, <1>4, WorldStep DEF RowsFlow

LEMMA DeleterStep ==
    ASSUME TypeOK, LiveInv, HolderInv, PlanInv, ReadyInv, GoneInv, DeleterInv, [Next]_vars
    PROVE  DeleterInv'
<1>1. ASSUME NEW w \in Runs, HasRows(w)'
      PROVE  Unmailed(key[w])'
  <2>1. key'[w] = key[w] /\ Unmailed(key[w])
        /\ pc[w] \in {"create", "total", "undoRows"}
    <3>1. key'[w] = key[w] /\ (HasRows(w) \/ (pc[w] = "create" /\ WritesPart(w)))
      BY <1>1, FlowStep DEF Flows
    <3>2. Unmailed(key[w])
      BY <3>1, WriterUnmailed DEF DeleterInv
    <3>3. QED
      BY <3>1, <3>2 DEF HasRows
  <2>2. \A v \in Runs : ~Work(v)
    BY <2>1, OneHolder DEF Work, Holding
  <2>3. UNCHANGED mails
    BY <2>2, WorldStep DEF RowsFlow
  <2>4. QED
    BY <2>1, <2>3 DEF Unmailed
<1>2. ASSUME NEW w \in Runs, kind'[w] = "close"
      PROVE  Terminal'
  BY <1>2, FlowStep, ClosingOver, TerminalStep DEF Flows, DeleterInv
<1>3. QED
  BY <1>1, <1>2 DEF DeleterInv

-----------------------------------------------------------------------------
(* The theorems *)

LEMMA InvInit == Init => SendsInv
<1> SUFFICES ASSUME Init PROVE SendsInv
  OBVIOUS
<1>1. email \in Emails /\ email.status \in {"draft", "scheduled"} /\ email.key = NoKey /\ ~email.ready
  <2>1. Restated(NewEmail, [NewEmail EXCEPT !.status = "scheduled"], "scheduled")
    BY NewEmailIs, StatusChanged DEF Statuses
  <2>2. QED
    BY <2>1, NewEmailIs DEF Init, Restated
<1>2. TypeOK
  BY <1>1, NewEmailIs, SendsAssumption DEF Init, TypeOK, Places, Kinds
<1>3. LiveInv
  BY DEF Init, LiveInv, Remembers, PlacesOf, Kinds, Serving, Writing
<1>4. HolderInv
  BY DEF Init, HolderInv, Holds, Holding, Writing
<1>5. PlanInv /\ ReadyInv
  BY <1>1, EmptyPrefix DEF Init, PlanInv, ReadyInv
<1>6. QueuedInv /\ GoneInv /\ DeleterInv
  BY DEF Init, QueuedInv, GoneInv, DeleterInv, HasRows
<1>7. PressInv
  BY <1>1, NewEmailIs, KeysTyped DEF Init, PressInv, Untouched, Unmailed
<1>8. UnreadyInv
  BY <1>1, KeysTyped DEF Init, UnreadyInv
<1>9. QED
  BY <1>2, <1>3, <1>4, <1>5, <1>6, <1>7, <1>8 DEF SendsInv

LEMMA InvStep == SendsInv /\ [Next]_vars => SendsInv'
  BY TypeStep, HolderStep, PlanStep, QueuedStep, GoneStep, DeleterStep, PressStep, UnreadyStep
     DEF SendsInv

\* The inductive invariant: every part of it is needed by another.
THEOREM SendsInvariant == Spec => []SendsInv
  BY InvInit, InvStep, PTL DEF Spec

\* Whatever functions run on the email, its row and its plans stay of their types.
THEOREM SendsTyped == Spec => []TypeOK
<1>1. SendsInv => TypeOK
  BY DEF SendsInv
<1>2. QED
  BY <1>1, SendsInvariant, PTL

\* However many functions are called, killed or fail, and in whatever order they
\* read and write: no part of an occurrence is mailed twice.
THEOREM OncePerOccurrence == Spec => []OccurrenceOnce
<1>1. SendsInv => OccurrenceOnce
  BY DEF SendsInv, QueuedInv, OccurrenceOnce
<1>2. QED
  BY <1>1, SendsInvariant, PTL

\* No mail leaves before the occurrence's plan is whole, also not after its writer died.
THEOREM OnlyWholePlans == Spec => WholePlanOnly
<1>1. ASSUME SendsInv, [Next]_vars, NEW k \in Keys, mails'[k] # mails[k]
      PROVE  rows[k] = Parts
  <2>1. PICK w \in Runs : Work(w)
    BY <1>1, WorldStep DEF RowsFlow, SendsInv
  <2>2. QED
    BY <1>1, <2>1, WorkDoes DEF SendsInv
<1>2. SendsInv /\ [Next]_vars => [\A k \in Keys : mails'[k] # mails[k] => rows[k] = Parts]_vars
  BY <1>1
<1>3. QED
  BY <1>2, SendsInvariant, PTL DEF Spec, WholePlanOnly

\* The rows of a Send are deleted only if nobody was mailed from them: what the
\* comment at email-send-queue.ts:707-711 says of every send is true of these.
UndoneSendsUnmailed == [][\A k \in ManualKeys : ~(rows[k] \subseteq rows'[k]) => ~AnyMailed(k)]_vars

THEOREM SendsDeletedUnmailed == Spec => UndoneSendsUnmailed
<1>1. ASSUME SendsInv, [Next]_vars, NEW k \in ManualKeys, ~(rows[k] \subseteq rows'[k])
      PROVE  ~AnyMailed(k)
  <2>1. k \in Keys /\ k \notin ScheduledKeys
    BY KeysTyped
  <2>2. ASSUME NEW w \in Runs, pc[w] = "create", WritesPart(w)
        PROVE  rows[k] \subseteq rows'[k]
    BY <1>1, <2>1, <2>2, WrittenPart, AtWork DEF SendsInv, Parts
  <2>3. PICK w \in Runs : /\ pc[w] \in {"undoRows", "closeRows"} /\ key[w] \in Keys
                          /\ DeletesPlan(key[w])
    BY <1>1, <2>2, WorldStep, WorkDoes DEF SendsInv, RowsFlow
  <2>4. k = key[w]
    BY <1>1, <2>1, <2>3, DeletedPlan DEF SendsInv
  <2>5. CASE pc[w] = "undoRows"
    BY <1>1, <2>4, <2>5 DEF SendsInv, DeleterInv, HasRows, Unmailed, AnyMailed
  <2>6. CASE pc[w] = "closeRows"
    <3>1. kind[w] = "close" /\ seen[w].key = k
      BY <1>1, <2>4, <2>6, AtWork DEF SendsInv, Remembers, PlacesOf, Kinds, Snapshot, Writing
    <3>2. QED
      BY <1>1, <3>1 DEF SendsInv, UnreadyInv, Closed, Unmailed, AnyMailed
  <2>7. QED
    BY <2>3, <2>5, <2>6
<1>2. SendsInv /\ [Next]_vars
      => [\A k \in ManualKeys : ~(rows[k] \subseteq rows'[k]) => ~AnyMailed(k)]_vars
  BY <1>1
<1>3. QED
  BY <1>2, SendsInvariant, PTL DEF Spec, UndoneSendsUnmailed

-----------------------------------------------------------------------------
(* The totals of a finished send *)

NothingOpen == \A r \in Recipients : row[r] \notin {"queued", "claimed"}
Owing(v) == call[v].owes
OthersOwe(v) == \E w \in Calls : w # v /\ Owing(w)

\* Only one works under the lease, on a send that is not over; who completes has seen
\* that nothing is open, and so has whoever finished it.
PlaceInv ==
    /\ \A v, w \in Calls : call[v].at \in Leased /\ call[w].at \in Leased => v = w
    /\ \A v \in Calls : call[v].at \in Working => state = "sending"
    /\ \A v \in Calls : call[v].at \in {"acquire", "complete"} => NothingOpen
    /\ state \in Finished => NothingOpen
    /\ \A v \in Calls : call[v].seen \in Finished => state \in Finished
    /\ \A v \in Calls : Owing(v) => call[v].at \in {"promote", "events", "recount", "refresh"}
    /\ \A v \in Calls : call[v].at \in {"recount", "refresh"} => Owing(v)

\* What was counted still stands, or somebody else has yet to refresh it; and a finished
\* send shows what stands.
CountInv == ~met /\ ~cut =>
    /\ \A v \in Calls : call[v].at \in {"acquire", "complete"} =>
          call[v].counted = Counts \/ OthersOwe(v)
    /\ state \in Finished =>
          /\ \A v \in Calls : call[v].at = "refresh" => call[v].counted = Counts \/ OthersOwe(v)
          /\ \A v \in Calls : call[v].at \in {"recount", "refresh"} => call[v].seen = state
          /\ \/ shown = Shows(Counts) /\ state = StatusFor(Counts)
             \/ \E w \in Calls : Owing(w)

TotalsInv == TotalsTypeOK /\ PlaceInv /\ CountInv

LEMMA CountsTyped == Counts \in CountsOf
<1>1. ASSUME NEW s \in RowStates
      PROVE  Cardinality({r \in Recipients : row[r] = s}) \in 0 .. Cardinality(Recipients)
  <2>1. {r \in Recipients : row[r] = s} \subseteq Recipients
    OBVIOUS
  <2>2. /\ IsFiniteSet({r \in Recipients : row[r] = s})
        /\ Cardinality({r \in Recipients : row[r] = s}) <= Cardinality(Recipients)
    BY <2>1, TotalsConstants, FS_Subset
  <2> QED
    BY <2>2, TotalsConstants, FS_CardinalityType
<1> QED
  BY <1>1 DEF Counts, CountsOf

LEMMA LeftIsOpen == NothingLeft(Counts) <=> NothingOpen
<1> DEFINE In(s) == {r \in Recipients : row[r] = s}
<1>1. ASSUME NEW s \in RowStates
      PROVE  Cardinality(In(s)) \in Nat /\ (Cardinality(In(s)) = 0 <=> In(s) = {})
  <2>1. IsFiniteSet(In(s))
    BY TotalsConstants, FS_Subset
  <2> QED
    BY <2>1, FS_CardinalityType, FS_EmptySet
<1>2. NothingLeft(Counts) <=> Cardinality(In("queued")) + Cardinality(In("claimed")) = 0
  BY DEF NothingLeft, Counts, RowStates
<1>3. NothingOpen <=> In("queued") = {} /\ In("claimed") = {}
  BY DEF NothingOpen
<1>4. "queued" \in RowStates /\ "claimed" \in RowStates
  BY DEF RowStates
<1> HIDE DEF In
<1> QED
  BY <1>1, <1>2, <1>3, <1>4

LEMMA ShowsTyped ==
    ASSUME NEW c \in CountsOf
    PROVE  Shows(c) \in [Totals -> 0 .. Cardinality(Recipients)] /\ StatusFor(c) \in Finished
BY DEF CountsOf, Shows, Totals, RowStates, StatusFor, Finished

LEMMA UnusedTyped == Unused \in Invocations
<1>1. 0 \in 0 .. Cardinality(Recipients)
  BY TotalsConstants, FS_CardinalityType
<1> QED
  BY <1>1 DEF Unused, Invocations, NoCounts, CountsOf, CallPlaces, Leased, Working

\* What becomes of the invocation that moves, and that the others stay.
Rest(v) == \A w \in Calls \ {v} : call'[w] = call[w]

LEMMA GoesDoes ==
    ASSUME TotalsTypeOK, NEW v \in Calls, NEW at \in CallPlaces, Goes(v, at)
    PROVE  /\ call' \in [Calls -> Invocations] /\ Rest(v)
           /\ call'[v].at = at /\ call'[v].seen = call[v].seen /\ call'[v].counted = call[v].counted
           /\ call'[v].owes = call[v].owes /\ call'[v].hand = call[v].hand
<1>1. call'[v] = [call[v] EXCEPT !.at = at] /\ Rest(v) /\ call' = [w \in Calls |-> call'[w]]
  BY DEF Goes, TotalsTypeOK, Rest
<1>2. call[v] \in Invocations
  BY DEF TotalsTypeOK
<1> QED
  BY <1>1, <1>2 DEF Invocations, TotalsTypeOK, Rest

LEMMA EndsDoes ==
    ASSUME TotalsTypeOK, NEW v \in Calls, Leaves(v)
    PROVE  /\ call' \in [Calls -> Invocations] /\ Rest(v) /\ call'[v] = Unused
           /\ Unused.at = "idle" /\ Unused.seen = "sending" /\ Unused.owes = FALSE
BY UnusedTyped DEF Leaves, TotalsTypeOK, Rest, Unused

LEMMA CountsIntoDoes ==
    ASSUME TotalsTypeOK, NEW v \in Calls, NEW at \in CallPlaces, CountsInto(v, at)
    PROVE  /\ call' \in [Calls -> Invocations] /\ Rest(v)
           /\ call'[v].at = at /\ call'[v].seen = call[v].seen /\ call'[v].counted = Counts
           /\ call'[v].owes = call[v].owes
<1>1. /\ call'[v] = [[call[v] EXCEPT !.at = at] EXCEPT !.counted = Counts]
      /\ Rest(v) /\ call' = [w \in Calls |-> call'[w]]
  BY DEF CountsInto, TotalsTypeOK, Rest
<1>2. call[v] \in Invocations
  BY DEF TotalsTypeOK
<1> DEFINE moved == [call[v] EXCEPT !.at = at]
<1>3. moved \in Invocations /\ moved.at = at /\ moved.seen = call[v].seen /\ moved.owes = call[v].owes
  BY <1>2 DEF Invocations
<1>4. call'[v] = [moved EXCEPT !.counted = Counts]
  BY <1>1
<1> HIDE DEF moved
<1>5. /\ call'[v] \in Invocations
      /\ call'[v].at = at /\ call'[v].seen = call[v].seen /\ call'[v].counted = Counts
      /\ call'[v].owes = call[v].owes
  BY <1>3, <1>4, CountsTyped DEF Invocations
<1> QED
  BY <1>1, <1>5 DEF TotalsTypeOK, Rest

LEMMA HandDoes ==
    ASSUME TotalsTypeOK, NEW v \in Calls, NEW at \in CallPlaces, NEW S \in SUBSET Recipients,
           call' = [call EXCEPT ![v].at = at, ![v].hand = S]
    PROVE  /\ call' \in [Calls -> Invocations] /\ Rest(v)
           /\ call'[v].at = at /\ call'[v].seen = call[v].seen /\ call'[v].counted = call[v].counted
           /\ call'[v].owes = call[v].owes
<1>1. /\ call'[v] = [[call[v] EXCEPT !.at = at] EXCEPT !.hand = S]
      /\ Rest(v) /\ call' = [w \in Calls |-> call'[w]]
  BY DEF TotalsTypeOK, Rest
<1>2. call[v] \in Invocations
  BY DEF TotalsTypeOK
<1> DEFINE moved == [call[v] EXCEPT !.at = at]
<1>3. /\ moved \in Invocations /\ moved.at = at /\ moved.seen = call[v].seen
      /\ moved.counted = call[v].counted /\ moved.owes = call[v].owes
  BY <1>2 DEF Invocations
<1>4. call'[v] = [moved EXCEPT !.hand = S]
  BY <1>1
<1> HIDE DEF moved
<1>5. /\ call'[v] \in Invocations
      /\ call'[v].at = at /\ call'[v].seen = call[v].seen /\ call'[v].counted = call[v].counted
      /\ call'[v].owes = call[v].owes
  BY <1>3, <1>4 DEF Invocations
<1> QED
  BY <1>1, <1>5 DEF TotalsTypeOK, Rest

\* Where a step may take an invocation.
LEMMA PlaceKeeps ==
    ASSUME TotalsTypeOK, PlaceInv, NEW v \in Calls, call' \in [Calls -> Invocations], Rest(v),
           NothingOpen => NothingOpen',
           state \in Finished => state' \in Finished,
           state' \in Finished => NothingOpen',
           \A w \in Calls \ {v} : call[w].at \in Working => state' = "sending",
           call'[v].at \in Leased => call[v].at \in Leased \/ Unleased,
           call'[v].at \in Working => state' = "sending",
           call'[v].at \in {"acquire", "complete"} => NothingOpen',
           call'[v].seen \in Finished => state' \in Finished,
           Owing(v)' => call'[v].at \in {"promote", "events", "recount", "refresh"},
           call'[v].at \in {"recount", "refresh"} => Owing(v)'
    PROVE  PlaceInv'
<1>1. \A w \in Calls \ {v} : Owing(w)' <=> Owing(w)
  BY DEF Owing, Rest
<1>2. \A u, w \in Calls : call'[u].at \in Leased /\ call'[w].at \in Leased => u = w
  BY DEF PlaceInv, Unleased, Rest
<1>3. /\ \A w \in Calls : call'[w].at \in Working => state' = "sending"
      /\ \A w \in Calls : call'[w].at \in {"acquire", "complete"} => NothingOpen'
      /\ \A w \in Calls : call'[w].seen \in Finished => state' \in Finished
  BY DEF PlaceInv, Rest
<1>4. /\ \A w \in Calls : Owing(w)' => call'[w].at \in {"promote", "events", "recount", "refresh"}
      /\ \A w \in Calls : call'[w].at \in {"recount", "refresh"} => Owing(w)'
  BY <1>1 DEF PlaceInv, Rest
<1> QED
  BY <1>2, <1>3, <1>4 DEF PlaceInv

\* A step that only moves one invocation, if it moves to where the invariant lets it be.
LEMMA QuietKeeps ==
    ASSUME TotalsInv, NEW v \in Calls, UNCHANGED <<state, shown, row, met, cut>>,
           call' \in [Calls -> Invocations], Rest(v),
           call'[v].at \in Leased => call[v].at \in Leased \/ Unleased,
           call'[v].at \in Working => state = "sending",
           call'[v].at \in {"acquire", "complete"} =>
               /\ NothingOpen
               /\ \/ call'[v].counted = Counts
                  \/ call[v].at \in {"acquire", "complete"} /\ call'[v].counted = call[v].counted,
           call'[v].seen \in Finished => state \in Finished,
           Owing(v)' <=> Owing(v),
           Owing(v) => call'[v].at \in {"promote", "events", "recount", "refresh"},
           call'[v].at \in {"recount", "refresh"} => Owing(v),
           call'[v].at = "refresh" => call'[v].counted = Counts,
           call'[v].at \in {"recount", "refresh"} =>
               call'[v].seen = state \/ (call[v].at = "recount" /\ call'[v].seen = call[v].seen)
    PROVE  TotalsInv'
<1>1. Counts' = Counts /\ (NothingOpen' <=> NothingOpen)
  BY DEF Counts, NothingOpen
<1>2. \A w \in Calls : Owing(w)' <=> Owing(w)
  BY DEF Owing, Rest
<1>3. \A w \in Calls : OthersOwe(w)' <=> OthersOwe(w)
  BY <1>2 DEF OthersOwe
<1>4. TotalsTypeOK'
  BY DEF TotalsInv, TotalsTypeOK
<1>5. PlaceInv'
  <2>1. \A w \in Calls \ {v} : call[w].at \in Working => state' = "sending"
    BY DEF TotalsInv, PlaceInv
  <2>2. state' \in Finished => NothingOpen'
    BY <1>1 DEF TotalsInv, PlaceInv
  <2> QED
    BY <1>1, <2>1, <2>2, PlaceKeeps DEF TotalsInv
<1>6. CountInv'
  <2> SUFFICES ASSUME ~met, ~cut PROVE
        /\ \A w \in Calls : call'[w].at \in {"acquire", "complete"} =>
              call'[w].counted = Counts \/ OthersOwe(w)
        /\ state \in Finished =>
              /\ \A w \in Calls : call'[w].at = "refresh" => call'[w].counted = Counts \/ OthersOwe(w)
              /\ \A w \in Calls : call'[w].at \in {"recount", "refresh"} => call'[w].seen = state
              /\ \/ shown = Shows(Counts) /\ state = StatusFor(Counts)
                 \/ \E w \in Calls : Owing(w)
    BY <1>1, <1>2, <1>3 DEF CountInv
  <2>1. \A w \in Calls : call'[w].at \in {"acquire", "complete"} =>
            call'[w].counted = Counts \/ OthersOwe(w)
    BY DEF TotalsInv, CountInv, Rest
  <2>2. state \in Finished =>
            /\ \A w \in Calls : call'[w].at = "refresh" => call'[w].counted = Counts \/ OthersOwe(w)
            /\ \A w \in Calls : call'[w].at \in {"recount", "refresh"} => call'[w].seen = state
    BY DEF TotalsInv, CountInv, Rest
  <2> QED
    BY <2>1, <2>2 DEF TotalsInv, CountInv
<1> QED
  BY <1>4, <1>5, <1>6 DEF TotalsInv

\* A step of the run: the send is not over, and where nothing is open there is nothing
\* to change.
LEMMA WorkKeeps ==
    ASSUME TotalsInv, NEW v \in Calls, call[v].at \in Working,
           UNCHANGED <<state, met, cut>>,
           shown' \in [Totals -> 0 .. Cardinality(Recipients)],
           row' \in [Recipients -> RowStates], NothingOpen => row' = row,
           call' \in [Calls -> Invocations], Rest(v),
           call'[v].at \in Working \cup {"idle"},
           call'[v].seen \in {call[v].seen, "sending"}, ~call'[v].owes
    PROVE  TotalsInv'
<1>1. state = "sending" /\ state \notin Finished /\ "sending" \notin Finished
  BY DEF TotalsInv, PlaceInv, Finished
<1>2. TotalsTypeOK'
  BY DEF TotalsInv, TotalsTypeOK
<1>3. NothingOpen => NothingOpen' /\ Counts' = Counts
  BY DEF NothingOpen, Counts
<1>4. call'[v].at \notin {"acquire", "complete", "recount", "refresh"}
  BY DEF Working
<1>5. call[v].at \in Leased /\ (call'[v].at \in Leased => call'[v].at \in Working)
  BY DEF Leased, Working
<1>6. call'[v].seen \in Finished => state' \in Finished
  BY <1>1 DEF TotalsInv, PlaceInv
<1>7. ~Owing(v)'
  BY DEF Owing
<1>8. PlaceInv'
  BY <1>1, <1>3, <1>4, <1>5, <1>6, <1>7, PlaceKeeps DEF TotalsInv
<1>9. \A w \in Calls : ~met /\ ~cut /\ call'[w].at \in {"acquire", "complete"} =>
                        (call[w].counted = Counts \/ OthersOwe(w))' 
  <2> SUFFICES ASSUME NEW w \in Calls, ~met, ~cut, call'[w].at \in {"acquire", "complete"}
               PROVE  (call[w].counted = Counts \/ OthersOwe(w))'
    OBVIOUS
  <2>1. w # v /\ call'[w] = call[w]
    BY <1>4 DEF Rest
  <2>2. NothingOpen
    BY <2>1 DEF TotalsInv, PlaceInv
  <2>3. call[w].counted = Counts \/ OthersOwe(w)
    BY <2>1 DEF TotalsInv, CountInv
  <2>4. ~Owing(v)
    BY DEF TotalsInv, PlaceInv, Working
  <2>5. \A u \in Calls : Owing(u) => Owing(u)'
    BY <2>4 DEF Owing, Rest
  <2> QED
    BY <1>3, <2>1, <2>2, <2>3, <2>5 DEF OthersOwe
<1> QED
  BY <1>1, <1>2, <1>8, <1>9 DEF TotalsInv, CountInv

-----------------------------------------------------------------------------
(* The steps *)

LEMMA RunStartsKeeps == ASSUME TotalsInv, NEW v \in Calls, RunStarts(v) PROVE TotalsInv'
<1>1. Goes(v, "expire") /\ "expire" \in CallPlaces
  BY DEF RunStarts, CallPlaces, Leased, Working
<1>2. Unleased /\ state = "sending" /\ ~call[v].owes /\ call[v].seen \notin Finished
  BY DEF RunStarts, Unused, Finished
<1> QED
  BY <1>1, <1>2, GoesDoes, QuietKeeps DEF RunStarts, TotalsInv, History, page, Owing

LEMMA ListsKeeps == ASSUME TotalsInv, NEW v \in Calls, Lists(v) PROVE TotalsInv'
<1>1. Goes(v, "listed") /\ "listed" \in CallPlaces /\ "listed" \notin Leased /\ "listed" \notin Working
  BY DEF Lists, CallPlaces, Leased, Working
<1>2. ~call[v].owes /\ call[v].seen \notin Finished
  BY DEF Lists, Unused, Finished
<1> QED
  BY <1>1, <1>2, GoesDoes, QuietKeeps DEF Lists, TotalsInv, History, page, Owing

LEMMA ExpiresKeeps == ASSUME TotalsInv, NEW v \in Calls, Expires(v) PROVE TotalsInv'
<1>1. call[v].at \in Working /\ "begin" \in Working /\ "begin" \in CallPlaces /\ Goes(v, "begin")
  BY DEF Expires, CallPlaces, Leased, Working
<1>2. ~call[v].owes
  BY DEF Expires, TotalsInv, TotalsTypeOK, PlaceInv, Owing
<1>3. row' \in [Recipients -> RowStates] /\ (NothingOpen => row' = row)
  <2>1. PICK S \in SUBSET {r \in Recipients : row[r] = "claimed"} :
            row' = [r \in Recipients |-> IF r \in S THEN "unknown" ELSE row[r]]
    BY DEF Expires
  <2> QED
    BY <2>1 DEF TotalsInv, TotalsTypeOK, RowStates, NothingOpen
<1> QED
  BY <1>1, <1>2, <1>3, GoesDoes, WorkKeeps DEF Expires, TotalsInv, TotalsTypeOK, History, page

LEMMA ClaimsKeeps == ASSUME TotalsInv, NEW v \in Calls, Claims(v) PROVE TotalsInv'
<1>1. call[v].at \in Working /\ "settle" \in Working /\ "settle" \in CallPlaces
  BY DEF Claims, CallPlaces, Leased, Working
<1>2. ~call[v].owes
  BY DEF Claims, TotalsInv, TotalsTypeOK, PlaceInv, Owing
<1>3. PICK S \in SUBSET {r \in Recipients : row[r] = "queued"} :
          /\ S # {}
          /\ row' = [r \in Recipients |-> IF r \in S THEN "claimed" ELSE row[r]]
          /\ call' = [call EXCEPT ![v].at = "settle", ![v].hand = S]
  BY DEF Claims
<1>4. row' \in [Recipients -> RowStates] /\ (NothingOpen => row' = row)
  BY <1>3 DEF TotalsInv, TotalsTypeOK, RowStates, NothingOpen
<1>5. /\ call' \in [Calls -> Invocations] /\ Rest(v)
      /\ call'[v].at = "settle" /\ call'[v].seen = call[v].seen /\ call'[v].owes = call[v].owes
  BY <1>1, <1>3, HandDoes DEF TotalsInv
<1> QED
  BY <1>1, <1>2, <1>4, <1>5, WorkKeeps DEF Claims, TotalsInv, TotalsTypeOK, History, page

LEMMA SettlesKeeps == ASSUME TotalsInv, NEW v \in Calls, Settles(v) PROVE TotalsInv'
<1>1. call[v].at \in Working /\ "count" \in Working /\ "count" \in CallPlaces
  BY DEF Settles, CallPlaces, Leased, Working
<1>2. ~call[v].owes
  BY DEF Settles, TotalsInv, TotalsTypeOK, PlaceInv, Owing
<1>3. PICK to \in [call[v].hand -> RowStates \ {"claimed"}] :
          row' = [r \in Recipients |->
                    IF r \in call[v].hand /\ row[r] = "claimed" THEN to[r] ELSE row[r]]
  BY DEF Settles
<1>4. row' \in [Recipients -> RowStates] /\ (NothingOpen => row' = row)
  BY <1>3 DEF TotalsInv, TotalsTypeOK, NothingOpen
<1>5. /\ call' \in [Calls -> Invocations] /\ Rest(v)
      /\ call'[v].at = "count" /\ call'[v].seen = call[v].seen /\ call'[v].owes = call[v].owes
  <2>1. {} \in SUBSET Recipients /\ call' = [call EXCEPT ![v].at = "count", ![v].hand = {}]
    BY DEF Settles
  <2> QED
    BY <1>1, <2>1, HandDoes DEF TotalsInv
<1> QED
  BY <1>1, <1>2, <1>4, <1>5, WorkKeeps DEF Settles, TotalsInv, TotalsTypeOK, History, page

LEMMA WritesChunkKeeps == ASSUME TotalsInv, NEW v \in Calls, WritesChunk(v) PROVE TotalsInv'
<1>1. call[v].at \in Working /\ "work" \in Working /\ "work" \in CallPlaces
  BY DEF WritesChunk, CallPlaces, Leased, Working
<1>2. ~call[v].owes
  BY DEF WritesChunk, TotalsInv, TotalsTypeOK, PlaceInv, Owing
<1>3. shown' \in [Totals -> 0 .. Cardinality(Recipients)]
  BY ShowsTyped DEF WritesChunk, TotalsInv, TotalsTypeOK, Invocations
<1>4. CASE Goes(v, "work")
  BY <1>1, <1>2, <1>3, <1>4, GoesDoes, WorkKeeps DEF WritesChunk, TotalsInv, TotalsTypeOK, History
<1>5. CASE Leaves(v)
  BY <1>1, <1>2, <1>3, <1>5, EndsDoes, WorkKeeps DEF WritesChunk, TotalsInv, TotalsTypeOK, History
<1> QED
  BY <1>4, <1>5 DEF WritesChunk

LEMMA CountsLeftKeeps == ASSUME TotalsInv, NEW v \in Calls, CountsLeft(v) PROVE TotalsInv'
<1>1. /\ call[v].at \in Working /\ call[v].at \in Leased /\ call[v].at \notin {"acquire", "complete"}
      /\ "work" \in CallPlaces /\ "complete" \in CallPlaces
      /\ "idle" \notin Leased /\ "idle" \notin Working /\ "complete" \notin Working
  BY DEF CountsLeft, CallPlaces, Leased, Working
<1>2. ~call[v].owes /\ state = "sending" /\ state \notin Finished /\ call[v].seen \notin Finished
  BY <1>1 DEF CountsLeft, TotalsInv, TotalsTypeOK, PlaceInv, Owing, Finished, Working
<1>3. UNCHANGED <<state, shown, row, met, cut>>
  BY DEF CountsLeft, page, History
<1>4. CASE NothingLeft(Counts) /\ CountsInto(v, "complete")
  BY <1>1, <1>2, <1>3, <1>4, CountsIntoDoes, LeftIsOpen, QuietKeeps DEF TotalsInv, Owing
<1>5. CASE Goes(v, "work")
  BY <1>1, <1>2, <1>3, <1>5, GoesDoes, QuietKeeps DEF TotalsInv, Owing
<1>6. CASE Leaves(v)
  BY <1>1, <1>2, <1>3, <1>6, EndsDoes, QuietKeeps DEF TotalsInv, Owing, Finished
<1> QED
  BY <1>4, <1>5, <1>6 DEF CountsLeft

LEMMA CountsChunkKeeps == ASSUME TotalsInv, NEW v \in Calls, CountsChunk(v) PROVE TotalsInv'
<1>1. call[v].at \in Working /\ call[v].at \in Leased /\ "totals" \in CallPlaces /\ "totals" \in Working
  BY DEF CountsChunk, CallPlaces, Leased, Working
<1>2. ~call[v].owes /\ state = "sending" /\ call[v].seen \notin Finished
  BY <1>1 DEF CountsChunk, TotalsInv, TotalsTypeOK, PlaceInv, Owing, Finished, Working
<1>3. UNCHANGED <<state, shown, row, met, cut>> /\ CountsInto(v, "totals")
  BY DEF CountsChunk, page, History
<1> QED
  BY <1>1, <1>2, <1>3, CountsIntoDoes, QuietKeeps DEF TotalsInv, Owing

LEMMA CountsListedKeeps == ASSUME TotalsInv, NEW v \in Calls, CountsListed(v) PROVE TotalsInv'
<1>1. /\ "acquire" \in CallPlaces /\ "acquire" \notin Leased /\ "acquire" \notin Working
      /\ "idle" \notin Leased /\ "idle" \notin Working
  BY DEF CallPlaces, Leased, Working
<1>2. ~call[v].owes /\ (call[v].seen \in Finished => state \in Finished)
  BY DEF CountsListed, TotalsInv, TotalsTypeOK, PlaceInv, Owing
<1>3. UNCHANGED <<state, shown, row, met, cut>>
  BY DEF CountsListed, page, History
<1>4. CASE NothingLeft(Counts) /\ CountsInto(v, "acquire")
  BY <1>1, <1>2, <1>3, <1>4, CountsIntoDoes, LeftIsOpen, QuietKeeps DEF TotalsInv, Owing
<1>5. CASE Leaves(v)
  BY <1>1, <1>2, <1>3, <1>5, EndsDoes, QuietKeeps DEF TotalsInv, Owing, Finished
<1> QED
  BY <1>4, <1>5 DEF CountsListed

LEMMA AcquiresToFinishKeeps == ASSUME TotalsInv, NEW v \in Calls, AcquiresToFinish(v) PROVE TotalsInv'
<1>1. /\ "complete" \in CallPlaces /\ "complete" \notin Working
      /\ "idle" \notin Leased /\ "idle" \notin Working
  BY DEF CallPlaces, Leased, Working
<1>2. /\ call[v].at = "acquire" /\ ~call[v].owes /\ (call[v].seen \in Finished => state \in Finished)
      /\ NothingOpen
  BY DEF AcquiresToFinish, TotalsInv, TotalsTypeOK, PlaceInv, Owing
<1>3. UNCHANGED <<state, shown, row, met, cut>>
  BY DEF AcquiresToFinish, page, History
<1>4. CASE Unleased /\ Goes(v, "complete")
  BY <1>1, <1>2, <1>3, <1>4, GoesDoes, QuietKeeps DEF TotalsInv, Owing
<1>5. CASE Leaves(v)
  BY <1>1, <1>2, <1>3, <1>5, EndsDoes, QuietKeeps DEF TotalsInv, Owing, Finished
<1> QED
  BY <1>4, <1>5 DEF AcquiresToFinish

\* The completion writes what it counted; only a refresh still owed can know better.
LEMMA CompletesKeeps == ASSUME TotalsInv, NEW v \in Calls, Completes(v) PROVE TotalsInv'
<1>1. /\ call' \in [Calls -> Invocations] /\ Rest(v) /\ call'[v] = Unused
      /\ Unused.at = "idle" /\ Unused.seen = "sending" /\ Unused.owes = FALSE
  BY EndsDoes DEF Completes, TotalsInv
<1>2. /\ call[v].counted \in CountsOf /\ call[v].at = "complete" /\ call[v].at \in Leased /\ NothingOpen
      /\ row' = row /\ cut' = cut
      /\ shown' = Shows(call[v].counted) /\ state' = StatusFor(call[v].counted)
  BY DEF Completes, TotalsInv, TotalsTypeOK, Invocations, Leased, PlaceInv
<1>3. /\ shown' \in [Totals -> 0 .. Cardinality(Recipients)] /\ state' \in Finished
  BY <1>2, ShowsTyped
<1>4. met' \in BOOLEAN
  BY DEF Completes, TotalsInv, TotalsTypeOK
<1>5. TotalsTypeOK'
  BY <1>1, <1>2, <1>3, <1>4 DEF TotalsInv, TotalsTypeOK
<1>6. Counts' = Counts /\ (NothingOpen' <=> NothingOpen)
  BY <1>2 DEF Counts, NothingOpen
<1>7. PlaceInv'
  <2>1. \A w \in Calls \ {v} : call[w].at \notin Working
    BY <1>2 DEF TotalsInv, PlaceInv, Leased
  <2>2. "idle" \notin Leased /\ "idle" \notin Working /\ ~Owing(v)'
    BY <1>1 DEF Leased, Working, Owing
  <2> QED
    BY <1>1, <1>2, <1>3, <1>6, <2>1, <2>2, PlaceKeeps DEF TotalsInv
<1>8. CountInv'
  <2> SUFFICES ASSUME ~met', ~cut PROVE
        /\ \A w \in Calls : call'[w].at \notin {"acquire", "complete", "recount", "refresh"}
        /\ \/ shown' = Shows(Counts) /\ state' = StatusFor(Counts)
           \/ \E w \in Calls : Owing(w)'
    BY <1>2, <1>6 DEF CountInv
  <2>1. ~met /\ (Completing \cup Refreshing) \ {v} = {}
    BY DEF Completes
  <2>2. \A w \in Calls : call'[w].at \notin {"acquire", "complete", "recount", "refresh"}
    BY <1>1, <2>1 DEF Rest, Completing, Refreshing
  <2>3. call[v].counted = Counts \/ OthersOwe(v)
    BY <1>2, <2>1 DEF TotalsInv, CountInv
  <2>4. OthersOwe(v) => \E w \in Calls : Owing(w)'
    BY <1>1 DEF OthersOwe, Owing, Rest
  <2> QED
    BY <1>2, <2>2, <2>3, <2>4
<1> QED
  BY <1>5, <1>7, <1>8 DEF TotalsInv

LEMMA ReadsRowKeeps ==
    ASSUME TotalsInv, NEW v \in Calls, NEW r \in Recipients, ReadsRow(v, r) PROVE TotalsInv'
<1>1. "promote" \in CallPlaces /\ "promote" \notin Leased /\ "promote" \notin Working /\ {r} \in SUBSET Recipients
  BY DEF CallPlaces, Leased, Working
<1>2. UNCHANGED <<state, shown, row, met, cut>> /\ call' = [call EXCEPT ![v].at = "promote", ![v].hand = {r}]
  BY DEF ReadsRow, page, History
<1>3. /\ call' \in [Calls -> Invocations] /\ Rest(v)
      /\ call'[v].at = "promote" /\ call'[v].seen = call[v].seen /\ call'[v].owes = call[v].owes
  BY <1>1, <1>2, HandDoes DEF TotalsInv
<1>4. call[v].seen \in Finished => state \in Finished
  BY DEF TotalsInv, PlaceInv
<1> QED
  BY <1>1, <1>2, <1>3, <1>4, QuietKeeps DEF TotalsInv, Owing

\* The rows have moved on; whoever moved them owes the totals a refresh.
LEMMA PromotesKeeps == ASSUME TotalsInv, NEW v \in Calls, Promotes(v) PROVE TotalsInv'
<1>1. /\ "events" \in CallPlaces /\ "events" \notin Leased /\ "events" \notin Working
      /\ {} \in SUBSET Recipients /\ call[v].at = "promote"
      /\ UNCHANGED <<state, shown, met, cut>> /\ Puts(call[v].hand, "sent")
      /\ call' = [call EXCEPT ![v].at = "events", ![v].hand = {}, ![v].owes = TRUE]
  BY DEF Promotes, CallPlaces, Leased, Working, page, History
<1>2. /\ call' \in [Calls -> Invocations] /\ Rest(v)
      /\ call'[v].at = "events" /\ call'[v].seen = call[v].seen /\ call'[v].owes = TRUE
  <2>1. /\ call'[v] = [[[call[v] EXCEPT !.at = "events"] EXCEPT !.hand = {}] EXCEPT !.owes = TRUE]
        /\ Rest(v) /\ call' = [w \in Calls |-> call'[w]]
    BY <1>1 DEF TotalsInv, TotalsTypeOK, Rest
  <2>2. call[v] \in Invocations
    BY DEF TotalsInv, TotalsTypeOK
  <2> DEFINE moved == [call[v] EXCEPT !.at = "events"]
             empty == [moved EXCEPT !.hand = {}]
  <2>3. moved \in Invocations /\ moved.at = "events" /\ moved.seen = call[v].seen
    BY <1>1, <2>2 DEF Invocations
  <2>4. empty \in Invocations /\ empty.at = "events" /\ empty.seen = call[v].seen
    <3> HIDE DEF moved
    <3> QED
      BY <2>3 DEF Invocations
  <2>5. call'[v] = [empty EXCEPT !.owes = TRUE]
    BY <2>1
  <2> HIDE DEF empty
  <2>6. call'[v] \in Invocations /\ call'[v].at = "events" /\ call'[v].seen = call[v].seen /\ call'[v].owes = TRUE
    BY <2>4, <2>5 DEF Invocations
  <2> QED
    BY <2>1, <2>6 DEF TotalsInv, TotalsTypeOK, Rest
<1>3. row' \in [Recipients -> RowStates] /\ (NothingOpen => NothingOpen')
  BY <1>1 DEF TotalsInv, TotalsTypeOK, Puts, RowStates, NothingOpen
<1>4. Owing(v)' /\ (\A w \in Calls : Owing(w) => Owing(w)')
  BY <1>2 DEF Owing, Rest
<1>5. TotalsTypeOK'
  BY <1>1, <1>2, <1>3 DEF TotalsInv, TotalsTypeOK
<1>6. PlaceInv'
  <2>1. \A w \in Calls \ {v} : call[w].at \in Working => state' = "sending"
    BY <1>1 DEF TotalsInv, PlaceInv
  <2>2. (state' \in Finished => NothingOpen') /\ (call'[v].seen \in Finished => state' \in Finished)
    BY <1>1, <1>2, <1>3 DEF TotalsInv, PlaceInv
  <2> QED
    BY <1>1, <1>2, <1>3, <1>4, <2>1, <2>2, PlaceKeeps DEF TotalsInv
<1>7. CountInv'
  <2>1. \A w \in Calls \ {v} : OthersOwe(w)'
    BY <1>4 DEF OthersOwe
  <2>2. call'[v].at \notin {"acquire", "complete", "recount", "refresh"}
    BY <1>2
  <2>3. ~met /\ ~cut /\ state \in Finished =>
            \A w \in Calls : call'[w].at \in {"recount", "refresh"} => call'[w].seen = state
    BY <1>2, <2>2 DEF TotalsInv, CountInv, Rest
  <2> QED
    BY <1>1, <1>4, <2>1, <2>2, <2>3 DEF CountInv
<1> QED
  BY <1>5, <1>6, <1>7 DEF TotalsInv

LEMMA PromoteFailsKeeps == ASSUME TotalsInv, NEW v \in Calls, PromoteFails(v) PROVE TotalsInv'
<1>1. /\ "events" \in CallPlaces /\ "events" \notin Leased /\ "events" \notin Working
      /\ {} \in SUBSET Recipients /\ call[v].at = "promote" /\ UNCHANGED <<state, shown, met>>
      /\ call' = [call EXCEPT ![v].at = "events", ![v].hand = {}]
  BY DEF PromoteFails, CallPlaces, Leased, Working, page
<1>2. /\ call' \in [Calls -> Invocations] /\ Rest(v)
      /\ call'[v].at = "events" /\ call'[v].seen = call[v].seen /\ call'[v].owes = call[v].owes
  BY <1>1, HandDoes DEF TotalsInv
<1>3. call[v].seen \in Finished => state \in Finished
  BY DEF TotalsInv, PlaceInv
<1>4. CASE UNCHANGED <<row, cut>>
  BY <1>1, <1>2, <1>3, <1>4, QuietKeeps DEF TotalsInv, Owing
<1>5. CASE Puts(call[v].hand, "sent") /\ cut' = TRUE
  <2>1. row' \in [Recipients -> RowStates] /\ (NothingOpen => NothingOpen')
    BY <1>5 DEF TotalsInv, TotalsTypeOK, Puts, RowStates, NothingOpen
  <2>2. TotalsTypeOK'
    BY <1>1, <1>2, <1>5, <2>1 DEF TotalsInv, TotalsTypeOK
  <2>3. /\ \A w \in Calls \ {v} : call[w].at \in Working => state' = "sending"
        /\ state' \in Finished => NothingOpen'
    BY <1>1, <2>1 DEF TotalsInv, PlaceInv
  <2>4. PlaceInv'
    BY <1>1, <1>2, <1>3, <2>1, <2>3, PlaceKeeps DEF TotalsInv
  <2> QED
    BY <1>5, <2>2, <2>4 DEF TotalsInv, CountInv
<1> QED
  BY <1>4, <1>5 DEF PromoteFails

LEMMA StartsRefreshKeeps == ASSUME TotalsInv, NEW v \in Calls, StartsRefresh(v) PROVE TotalsInv'
<1>1. /\ call[v].at = "events" /\ UNCHANGED <<state, shown, row, met, cut>>
      /\ "recount" \in CallPlaces /\ "recount" \notin Leased /\ "recount" \notin Working
      /\ "idle" \notin Leased /\ "idle" \notin Working
  BY DEF StartsRefresh, page, History, CallPlaces, Leased, Working
<1>2. CASE ~call[v].owes /\ Leaves(v)
  BY <1>1, <1>2, EndsDoes, QuietKeeps DEF TotalsInv, Owing, Finished
<1>3. CASE call[v].owes /\ call' = [call EXCEPT ![v].at = "recount", ![v].seen = state]
  <2>1. /\ call'[v] = [[call[v] EXCEPT !.at = "recount"] EXCEPT !.seen = state]
        /\ Rest(v) /\ call' = [w \in Calls |-> call'[w]]
    BY <1>3 DEF TotalsInv, TotalsTypeOK, Rest
  <2>2. call[v] \in Invocations /\ state \in {"sending"} \cup Finished
    BY DEF TotalsInv, TotalsTypeOK
  <2> DEFINE moved == [call[v] EXCEPT !.at = "recount"]
  <2>3. moved \in Invocations /\ moved.at = "recount" /\ moved.owes = call[v].owes
    BY <1>1, <2>2 DEF Invocations
  <2>4. call'[v] = [moved EXCEPT !.seen = state]
    BY <2>1
  <2> HIDE DEF moved
  <2>5. call'[v] \in Invocations /\ call'[v].at = "recount" /\ call'[v].seen = state /\ call'[v].owes = call[v].owes
    BY <2>2, <2>3, <2>4 DEF Invocations
  <2>6. call' \in [Calls -> Invocations]
    BY <2>1, <2>5 DEF TotalsInv, TotalsTypeOK, Rest
  <2> QED
    BY <1>1, <1>3, <2>1, <2>5, <2>6, QuietKeeps DEF TotalsInv, Owing
<1> QED
  BY <1>2, <1>3 DEF StartsRefresh

LEMMA RecountsKeeps == ASSUME TotalsInv, NEW v \in Calls, Recounts(v) PROVE TotalsInv'
<1>1. /\ call[v].at = "recount" /\ UNCHANGED <<state, shown, row, met, cut>> /\ CountsInto(v, "refresh")
      /\ "refresh" \in CallPlaces /\ "refresh" \notin Leased /\ "refresh" \notin Working
  BY DEF Recounts, page, History, CallPlaces, Leased, Working
<1>2. Owing(v) /\ (call[v].seen \in Finished => state \in Finished)
  BY <1>1 DEF TotalsInv, PlaceInv
<1> QED
  BY <1>1, <1>2, CountsIntoDoes, QuietKeeps DEF TotalsInv, Owing

\* What the refresh writes is what stands, unless another has still to refresh.
LEMMA RefreshesKeeps == ASSUME TotalsInv, NEW v \in Calls, Refreshes(v) PROVE TotalsInv'
<1>1. /\ call' \in [Calls -> Invocations] /\ Rest(v) /\ call'[v] = Unused
      /\ Unused.at = "idle" /\ Unused.seen = "sending" /\ Unused.owes = FALSE
  BY EndsDoes DEF Refreshes, TotalsInv
<1>2. /\ call[v].counted \in CountsOf /\ call[v].at = "refresh" /\ row' = row /\ cut' = cut
      /\ shown' = Shows(call[v].counted)
  BY DEF Refreshes, TotalsInv, TotalsTypeOK, Invocations
<1>3. /\ shown' \in [Totals -> 0 .. Cardinality(Recipients)] /\ StatusFor(call[v].counted) \in Finished
  BY <1>2, ShowsTyped
<1>4. /\ state' = state \/ (call[v].seen \in Finished /\ state' \in Finished)
      /\ call[v].seen \in Finished /\ NothingLeft(call[v].counted) => state' = StatusFor(call[v].counted)
  BY <1>3 DEF Refreshes, Rederives
<1>5. call[v].seen \in Finished => state \in Finished
  BY DEF TotalsInv, PlaceInv
<1>6. TotalsTypeOK'
  <2>1. met' \in BOOLEAN
    BY DEF Refreshes, TotalsInv, TotalsTypeOK
  <2> QED
    BY <1>1, <1>2, <1>3, <1>4, <2>1 DEF TotalsInv, TotalsTypeOK
<1>7. Counts' = Counts /\ (NothingOpen' <=> NothingOpen)
  BY <1>2 DEF Counts, NothingOpen
<1>8. PlaceInv'
  <2>1. \A w \in Calls \ {v} : call[w].at \in Working => state' = "sending"
    BY <1>4, <1>5 DEF TotalsInv, PlaceInv, Finished
  <2>2. state' \in Finished => NothingOpen'
    BY <1>4, <1>5, <1>7 DEF TotalsInv, PlaceInv
  <2>3. state \in Finished => state' \in Finished
    BY <1>4
  <2>4. "idle" \notin Leased /\ "idle" \notin Working /\ "sending" \notin Finished /\ ~Owing(v)'
    BY <1>1 DEF Leased, Working, Owing, Finished
  <2> QED
    BY <1>1, <1>7, <2>1, <2>2, <2>3, <2>4, PlaceKeeps DEF TotalsInv
<1>9. CountInv'
  <2> SUFFICES ASSUME ~met', ~cut PROVE
        /\ \A w \in Calls : call'[w].at \notin {"acquire", "complete"}
        /\ state' \in Finished =>
              /\ \A w \in Calls : call'[w].at \notin {"recount", "refresh"}
              /\ \/ shown' = Shows(Counts) /\ state' = StatusFor(Counts)
                 \/ \E w \in Calls : Owing(w)'
    BY <1>2, <1>7 DEF CountInv
  <2>1. ~met /\ (Completing \cup (IF state \in Finished THEN Refreshing ELSE {})) \ {v} = {}
    BY DEF Refreshes
  <2>2. \A w \in Calls : call'[w].at \notin {"acquire", "complete"}
    BY <1>1, <2>1 DEF Rest, Completing
  <2>3. ASSUME state' \in Finished PROVE
              /\ \A w \in Calls : call'[w].at \notin {"recount", "refresh"}
              /\ \/ shown' = Shows(Counts) /\ state' = StatusFor(Counts)
                 \/ \E w \in Calls : Owing(w)'
    <3>1. state \in Finished
      BY <1>4, <1>5, <2>3
    <3>2. \A w \in Calls : call'[w].at \notin {"recount", "refresh"}
      BY <1>1, <2>1, <3>1 DEF Rest, Refreshing
    <3>3. (call[v].counted = Counts \/ OthersOwe(v)) /\ call[v].seen = state
      BY <1>2, <2>1, <3>1 DEF TotalsInv, CountInv
    <3>4. NothingLeft(Counts)
      BY <3>1, LeftIsOpen DEF TotalsInv, PlaceInv
    <3>5. OthersOwe(v) => \E w \in Calls : Owing(w)'
      BY <1>1 DEF OthersOwe, Owing, Rest
    <3>6. call[v].counted = Counts => shown' = Shows(Counts) /\ state' = StatusFor(Counts)
      BY <1>2, <1>4, <3>1, <3>3, <3>4
    <3> QED
      BY <3>2, <3>3, <3>5, <3>6
  <2> QED
    BY <2>2, <2>3
<1> QED
  BY <1>6, <1>8, <1>9 DEF TotalsInv

LEMMA StopsShortKeeps == ASSUME TotalsInv, NEW v \in Calls, StopsShort(v) PROVE TotalsInv'
<1>1. /\ call' \in [Calls -> Invocations] /\ Rest(v) /\ call'[v] = Unused
      /\ Unused.at = "idle" /\ Unused.seen = "sending" /\ Unused.owes = FALSE
  BY EndsDoes DEF StopsShort, TotalsInv
<1>2. /\ UNCHANGED <<state, shown, row, met>> /\ cut' = (cut \/ call[v].owes)
      /\ call[v].owes \in BOOLEAN /\ cut \in BOOLEAN
      /\ "idle" \notin Leased /\ "idle" \notin Working /\ "sending" \notin Finished
  BY DEF StopsShort, page, TotalsInv, TotalsTypeOK, Invocations, Leased, Working, Finished
<1>3. CASE ~call[v].owes
  <2>1. cut' = cut
    BY <1>2, <1>3
  <2> QED
    BY <1>1, <1>2, <1>3, <2>1, QuietKeeps DEF TotalsInv, Owing
<1>4. CASE call[v].owes
  <2>1. cut' = TRUE
    BY <1>2, <1>4
  <2>2. TotalsTypeOK'
    BY <1>1, <1>2, <2>1 DEF TotalsInv, TotalsTypeOK
  <2>3. /\ NothingOpen' <=> NothingOpen
        /\ \A w \in Calls \ {v} : call[w].at \in Working => state' = "sending"
        /\ state' \in Finished => NothingOpen'
        /\ ~Owing(v)'
    BY <1>1, <1>2 DEF TotalsInv, PlaceInv, NothingOpen, Owing
  <2>4. PlaceInv'
    BY <1>1, <1>2, <2>3, PlaceKeeps DEF TotalsInv
  <2> QED
    BY <2>1, <2>2, <2>4 DEF TotalsInv, CountInv
<1> QED
  BY <1>3, <1>4

-----------------------------------------------------------------------------
LEMMA TotalsInitially == TotalsInit => TotalsInv
<1> SUFFICES ASSUME TotalsInit PROVE TotalsInv
  OBVIOUS
<1>1. 0 \in 0 .. Cardinality(Recipients)
  BY TotalsConstants, FS_CardinalityType
<1>2. TotalsTypeOK
  BY <1>1, UnusedTyped DEF TotalsInit, TotalsTypeOK, RowStates, Totals
<1>3. /\ \A v \in Calls : call[v].at = "idle" /\ call[v].seen = "sending" /\ ~call[v].owes
      /\ state = "sending"
  BY DEF TotalsInit, Unused
<1>4. "idle" \notin Leased /\ "idle" \notin Working /\ "sending" \notin Finished
  BY DEF Leased, Working, Finished
<1> QED
  BY <1>2, <1>3, <1>4 DEF TotalsInv, PlaceInv, CountInv, Owing

LEMMA TotalsStep == TotalsInv /\ [TotalsNext]_totalsVars => TotalsInv'
<1> SUFFICES ASSUME TotalsInv, [TotalsNext]_totalsVars PROVE TotalsInv'
  OBVIOUS
<1>1. CASE UNCHANGED totalsVars
  BY <1>1 DEF totalsVars, TotalsInv, TotalsTypeOK, PlaceInv, CountInv, NothingOpen, Counts, Owing,
              OthersOwe
<1>2. ASSUME NEW v \in Calls, RunWorks(v) \/ Finishes(v) PROVE TotalsInv'
  BY <1>2, RunStartsKeeps, ExpiresKeeps, CountsLeftKeeps, ClaimsKeeps, SettlesKeeps, CountsChunkKeeps,
     WritesChunkKeeps, ListsKeeps, CountsListedKeeps, AcquiresToFinishKeeps, CompletesKeeps
     DEF RunWorks, Finishes
<1>3. ASSUME NEW v \in Calls, Hears(v) \/ StopsShort(v) PROVE TotalsInv'
  BY <1>3, ReadsRowKeeps, PromotesKeeps, PromoteFailsKeeps, StartsRefreshKeeps, RecountsKeeps,
     RefreshesKeeps, StopsShortKeeps
     DEF Hears
<1> QED
  BY <1>1, <1>2, <1>3 DEF TotalsNext

LEMMA TotalsAlways == TotalsSpec => []TotalsInv
BY TotalsInitially, TotalsStep, PTL DEF TotalsSpec

\* The types of the totals, the rows and what an invocation remembers of them.
THEOREM TotalsTyped == TotalsSpec => []TotalsTypeOK
<1>1. TotalsInv => TotalsTypeOK
  BY DEF TotalsInv
<1> QED
  BY <1>1, TotalsAlways, PTL

\* A finished send shows the totals and the status of its rows once the webhook's
\* refreshes are done, unless two writers met or a refresh was lost.
THEOREM FinishedTotalsAlways == TotalsSpec => []FinishedTotalsAreTrue
<1>1. TotalsInv => FinishedTotalsAreTrue
  BY DEF TotalsInv, CountInv, Owing, FinishedTotalsAreTrue
<1> QED
  BY <1>1, TotalsAlways, PTL

\* A send that is over has nothing queued or claimed, and never again will have.
THEOREM FinishedIsWholeAlways == TotalsSpec => []FinishedIsWhole
<1>1. TotalsInv => FinishedIsWhole
  BY DEF TotalsInv, PlaceInv, NothingOpen, FinishedIsWhole
<1> QED
  BY <1>1, TotalsAlways, PTL

\* So what is written as finished is, and says how.
THEOREM FinishedIsTrueAlways == TotalsSpec => []FinishedIsTrue
<1>1. FinishedIsWhole /\ FinishedTotalsAreTrue => FinishedIsTrue
  BY DEF FinishedIsTrue
<1> QED
  BY <1>1, FinishedIsWholeAlways, FinishedTotalsAlways, PTL

\* Side by side, as the safety run checks them, both keep their types.
THEOREM PartsTyped == PartsSpec => []PartsTypeOK
<1>1. PartsInit => SendsInv /\ TotalsInv
  BY InvInit, TotalsInitially DEF PartsInit
<1>2. ASSUME SendsInv /\ TotalsInv, [PartsNext]_partsVars PROVE SendsInv' /\ TotalsInv'
  <2>1. [Next]_vars /\ [TotalsNext]_totalsVars
    BY <1>2 DEF PartsNext, partsVars
  <2> QED
    BY <1>2, <2>1, InvStep, TotalsStep
<1>3. SendsInv /\ TotalsInv => PartsTypeOK
  BY DEF SendsInv, TotalsInv, PartsTypeOK
<1> QED
  BY <1>1, <1>2, <1>3, PTL DEF PartsSpec
=============================================================================
