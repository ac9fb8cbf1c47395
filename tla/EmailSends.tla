------------------------------ MODULE EmailSends ------------------------------
(***************************************************************************)
(* ONE email across all its sends: the functions that write its hoa_emails *)
(* row and its recipient rows.  The send route, the two schedulers         *)
(* (the cron tick and the Flow's process-scheduled), the runs, the tick's  *)
(* closing phases, the compose page's save and the webhook's re-derived    *)
(* totals all act on what they read earlier; only some of them hold the    *)
(* lease when they write.                                                  *)
(*                                                                         *)
(* A step is one Directus request, except that acquireLease and a run's    *)
(* work on one batch of rows are single steps: EmailSendQueue models them  *)
(* request by request, and its theorem OneWriter is why a live holder's    *)
(* lease is never taken here.                                              *)
(***************************************************************************)
EXTENDS Naturals, FiniteSets

CONSTANTS
    Runs,        \* function invocations
    NoRun,       \* no lease
    NoKey,       \* send_run_key is null
    Functions,   \* the kinds of function that are called
    Batches,     \* SNAPSHOT_BATCH-sized parts of a plan: 1 .. Batches
    MaxSends,    \* bound on manual Sends
    LastAt,      \* bound on scheduled occurrences
    Recurs,      \* does recurrence_rule repeat
    MaxFaults    \* bound on kills, failed requests, refusals and pauses

ASSUME SendsAssumption ==
    /\ NoRun \notin Runs
    /\ Functions \subseteq {"send", "enqueue", "run", "close", "refresh", "save"}
    /\ Batches \in Nat \ {0}
    /\ MaxSends \in Nat
    /\ LastAt \in Nat \ {0}
    /\ Recurs \in BOOLEAN
    /\ MaxFaults \in Nat

\* run_key: `m:` and the moment of a Send, or `s:` and the scheduled_at.
Manual(i)    == <<"m", i>>
Scheduled(n) == <<"s", n>>
ManualKeys   == {Manual(i) : i \in 1 .. MaxSends}
Keys         == ManualKeys \cup {Scheduled(n) : n \in 1 .. LastAt}
Parts        == 1 .. Batches

ASSUME KeyAssumption == NoKey \notin Keys

VARIABLES
    email,       \* the hoa_emails row: status, send_run_key, total_recipients
                 \* is set, scheduled_at
    lease,       \* holder of the hoa_email_send_leases row, or NoRun
    rows,        \* rows[k]: the parts of occurrence k's plan that exist
    open,        \* open[k]: of those, the ones still queued
    mails,       \* mails[k][b]: times part b of k was mailed (history)
    pc, kind,    \* where each invocation is, and which function it runs
    seen,        \* the email as the invocation last read it
    key,         \* the run key it works under
    written,     \* batches its snapshot has written
    now,         \* the latest scheduled_at that is due, 0 before the first
    sends,       \* manual Sends pressed so far
    faults

dataVars == <<rows, open, mails>>
runVars  == <<kind, seen, key, written>>
vars == <<email, lease, dataVars, pc, runVars, now, sends, faults>>

-----------------------------------------------------------------------------
Statuses == {"draft", "scheduled", "sending", "paused", "sent", "failed"}
Kinds    == {"send", "enqueue", "run", "finish", "close", "refresh", "save"}
Holding  == {"expect", "first", "create", "total", "undoRows", "undoStatus",
             "enter", "work", "complete", "closeRows", "closeStatus", "leave",
             "quit"}
Places   == {"off", "due", "refuse", "listed", "acquire", "save", "refresh"} \cup Holding

Emails == [status : Statuses, key : Keys \cup {NoKey}, ready : BOOLEAN, at : 1 .. LastAt]

TypeOK ==
    /\ email \in Emails
    /\ lease \in Runs \cup {NoRun}
    /\ rows \in [Keys -> SUBSET Parts]
    /\ open \in [Keys -> SUBSET Parts]
    /\ mails \in [Keys -> [Parts -> Nat]]
    /\ pc \in [Runs -> Places]
    /\ kind \in [Runs -> Kinds]
    /\ seen \in [Runs -> Emails]
    /\ key \in [Runs -> Keys \cup {NoKey}]
    /\ written \in [Runs -> 0 .. Batches]
    /\ now \in 0 .. LastAt
    /\ sends \in 0 .. MaxSends
    /\ faults \in Nat

NewEmail == [status |-> "draft", key |-> NoKey, ready |-> FALSE, at |-> 1]

Init ==
    /\ email \in {NewEmail, [NewEmail EXCEPT !.status = "scheduled"]}
    /\ lease = NoRun
    /\ rows = [k \in Keys |-> {}]
    /\ open = [k \in Keys |-> {}]
    /\ mails = [k \in Keys |-> [b \in Parts |-> 0]]
    /\ pc = [w \in Runs |-> "off"]
    /\ kind = [w \in Runs |-> "run"]
    /\ seen = [w \in Runs |-> NewEmail]
    /\ key = [w \in Runs |-> NoKey]
    /\ written = [w \in Runs |-> 0]
    /\ now = 0
    /\ sends = 0
    /\ faults = 0

-----------------------------------------------------------------------------
Goto(w, next) == pc' = [pc EXCEPT ![w] = next]

\* An invocation ends, and what it remembered with it.
End(w) ==
    /\ Goto(w, "off")
    /\ kind' = [kind EXCEPT ![w] = "run"]
    /\ seen' = [seen EXCEPT ![w] = NewEmail]
    /\ key' = [key EXCEPT ![w] = NoKey]
    /\ written' = [written EXCEPT ![w] = 0]

\* An invocation starts as function k, having read the email; it remembers what
\* it uses later.
Begin(w, k, remembered, next) ==
    /\ k \in Functions
    /\ pc[w] = "off" /\ lease # w
    /\ Goto(w, next)
    /\ kind' = [kind EXCEPT ![w] = k]
    /\ seen' = [seen EXCEPT ![w] = remembered]

Mishap == faults < MaxFaults /\ faults' = faults + 1

\* bug: the dedupe_key index is missing (OccurrenceOnce).
NoIndex(k, b) == FALSE
\* dedupe_key: the same person in the same occurrence twice is refused.
Collides(k, b) == b \in rows[k]

\* bug: a half-written plan is enough to claim from (WholePlanOnly).
NotDraft(e) == e.status = "sending" /\ e.key # NoKey
\* What runBatch asks of the email it reads under the lease.
Sendable(e) == e.status = "sending" /\ e.ready /\ e.key # NoKey

\* Undo deletes rows it wrote itself, never someone else's.
UndoesRows(w, collision) == written[w] > 0 /\ ~collision

\* bug: a send that died getting ready is never closed (PreparingEnds).
NeverClosed(e) == FALSE
\* PREPARE_STALE_MS outlives any function: whoever wrote the snapshot is gone,
\* and what runs now has found the email as it still is.
PreparingDied(e) ==
    /\ ~e.ready
    /\ \A v \in Runs : pc[v] = "off" \/ (kind[v] \in {"run", "close", "refresh"} /\ seen[v] = e)

\* bug: one batch too many (TypeOK).
PlanOverrun(b) == b > Batches
\* The loop over the plan ends with its last batch.
PlanWritten(b) == b = Batches

\* computeNextRun has a next occurrence for a scheduled one that repeats, up to
\* the bound on occurrences.
Repeats(k, at) == k \notin ManualKeys /\ Recurs /\ at < LastAt

AnyMailed(k) == \E b \in Parts : mails[k][b] > 0

-----------------------------------------------------------------------------
(* The ways in. *)

\* send.post reads the email and refuses only one that is being sent.
PressSend(w) ==
    /\ sends < MaxSends
    /\ email.status # "sending"
    /\ sends' = sends + 1
    /\ Begin(w, "send", [NewEmail EXCEPT !.status = email.status], "acquire")
    /\ key' = [key EXCEPT ![w] = Manual(sends + 1)]
    /\ UNCHANGED <<email, lease, dataVars, written, now, faults>>

\* enqueueDue lists the scheduled emails whose time has come.
ListDue(w) ==
    /\ email.status = "scheduled" /\ email.at <= now
    /\ Begin(w, "enqueue", NewEmail, "due")
    /\ UNCHANGED <<email, lease, dataVars, key, written, now, sends, faults>>

\* enqueueScheduled reads it again, status unchecked; compliance or an empty
\* audience may refuse it.
ReadScheduled(w) ==
    /\ pc[w] = "due"
    /\ key' = [key EXCEPT ![w] = Scheduled(email.at)]
    /\ \/ Goto(w, "acquire") /\ UNCHANGED faults
       \/ Goto(w, "refuse") /\ Mishap
    /\ UNCHANGED <<email, lease, dataVars, kind, seen, written, now,
                   sends>>

\* The refusal is written without the lease.
WriteRefusal(w) ==
    /\ pc[w] = "refuse"
    /\ email' = [email EXCEPT !.status = "failed"]
    /\ End(w)
    /\ UNCHANGED <<lease, dataVars, now, sends, faults>>

\* The tick lists the sending emails; later it runs this one, closes it if it is
\* stuck getting ready, or, its budget gone, completes it if nothing is left.
ListSending(w) ==
    /\ email.status = "sending"
    /\ Begin(w, IF PreparingDied(email) THEN "close" ELSE "run", email, "listed")
    /\ UNCHANGED <<email, lease, dataVars, key, written, now, sends, faults>>

VisitListed(w) ==
    /\ pc[w] = "listed"
    /\ \/ /\ seen[w].ready
          /\ Goto(w, "acquire")
          /\ seen' = [seen EXCEPT ![w] = NewEmail]
          /\ UNCHANGED <<kind, key>>
       \/ /\ kind[w] = "close"
          /\ Goto(w, "acquire")
          /\ key' = [key EXCEPT ![w] = seen[w].key]
          /\ UNCHANGED <<kind, seen>>
       \/ /\ seen[w].ready /\ seen[w].key # NoKey
          /\ open[seen[w].key] = {}
          /\ Goto(w, "acquire")
          /\ kind' = [kind EXCEPT ![w] = "finish"]
          /\ key' = [key EXCEPT ![w] = seen[w].key]
          /\ UNCHANGED seen
    /\ UNCHANGED <<email, lease, dataVars, written, now, sends,
                   faults>>

PassListed(w) ==
    /\ pc[w] = "listed"
    /\ \/ ~seen[w].ready /\ kind[w] # "close"
       \/ seen[w].ready /\ (seen[w].key = NoKey \/ open[seen[w].key] # {})
    /\ End(w)
    /\ UNCHANGED <<email, lease, dataVars, now, sends, faults>>

\* save.post checks the status it reads, and writes without the lease.
ReadForSave(w) ==
    /\ email.status \in {"draft", "scheduled"}
    /\ Begin(w, "save", [NewEmail EXCEPT !.at = email.at], "save")
    /\ UNCHANGED <<email, lease, dataVars, key, written, now, sends, faults>>

Save(w) ==
    /\ pc[w] = "save"
    /\ \E s \in {"draft", "scheduled"}, n \in seen[w].at .. LastAt :
          email' = [email EXCEPT !.status = s, !.at = n]
    /\ End(w)
    /\ UNCHANGED <<lease, dataVars, now, sends, faults>>

\* refreshTotals, after the webhook promoted a row: read, count, write.
ReadForTotals(w) ==
    /\ email.key # NoKey /\ AnyMailed(email.key)
    /\ Begin(w, "refresh", email, "refresh")
    /\ UNCHANGED <<email, lease, dataVars, key, written, now, sends, faults>>

\* A finished send has its status re-derived; the totals are not modelled.
RefreshTotals(w) ==
    /\ pc[w] = "refresh"
    /\ email' = IF seen[w].status \in {"sent", "failed"} /\ open[seen[w].key] = {}
                THEN [email EXCEPT !.status = IF AnyMailed(seen[w].key) THEN "sent" ELSE "failed"]
                ELSE email
    /\ End(w)
    /\ UNCHANGED <<lease, dataVars, now, sends, faults>>

-----------------------------------------------------------------------------
(* The lease: free, or a dead holder's to break; otherwise the caller gives up. *)

Free == lease \in Runs => pc[lease] = "off"

Under(k) == CASE k \in {"send", "enqueue"} -> "expect"
              [] k = "run"    -> "enter"
              [] k = "finish" -> "complete"
              [] k = "close"  -> "closeRows"

Acquire(w) ==
    /\ pc[w] = "acquire"
    /\ IF Free THEN /\ lease' = w
                    /\ Goto(w, Under(kind[w]))
                    /\ UNCHANGED runVars
               ELSE End(w) /\ UNCHANGED lease
    /\ UNCHANGED <<email, dataVars, now, sends, faults>>

\* The `finally`.  A Send that went through runs a small send inline.
Release(w) ==
    /\ pc[w] \in {"leave", "quit"}
    /\ lease' = NoRun
    /\ \/ End(w)
       \/ /\ pc[w] = "leave" /\ kind[w] = "send"
          /\ Goto(w, "acquire")
          /\ kind' = [kind EXCEPT ![w] = "run"]
          /\ key' = [key EXCEPT ![w] = NoKey]
          /\ written' = [written EXCEPT ![w] = 0]
          /\ seen' = [seen EXCEPT ![w] = NewEmail]
    /\ UNCHANGED <<email, dataVars, now, sends, faults>>

-----------------------------------------------------------------------------
(* writeSnapshot *)

Expected(k, s) == IF k = "send" THEN s # "sending" ELSE s = "scheduled"

CheckExpected(w) ==
    /\ pc[w] = "expect"
    /\ Goto(w, IF Expected(kind[w], email.status) THEN "first" ELSE "quit")
    /\ UNCHANGED <<email, lease, dataVars, runVars, now, sends, faults>>

\* The first write: sending, under this key, its total not set.
StartSnapshot(w) ==
    /\ pc[w] = "first"
    /\ email' = [email EXCEPT !.status = "sending", !.key = key[w], !.ready = FALSE]
    /\ Goto(w, "create")
    /\ UNCHANGED <<lease, dataVars, runVars, now, sends, faults>>

AfterFailure(w, collision) ==
    Goto(w, IF UndoesRows(w, collision) THEN "undoRows" ELSE "undoStatus")

AddPart(k, b) ==
    /\ rows' = [rows EXCEPT ![k] = @ \cup {b}]
    /\ open' = [open EXCEPT ![k] = @ \cup {b}]

\* createRows: one transaction per batch.  It lands, collides, is refused, or
\* lands with its answer lost.
CreateRows(w) ==
    /\ pc[w] = "create"
    /\ LET k == key[w]
           b == written[w] + 1
       IN  \/ /\ ~Collides(k, b)
              /\ AddPart(k, b)
              /\ written' = [written EXCEPT ![w] = b]
              /\ Goto(w, IF PlanWritten(b) THEN "total" ELSE "create")
              /\ UNCHANGED faults
           \/ /\ Collides(k, b)
              /\ AfterFailure(w, TRUE)
              /\ UNCHANGED <<rows, open, written, faults>>
           \/ /\ Mishap
              /\ AfterFailure(w, FALSE)
              /\ UNCHANGED <<rows, open, written>>
           \/ /\ Mishap /\ ~Collides(k, b)
              /\ AddPart(k, b)
              /\ AfterFailure(w, FALSE)
              /\ UNCHANGED written
    /\ UNCHANGED <<email, lease, mails, kind, seen, key, now, sends>>

\* Last: from here a run may claim.  The request may fail, its effect kept or not.
SetTotal(w) ==
    /\ pc[w] = "total"
    /\ \/ /\ email' = [email EXCEPT !.ready = TRUE]
          /\ Goto(w, "leave")
          /\ UNCHANGED faults
       \/ /\ Mishap
          /\ email' \in {email, [email EXCEPT !.ready = TRUE]}
          /\ AfterFailure(w, FALSE)
    /\ UNCHANGED <<lease, dataVars, runVars, now, sends>>

\* The undo: each request is allowed to fail.
UndoRows(w) ==
    /\ pc[w] = "undoRows"
    /\ \/ /\ rows' = [rows EXCEPT ![key[w]] = {}]
          /\ open' = [open EXCEPT ![key[w]] = {}]
          /\ UNCHANGED faults
       \/ Mishap /\ UNCHANGED <<rows, open>>
    /\ Goto(w, "undoStatus")
    /\ UNCHANGED <<email, lease, mails, runVars, now, sends>>

UndoStatus(w) ==
    /\ pc[w] = "undoStatus"
    /\ \/ /\ email' = [email EXCEPT !.key = NoKey, !.status =
                          IF kind[w] = "send" THEN seen[w].status ELSE "scheduled"]
          /\ UNCHANGED faults
       \/ Mishap /\ UNCHANGED email
    /\ Goto(w, "quit")
    /\ UNCHANGED <<lease, dataVars, runVars, now, sends>>

-----------------------------------------------------------------------------
(* runBatch, completeSend and closeStalePreparing *)

Enter(w) ==
    /\ pc[w] = "enter"
    /\ IF Sendable(email)
       THEN /\ seen' = [seen EXCEPT ![w] = email]
            /\ key' = [key EXCEPT ![w] = email.key]
            /\ Goto(w, "work")
       ELSE Goto(w, "quit") /\ UNCHANGED <<seen, key>>
    /\ UNCHANGED <<email, lease, dataVars, kind, written, now, sends,
                   faults>>

\* Some of the queued rows, claimed, handed over and settled: accepted or not.
Work(w) ==
    /\ pc[w] = "work"
    /\ \E b \in open[key[w]] :
          /\ open' = [open EXCEPT ![key[w]] = @ \ {b}]
          /\ \/ mails' = [mails EXCEPT ![key[w]][b] = @ + 1]
             \/ UNCHANGED mails
    /\ UNCHANGED <<email, lease, rows, pc, runVars, now, sends, faults>>

\* Nothing queued: complete.  Out of budget, rate limited, parked: leave.
EndWork(w) ==
    /\ pc[w] = "work"
    /\ \/ open[key[w]] = {} /\ Goto(w, "complete") /\ UNCHANGED faults
       \/ open[key[w]] # {} /\ Goto(w, "quit") /\ Mishap
    /\ UNCHANGED <<email, lease, dataVars, runVars, now, sends>>

\* completeSend: from the email as it was read, at the run's start or, in the
\* tick's last phase, before the lease.
Complete(w) ==
    /\ pc[w] = "complete"
    /\ email' = IF Repeats(key[w], seen[w].at)
                THEN [email EXCEPT !.status = "scheduled", !.at = seen[w].at + 1]
                ELSE [email EXCEPT !.status = IF AnyMailed(key[w]) THEN "sent" ELSE "failed"]
    /\ Goto(w, "quit")
    /\ UNCHANGED <<lease, dataVars, runVars, now, sends, faults>>

CloseRows(w) ==
    /\ pc[w] = "closeRows"
    /\ IF key[w] = NoKey THEN UNCHANGED <<rows, open>>
       ELSE /\ rows' = [rows EXCEPT ![key[w]] = {}]
            /\ open' = [open EXCEPT ![key[w]] = {}]
    /\ Goto(w, "closeStatus")
    /\ UNCHANGED <<email, lease, mails, runVars, now, sends, faults>>

CloseStatus(w) ==
    /\ pc[w] = "closeStatus"
    /\ email' = [email EXCEPT !.status = "failed"]
    /\ Goto(w, "quit")
    /\ UNCHANGED <<lease, dataVars, runVars, now, sends, faults>>

-----------------------------------------------------------------------------
(* Auto-pause and Resume (their lease is held for three requests), time and    *)
(* failures.                                                                   *)

Pause ==
    /\ Free /\ Sendable(email)
    /\ Mishap
    /\ email' = [email EXCEPT !.status = "paused"]
    /\ lease' = NoRun
    /\ UNCHANGED <<dataVars, pc, runVars, now, sends>>

Resume ==
    /\ Free /\ email.status = "paused" /\ email.ready /\ email.key # NoKey
    /\ email' = [email EXCEPT !.status = "sending"]
    /\ lease' = NoRun
    /\ UNCHANGED <<dataVars, pc, runVars, now, sends, faults>>

\* Occurrences are a day apart or more; no function lives that long.
TimePasses ==
    /\ now < LastAt
    /\ \A w \in Runs : pc[w] = "off"
    /\ now' = now + 1
    /\ UNCHANGED <<email, lease, dataVars, pc, runVars, sends, faults>>

\* The platform freezes the function: no undo, no `finally`.
Kill(w) ==
    /\ pc[w] # "off"
    /\ Mishap
    /\ End(w)
    /\ UNCHANGED <<email, lease, dataVars, now, sends>>

\* A request outside writeSnapshot's inner `try` fails.
Fail(w) ==
    /\ pc[w] \in {"expect", "first", "enter", "work", "complete", "closeRows", "closeStatus"}
    /\ Mishap
    /\ Goto(w, "quit")
    /\ UNCHANGED <<email, lease, dataVars, runVars, now, sends>>

-----------------------------------------------------------------------------
Step(w) ==
    \/ ReadScheduled(w) \/ WriteRefusal(w) \/ VisitListed(w) \/ PassListed(w)
    \/ Save(w) \/ RefreshTotals(w) \/ Acquire(w) \/ Release(w)
    \/ CheckExpected(w) \/ StartSnapshot(w) \/ CreateRows(w) \/ SetTotal(w)
    \/ UndoRows(w) \/ UndoStatus(w) \/ Enter(w) \/ Work(w) \/ EndWork(w)
    \/ Complete(w) \/ CloseRows(w) \/ CloseStatus(w)

Next ==
    \/ \E w \in Runs :
          \/ PressSend(w) \/ ListDue(w) \/ ListSending(w) \/ ReadForSave(w)
          \/ ReadForTotals(w) \/ Step(w) \/ Kill(w) \/ Fail(w)
    \/ Pause \/ Resume \/ TimePasses

Spec == Init /\ [][Next]_vars

\* A function that is not killed keeps going, and the cron keeps ticking.
FairSpec ==
    /\ Spec
    /\ \A w \in Runs : WF_vars(Step(w))
    /\ SF_vars(\E w \in Runs : ListSending(w))

-----------------------------------------------------------------------------
(* Properties *)

\* Nobody gets one occurrence twice, although two schedulers, and a scheduler
\* that read the email before the occurrence was done and rolled forward, may
\* both enqueue it (spec 2.4, the dedupe_key index).
OccurrenceOnce == \A k \in Keys, b \in Parts : mails[k][b] <= 1

\* Mail goes out only from a whole plan: no run claims while rows are still
\* being written or after their writer died (spec 2.3: total_recipients last).
WholePlanOnly == [][\A k \in Keys : mails'[k] # mails[k] => rows[k] = Parts]_vars

\* Rows that are deleted - an undone snapshot, a send closed while getting ready -
\* were never mailed ("nobody was sent this", email-send-queue.ts:707-711).
DeletedNeverMailed == [][\A k \in Keys :
    ~(rows[k] \subseteq rows'[k]) => ~AnyMailed(k)]_vars

\* A send stuck getting ready does not stay so (spec 2.4).
GettingReady  == email.status = "sending" /\ ~email.ready
PreparingEnds == GettingReady ~> ~GettingReady

=============================================================================
