----------------------------- MODULE SendTotals -----------------------------
(***************************************************************************)
(* The totals of one send and the status derived from them.  They are      *)
(* never counted up: a function that changed recipient rows counts all     *)
(* rows and writes what it counted.  The runs and the tick's third phase   *)
(* do so under the lease (writeCounts, completeSend), the webhook without  *)
(* it (refreshTotals).  A step is one Directus request; the lease is its   *)
(* holder's place, and EmailSendQueue has its detail and that of claim and *)
(* settle.  Suppressed rows count like failed ones; the send does not      *)
(* recur and is not paused.                                                *)
(***************************************************************************)
EXTENDS Naturals, FiniteSets

CONSTANTS
    Recipients,  \* rows of the occurrence
    Calls        \* function invocations

ASSUME TotalsConstants == IsFiniteSet(Recipients)

VARIABLES
    state,    \* hoa_emails.status
    shown,    \* hoa_emails.total_sent, total_failed, total_unknown
    row,      \* hoa_email_recipients.status
    call,     \* each invocation: its place, the status it read, what it counted, its rows,
              \* and whether it promoted rows and has not refreshed the totals yet
    met,      \* (history) totals were written between another's reading and its writing,
              \* at the completion or after it
    cut       \* (history) rows were promoted and their refresh was lost

totalsVars == <<state, shown, row, call, met, cut>>
page == <<state, shown>>

-----------------------------------------------------------------------------
RowStates == {"queued", "claimed", "sent", "failed", "unknown"}
Totals    == {"sent", "failed", "unknown"}
Finished      == {"sent", "failed"}

\* store.counts: one aggregate.
Counts == [s \in RowStates |-> Cardinality({r \in Recipients : row[r] = s})]
\* bug: a claimed row counts as done (FinishedIsTrue).
NothingQueued(c) == c["queued"] = 0
NothingLeft(c) == c["queued"] + c["claimed"] = 0
Shows(c) == [s \in Totals |-> c[s]]
StatusFor(c) == IF c["sent"] >= 1 THEN "sent" ELSE "failed"

NoCounts == [s \in RowStates |-> 0]
Unused == [at |-> "idle", seen |-> "sending", counted |-> NoCounts, hand |-> {}, owes |-> FALSE]

Goes(v, at) == call' = [call EXCEPT ![v].at = at]
Leaves(v) == call' = [call EXCEPT ![v] = Unused]
CountsInto(v, at) == call' = [call EXCEPT ![v].at = at, ![v].counted = Counts]
History == UNCHANGED <<met, cut>>

Working == {"expire", "begin", "work", "settle", "count", "totals"}
Leased  == Working \cup {"complete"}
Unleased == \A v \in Calls : call[v].at \notin Leased

-----------------------------------------------------------------------------
(* runBatch *)

RunStarts(v) ==
    /\ call[v] = Unused /\ Unleased
    /\ state = "sending"
    /\ Goes(v, "expire")
    /\ UNCHANGED <<page, row>> /\ History

\* Claims of dead runs, those that are old enough.
Expires(v) ==
    /\ call[v].at = "expire"
    /\ \E S \in SUBSET {r \in Recipients : row[r] = "claimed"} :
          row' = [r \in Recipients |-> IF r \in S THEN "unknown" ELSE row[r]]
    /\ Goes(v, "begin")
    /\ UNCHANGED page /\ History

\* At its start, and when nothing is queued any more: complete, go on or leave.
CountsLeft(v) ==
    /\ \/ call[v].at = "begin"
       \/ call[v].at = "work" /\ \A r \in Recipients : row[r] # "queued"
    /\ \/ NothingLeft(Counts) /\ CountsInto(v, "complete")
       \/ ~NothingLeft(Counts) /\ call[v].at = "begin" /\ Goes(v, "work")
       \/ ~NothingLeft(Counts) /\ call[v].at = "work" /\ Leaves(v)
    /\ UNCHANGED <<page, row>> /\ History

Claims(v) ==
    /\ call[v].at = "work"
    /\ \E S \in SUBSET {r \in Recipients : row[r] = "queued"} :
          /\ S # {}
          /\ row' = [r \in Recipients |-> IF r \in S THEN "claimed" ELSE row[r]]
          /\ call' = [call EXCEPT ![v].at = "settle", ![v].hand = S]
    /\ UNCHANGED page /\ History

\* What is still claimed gets its outcome, or goes back to the queue.
Settles(v) ==
    /\ call[v].at = "settle"
    /\ \E to \in [call[v].hand -> RowStates \ {"claimed"}] :
          row' = [r \in Recipients |->
                    IF r \in call[v].hand /\ row[r] = "claimed" THEN to[r] ELSE row[r]]
    /\ call' = [call EXCEPT ![v].at = "count", ![v].hand = {}]
    /\ UNCHANGED page /\ History

\* writeCounts
CountsChunk(v) ==
    /\ call[v].at = "count"
    /\ CountsInto(v, "totals")
    /\ UNCHANGED <<page, row>> /\ History

\* Then the next chunk, or, after a 429, the end.
WritesChunk(v) ==
    /\ call[v].at = "totals"
    /\ shown' = Shows(call[v].counted)
    /\ Goes(v, "work") \/ Leaves(v)
    /\ UNCHANGED <<state, row>> /\ History

\* The tick's third phase takes an email it listed as sending, counts, and only then
\* asks for the lease.
Lists(v) ==
    /\ call[v] = Unused /\ state = "sending"
    /\ Goes(v, "listed")
    /\ UNCHANGED <<page, row>> /\ History

CountsListed(v) ==
    /\ call[v].at = "listed"
    /\ IF NothingLeft(Counts) THEN CountsInto(v, "acquire") ELSE Leaves(v)
    /\ UNCHANGED <<page, row>> /\ History

AcquiresToFinish(v) ==
    /\ call[v].at = "acquire"
    /\ IF Unleased THEN Goes(v, "complete") ELSE Leaves(v)
    /\ UNCHANGED <<page, row>> /\ History

\* Who has read and not yet written: the functions about to complete, and the webhook's.
Completing == {v \in Calls : call[v].at \in {"acquire", "complete"}}
Refreshing == {v \in Calls : call[v].at \in {"recount", "refresh"}}

\* completeSend
Completes(v) ==
    /\ call[v].at = "complete"
    /\ shown' = Shows(call[v].counted) /\ state' = StatusFor(call[v].counted)
    /\ met' = (met \/ (Completing \cup Refreshing) \ {v} # {})
    /\ Leaves(v)
    /\ UNCHANGED <<row, cut>>

-----------------------------------------------------------------------------
(* The webhook: for every event it reads the row and, if it is claimed or      *)
(* unknown, writes `sent`; then it refreshes the totals once.                  *)

ReadsRow(v, r) ==
    /\ call[v] = Unused \/ call[v].at = "events"
    /\ row[r] \in {"claimed", "unknown"}
    /\ call' = [call EXCEPT ![v].at = "promote", ![v].hand = {r}]
    /\ UNCHANGED <<page, row>> /\ History

Puts(S, s) == row' = [r \in Recipients |-> IF r \in S THEN s ELSE row[r]]

Promotes(v) ==
    /\ call[v].at = "promote"
    /\ Puts(call[v].hand, "sent")
    /\ call' = [call EXCEPT ![v].at = "events", ![v].hand = {}, ![v].owes = TRUE]
    /\ UNCHANGED page /\ History

\* The write fails, its effect kept or not: the event counts as failed, and the row is
\* not among the promoted.
PromoteFails(v) ==
    /\ call[v].at = "promote"
    /\ \/ Puts(call[v].hand, "sent") /\ cut' = TRUE
       \/ UNCHANGED <<row, cut>>
    /\ call' = [call EXCEPT ![v].at = "events", ![v].hand = {}]
    /\ UNCHANGED <<page, met>>

\* refreshTotals: the email, the counts, the write.
StartsRefresh(v) ==
    /\ call[v].at = "events"
    /\ IF call[v].owes THEN call' = [call EXCEPT ![v].at = "recount", ![v].seen = state]
                       ELSE Leaves(v)
    /\ UNCHANGED <<page, row>> /\ History

Recounts(v) ==
    /\ call[v].at = "recount"
    /\ CountsInto(v, "refresh")
    /\ UNCHANGED <<page, row>> /\ History

\* bug: the status stays as the completion wrote it (FinishedIsTrue).
NeverRederives(s, c) == FALSE
\* Only a finished send has its status derived again.
Rederives(s, c) == s \in Finished /\ NothingLeft(c)

Refreshes(v) ==
    /\ call[v].at = "refresh"
    /\ shown' = Shows(call[v].counted)
    /\ state' = IF Rederives(call[v].seen, call[v].counted) THEN StatusFor(call[v].counted) ELSE state
    /\ met' = (met \/ (Completing \cup (IF state \in Finished THEN Refreshing ELSE {})) \ {v} # {})
    /\ Leaves(v)
    /\ UNCHANGED <<row, cut>>

\* A function is frozen, its request fails, or its budget is spent.  A lost refresh is
\* logged and the events answered 200.
StopsShort(v) ==
    /\ call[v] # Unused
    /\ cut' = (cut \/ call[v].owes)
    /\ Leaves(v)
    /\ UNCHANGED <<page, row, met>>

-----------------------------------------------------------------------------
TotalsInit ==
    /\ state = "sending"
    /\ shown = [s \in Totals |-> 0]
    /\ row = [r \in Recipients |-> "queued"]
    /\ call = [v \in Calls |-> Unused]
    /\ met = FALSE /\ cut = FALSE

RunWorks(v) ==
    \/ RunStarts(v) \/ Expires(v) \/ CountsLeft(v) \/ Claims(v) \/ Settles(v)
    \/ CountsChunk(v) \/ WritesChunk(v)
Finishes(v) == Lists(v) \/ CountsListed(v) \/ AcquiresToFinish(v) \/ Completes(v)
Hears(v) ==
    \/ \E r \in Recipients : ReadsRow(v, r)
    \/ Promotes(v) \/ PromoteFails(v) \/ StartsRefresh(v) \/ Recounts(v) \/ Refreshes(v)

TotalsNext == \E v \in Calls : RunWorks(v) \/ Finishes(v) \/ Hears(v) \/ StopsShort(v)
TotalsSpec == TotalsInit /\ [][TotalsNext]_totalsVars

-----------------------------------------------------------------------------
(* Properties *)

CountsOf == [RowStates -> 0 .. Cardinality(Recipients)]
CallPlaces == Leased \cup {"idle", "listed", "acquire", "promote", "events", "recount", "refresh"}
Invocations == [at : CallPlaces, seen : {"sending"} \cup Finished, counted : CountsOf,
                hand : SUBSET Recipients, owes : BOOLEAN]
TotalsTypeOK ==
    /\ state \in {"sending"} \cup Finished
    /\ shown \in [Totals -> 0 .. Cardinality(Recipients)]
    /\ row \in [Recipients -> RowStates]
    /\ call \in [Calls -> Invocations]
    /\ met \in BOOLEAN /\ cut \in BOOLEAN

\* A finished send shows what its rows say, totals and status, once every webhook call
\* that promoted rows has refreshed them, unless one wrote between another's reading and
\* writing, or a refresh was lost ("the totals follow the rows", activity.post.ts:371).
FinishedTotalsAreTrue ==
    state \in Finished /\ ~met /\ ~cut /\ (\A v \in Calls : ~call[v].owes) =>
        shown = Shows(Counts) /\ state = StatusFor(Counts)

\* Who has finished stays finished, and has nothing queued or claimed, whoever refreshes
\* and whoever completes a second time (email-send-queue.ts:618, 807-821).
FinishedIsWhole == state \in Finished => \A r \in Recipients : row[r] \notin {"queued", "claimed"}

\* So what is written as finished is, and says how (both of these).
FinishedIsTrue == FinishedIsWhole /\ FinishedTotalsAreTrue
=============================================================================
