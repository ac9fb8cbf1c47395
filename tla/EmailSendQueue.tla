--------------------------- MODULE EmailSendQueue ---------------------------
(***************************************************************************)
(* The email send queue (core/server/utils/email-send-queue.ts) working    *)
(* through the rows of ONE occurrence of one email whose snapshot is       *)
(* already written.  Several function invocations (the inline run of the   *)
(* send route, overlapping cron ticks, the health check, Resume) share the *)
(* lease row, the recipient rows and the email row in Directus.  Any of    *)
(* them can be frozen between two requests, and SendGrid's webhook writes  *)
(* the same rows without a lease.                                          *)
(*                                                                         *)
(* A step is one Directus or SendGrid request.  The lease insert is atomic *)
(* (a unique index); a Directus filter-update is two steps, because it     *)
(* first selects the keys and then updates them by primary key.            *)
(***************************************************************************)
EXTENDS Naturals, FiniteSets

CONSTANTS
    Rows,        \* the occurrence's rows; a row is its position
    Runs,        \* function invocations; a run's identity is its lease token
    NoRun,       \* no lease / no claim
    Chunk,       \* CHUNK: rows claimed at a time
    Stale,       \* STALE_MS: a lease or claim older than this is a dead run's
    MaxRun,      \* the function's hard stop: no invocation is older
    Budget,      \* a run this old claims nothing more
    MaxFaults,   \* bound on kills, failed requests, 429s, pauses and slow runs
    OptOuts      \* rows whose member may opt out or bounce during the send

ASSUME ConstantsAssumption ==
    /\ Rows \subseteq Nat
    /\ NoRun \notin Runs
    /\ Chunk \in Nat \ {0}
    /\ Stale \in Nat
    /\ MaxRun \in Nat
    /\ Budget \in Nat
    /\ MaxFaults \in Nat
    /\ OptOuts \subseteq Rows

\* STALE_MS outlives every invocation (spec 4.1: maxDuration 60 s, 180 s stale).
ASSUME StaleAssumption == MaxRun <= Stale

VARIABLES
    status,      \* hoa_emails.status
    lease,       \* token of the hoa_email_send_leases row, or NoRun
    leaseAge,    \* time since its started_at
    rowStatus,   \* hoa_email_recipients.status
    claim,       \* hoa_email_recipients.claim, while claimed
    claimAge,    \* time since claimed_at, while claimed
    pc,          \* where each invocation is
    kind,        \* which function it runs
    runAge,      \* time since it started
    held,        \* the stale lease it read and is about to delete
    sel,         \* the row keys its current filter-update selected
    plan,        \* what its current chunk will do, or has done, with each row
    limited,     \* rateLimited
    seen,        \* its last counts read: was a row sent
    hook,        \* rows a webhook call has read and is about to promote
    optedOut,    \* rows whose member can no longer be mailed
    outAtClaim,  \* of those, the ones already out when last claimed (history)
    mails,       \* messages SendGrid accepted per row (history)
    faults       \* mishaps so far

leaseVars == <<lease, leaseAge, held>>
rowVars   == <<rowStatus, claim, claimAge>>
chunkVars == <<sel, plan, limited, seen>>
extVars   == <<hook, optedOut>>
histVars  == <<outAtClaim, mails>>
vars == <<status, leaseVars, rowVars, pc, kind, runAge, chunkVars, extVars,
          histVars, faults>>

-----------------------------------------------------------------------------
RowStatuses == {"queued", "claimed", "sent", "failed", "suppressed", "unknown"}
Outcomes    == {"failed", "unknown", "suppressed"}   \* settled only where still claimed
Plans       == {"none", "ready", "todo", "back", "sent"} \cup Outcomes
Kinds       == {"batch", "health", "resume", "finish"}

\* Places before the lease, inside a chunk, and with the lease in hand.
Acquiring == {"start", "readLease", "breakLease", "retry"}
InChunk   == {"claim", "claimWrite", "readBack", "recheck", "deliver",
              "settle", "settleWrite", "releaseWrite", "abandon", "abandonWrite"}
Leased    == {"entry", "expire", "expireWrite", "first", "loop", "count",
              "complete", "move", "leave", "quit"} \cup InChunk
Live      == Acquiring \cup Leased \cup {"list"}

Ages == 0 .. Stale + 1
Older(age) == IF age > Stale THEN age ELSE age + 1

TypeOK ==
    /\ status \in {"sending", "paused", "sent", "failed"}
    /\ lease \in Runs \cup {NoRun}
    /\ leaseAge \in Ages
    /\ rowStatus \in [Rows -> RowStatuses]
    /\ claim \in [Rows -> Runs \cup {NoRun}]
    /\ claimAge \in [Rows -> Ages]
    /\ pc \in [Runs -> Live \cup {"off"}]
    /\ kind \in [Runs -> Kinds]
    /\ runAge \in [Runs -> Nat]
    /\ held \in [Runs -> Runs \cup {NoRun}]
    /\ sel \in [Runs -> SUBSET Rows]
    /\ plan \in [Runs -> [Rows -> Plans]]
    /\ limited \in [Runs -> BOOLEAN]
    /\ seen \in [Runs -> BOOLEAN]
    /\ hook \subseteq Rows
    /\ optedOut \subseteq Rows
    /\ outAtClaim \subseteq Rows
    /\ mails \in [Rows -> Nat]
    /\ faults \in Nat

NoPlan == [r \in Rows |-> "none"]

Init ==
    /\ status = "sending"
    /\ lease = NoRun
    /\ leaseAge = 0
    /\ rowStatus = [r \in Rows |-> "queued"]
    /\ claim = [r \in Rows |-> NoRun]
    /\ claimAge = [r \in Rows |-> 0]
    /\ pc = [w \in Runs |-> "off"]
    /\ kind = [w \in Runs |-> "batch"]
    /\ runAge = [w \in Runs |-> 0]
    /\ held = [w \in Runs |-> NoRun]
    /\ sel = [w \in Runs |-> {}]
    /\ plan = [w \in Runs |-> NoPlan]
    /\ limited = [w \in Runs |-> FALSE]
    /\ seen = [w \in Runs |-> FALSE]
    /\ hook = {}
    /\ optedOut = {}
    /\ outAtClaim = {}
    /\ mails = [r \in Rows |-> 0]
    /\ faults = 0

-----------------------------------------------------------------------------
Goto(w, next) == pc' = [pc EXCEPT ![w] = next]

\* It ends at `off`; anywhere else it goes on.
EndOrGoto(w, next) ==
    /\ Goto(w, next)
    /\ IF next = "off" THEN kind' = [kind EXCEPT ![w] = "batch"] /\ runAge' = [runAge EXCEPT ![w] = 0]
                       ELSE UNCHANGED <<kind, runAge>>

\* Its memory of chunks and counts goes with it.
Forget(w) ==
    /\ sel' = [sel EXCEPT ![w] = {}]
    /\ plan' = [plan EXCEPT ![w] = NoPlan]
    /\ limited' = [limited EXCEPT ![w] = FALSE]
    /\ seen' = [seen EXCEPT ![w] = FALSE]

\* Variants named "bug:" are what a plausible slip in the code would do; no
\* specification uses them, and each breaks the property named beside it.

\* bug: failed rows are picked up again (ClosedStaysClosed).
QueuedOrFailed == {r \in Rows : rowStatus[r] \in {"queued", "failed"}}

Queued       == {r \in Rows : rowStatus[r] = "queued"}
ClaimedBy(w) == {r \in Rows : rowStatus[r] = "claimed" /\ claim[r] = w}
Pending      == {r \in Rows : rowStatus[r] \in {"queued", "claimed"}}
AnySent      == \E r \in Rows : rowStatus[r] = "sent"
Planned(w, p) == {r \in Rows : plan[w][r] = p}

\* bug: a claimed row does not keep a send open (FinishedMeansDone).
NoneQueued  == Queued = {}
\* counts: nothing queued and nothing claimed.
NothingLeft == Pending = {}

\* bug: an age of STALE_MS is stale already (SingleWriter).
StaleTooEarly(age) == age >= Stale
\* bug: a dead run is never presumed dead (SendEnds).
NeverStale(age) == FALSE
\* Older than STALE_MS: the run that left this lease or claim is dead.
IsStale(age) == age > Stale

\* bug: the claimed members are not looked up again (OptOutRespected).
NotLookedUp(r) == FALSE
\* suppressionReason in the live read of a claimed member.
Suppressed(r) == r \in optedOut

\* bug: a timeout counts as a failure (RowsTellTheTruth) ...
TimeoutFails == {"sent", "failed"}
\* ... or as a reason to try again (AtMostOnce).
TimeoutRetried == {"sent", "back"}
\* What deliverOnce concludes when SendGrid took the message: the answer came
\* back, or it was lost.
IfAccepted == {"sent", "unknown"}
\* And when it did not: an answer that says so, or none.
IfNotAccepted == {"failed", "unknown"}

\* The by-key write of a filter-update (claimed_at starts at the write).
Set(S, new, token) ==
    /\ rowStatus' = [r \in Rows |-> IF r \in S THEN new ELSE rowStatus[r]]
    /\ claim' = [r \in Rows |-> IF r \in S THEN token ELSE claim[r]]
    /\ claimAge' = [r \in Rows |-> IF r \in S THEN 0 ELSE claimAge[r]]

\* The next CHUNK queued rows in position order.
NextChunk == {r \in Queued : Cardinality({q \in Queued : q < r}) < Chunk}

\* A fresh token: one that no lease, no claim and no reader still refers to.
Fresh(w) ==
    /\ pc[w] = "off"
    /\ lease # w
    /\ ClaimedBy(w) = {}
    /\ \A v \in Runs : held[v] # w

-----------------------------------------------------------------------------
(* Invocations start: runBatch from the inline run or a tick that listed   *)
(* the email as `sending`; the tick's third phase, which completes a send  *)
(* the runs did not reach; and the Resume route.                           *)

StartBatch(w) ==
    /\ Fresh(w)
    /\ status = "sending"
    /\ Goto(w, "start")
    /\ kind' = [kind EXCEPT ![w] = "batch"]
    /\ UNCHANGED <<status, leaseVars, rowVars, runAge, chunkVars, extVars,
                   histVars, faults>>

StartFinish(w) ==
    /\ Fresh(w)
    /\ status = "sending"
    /\ Goto(w, "list")
    /\ kind' = [kind EXCEPT ![w] = "finish"]
    /\ UNCHANGED <<status, leaseVars, rowVars, runAge, chunkVars, extVars,
                   histVars, faults>>

StartResume(w) ==
    /\ Fresh(w)
    /\ status = "paused"
    /\ Goto(w, "start")
    /\ kind' = [kind EXCEPT ![w] = "resume"]
    /\ UNCHANGED <<status, leaseVars, rowVars, runAge, chunkVars, extVars,
                   histVars, faults>>

\* The third phase reads the counts before it takes the lease.
CountUnvisited(w) ==
    /\ pc[w] = "list"
    /\ EndOrGoto(w, IF NothingLeft THEN "start" ELSE "off")
    /\ seen' = [seen EXCEPT ![w] = NothingLeft /\ AnySent]
    /\ UNCHANGED <<status, leaseVars, rowVars, sel, plan, limited, extVars, histVars,
                   faults>>

-----------------------------------------------------------------------------
(* acquireLease, one request at a time. *)

\* insertLease: the unique index lets one row per email in.
InsertLease(w, otherwise) ==
    IF lease = NoRun
    THEN /\ lease' = w
         /\ leaseAge' = 0
         /\ EndOrGoto(w, "entry")
    ELSE /\ EndOrGoto(w, otherwise)
         /\ UNCHANGED <<lease, leaseAge>>

TryLease(w) ==
    /\ pc[w] = "start"
    /\ InsertLease(w, "readLease")
    /\ UNCHANGED <<status, held, rowVars, chunkVars, extVars, histVars, faults>>

\* Released meanwhile: try again.  Stale: break it.  Otherwise: busy.
ReadLease(w) ==
    /\ pc[w] = "readLease"
    /\ LET next == IF lease = NoRun THEN "retry"
                   ELSE IF IsStale(leaseAge) THEN "breakLease" ELSE "off"
       IN  /\ EndOrGoto(w, next)
           /\ held' = IF next = "breakLease" THEN [held EXCEPT ![w] = lease] ELSE held
    /\ UNCHANGED <<status, lease, leaseAge, rowVars, chunkVars, extVars, histVars,
                   faults>>

\* deleteLease by id and token: a no-op when another breaker got there first.
BreakLease(w) ==
    /\ pc[w] = "breakLease"
    /\ lease' = IF lease = held[w] THEN NoRun ELSE lease
    /\ leaseAge' = IF lease = held[w] THEN 0 ELSE leaseAge
    /\ held' = [held EXCEPT ![w] = NoRun]
    /\ Goto(w, "retry")
    /\ UNCHANGED <<status, rowVars, kind, runAge, chunkVars, extVars, histVars, faults>>

RetryLease(w) ==
    /\ pc[w] = "retry"
    /\ InsertLease(w, "off")
    /\ UNCHANGED <<status, held, rowVars, chunkVars, extVars, histVars, faults>>

\* The `finally`: the lease row goes.  A tick then checks the health of a send
\* its run left unfinished, in the same invocation and under a new lease.
ReleaseLease(w) ==
    /\ pc[w] \in {"leave", "quit"}
    /\ lease' = IF lease = w THEN NoRun ELSE lease
    /\ leaseAge' = IF lease = w THEN 0 ELSE leaseAge
    /\ \/ EndOrGoto(w, "off")
       \/ /\ pc[w] = "leave"
          /\ Goto(w, "start")
          /\ kind' = [kind EXCEPT ![w] = "health"]
          /\ UNCHANGED runAge
    /\ Forget(w)
    /\ UNCHANGED <<status, held, rowVars, extVars, histVars, faults>>

-----------------------------------------------------------------------------
(* What each function does first, once it has the lease. *)

\* bug: the email read before the lease is trusted (PausedMeansStopped).
EnterWithoutReading(w) ==
    /\ pc[w] = "entry" /\ kind[w] = "batch"
    /\ Goto(w, "expire")
    /\ UNCHANGED <<status, leaseVars, rowVars, kind, runAge, chunkVars, extVars,
                   histVars, faults>>

\* runBatch re-reads the email and leaves unless it is still sending.
EnterBatch(w) ==
    /\ pc[w] = "entry" /\ kind[w] = "batch"
    /\ Goto(w, IF status = "sending" THEN "expire" ELSE "quit")
    /\ UNCHANGED <<status, leaseVars, rowVars, kind, runAge, chunkVars, extVars,
                   histVars, faults>>

\* checkSendHealth: over a line it will pause the send.  Each verdict needs
\* SEND_HEALTH.minOutcomes new events, so there are finitely many of them.
EnterHealth(w) ==
    /\ pc[w] = "entry" /\ kind[w] = "health"
    /\ \/ Goto(w, "quit") /\ UNCHANGED faults
       \/ /\ status = "sending" /\ faults < MaxFaults
          /\ faults' = faults + 1
          /\ Goto(w, "move")
    /\ UNCHANGED <<status, leaseVars, rowVars, kind, runAge, chunkVars, extVars,
                   histVars>>

EnterResume(w) ==
    /\ pc[w] = "entry" /\ kind[w] = "resume"
    /\ Goto(w, IF status = "paused" THEN "move" ELSE "quit")
    /\ UNCHANGED <<status, leaseVars, rowVars, kind, runAge, chunkVars, extVars,
                   histVars, faults>>

\* The tick's third phase reads nothing again.
EnterFinish(w) ==
    /\ pc[w] = "entry" /\ kind[w] = "finish"
    /\ Goto(w, "complete")
    /\ UNCHANGED <<status, leaseVars, rowVars, kind, runAge, chunkVars, extVars,
                   histVars, faults>>

\* moveEmail: sending -> paused, or paused -> sending, where it still applies.
MoveEmail(w) ==
    /\ pc[w] = "move"
    /\ LET from == IF kind[w] = "health" THEN "sending" ELSE "paused"
           to   == IF kind[w] = "health" THEN "paused" ELSE "sending"
       IN  status' = IF status = from THEN to ELSE status
    /\ Goto(w, "quit")
    /\ UNCHANGED <<leaseVars, rowVars, kind, runAge, chunkVars, extVars, histVars,
                   faults>>

-----------------------------------------------------------------------------
(* runBatch: expire, count, then chunk after chunk. *)

\* expire: claims older than STALE_MS belong to a dead run ...
ExpireSelect(w) ==
    /\ pc[w] = "expire"
    /\ sel' = [sel EXCEPT ![w] = {r \in Rows : /\ rowStatus[r] = "claimed"
                                               /\ IsStale(claimAge[r])}]
    /\ Goto(w, "expireWrite")
    /\ UNCHANGED <<status, leaseVars, rowVars, kind, runAge, plan, limited, seen,
                   extVars, histVars, faults>>

\* bug: a dead run's rows are queued again (KeepsPromise).
ExpireToQueued(w) ==
    /\ pc[w] = "expireWrite"
    /\ Set(sel[w], "queued", NoRun)
    /\ sel' = [sel EXCEPT ![w] = {}]
    /\ Goto(w, "first")
    /\ UNCHANGED <<status, leaseVars, kind, runAge, plan, limited, seen, extVars,
                   histVars, faults>>

\* ... and are closed as `unknown`: never resent.
ExpireWrite(w) ==
    /\ pc[w] = "expireWrite"
    /\ Set(sel[w], "unknown", NoRun)
    /\ sel' = [sel EXCEPT ![w] = {}]
    /\ Goto(w, "first")
    /\ UNCHANGED <<status, leaseVars, kind, runAge, plan, limited, seen, extVars,
                   histVars, faults>>

\* The counts before the first chunk: nothing left completes the send, and
\* otherwise load() readies the run, or parks it.
FirstCounts(w) ==
    /\ pc[w] = "first"
    /\ \/ /\ Goto(w, IF NothingLeft THEN "complete" ELSE "loop")
          /\ seen' = [seen EXCEPT ![w] = NothingLeft /\ AnySent]
          /\ UNCHANGED faults
       \/ /\ ~NothingLeft /\ faults < MaxFaults
          /\ faults' = faults + 1
          /\ Goto(w, "leave")
          /\ UNCHANGED seen
    /\ UNCHANGED <<status, leaseVars, rowVars, kind, runAge, sel, plan, limited,
                   extVars, histVars>>

\* Stop on the budget; else read the next rows and render them, or find none.
ReadQueued(w) ==
    /\ pc[w] = "loop"
    /\ IF runAge[w] >= Budget
       THEN Goto(w, "leave") /\ UNCHANGED plan
       ELSE /\ Goto(w, IF Queued = {} THEN "count" ELSE "claim")
            /\ plan' = [plan EXCEPT ![w] =
                  [r \in Rows |-> IF r \in NextChunk THEN "ready" ELSE "none"]]
    /\ UNCHANGED <<status, leaseVars, rowVars, kind, runAge, sel, limited, seen,
                   extVars, histVars, faults>>

\* claim: the filter-update on (id in chunk, status = queued), in its two halves.
ClaimSelect(w) ==
    /\ pc[w] = "claim"
    /\ sel' = [sel EXCEPT ![w] = Planned(w, "ready") \cap Queued]
    /\ Goto(w, "claimWrite")
    /\ UNCHANGED <<status, leaseVars, rowVars, kind, runAge, plan, limited, seen,
                   extVars, histVars, faults>>

ClaimWrite(w) ==
    /\ pc[w] = "claimWrite"
    /\ Set(sel[w], "claimed", w)
    /\ sel' = [sel EXCEPT ![w] = {}]
    /\ outAtClaim' = (outAtClaim \ sel[w]) \cup (sel[w] \cap optedOut)
    /\ Goto(w, "readBack")
    /\ UNCHANGED <<status, leaseVars, kind, runAge, plan, limited, seen, extVars,
                   mails, faults>>

\* The read-back by token: what the run will deliver from.
ReadBack(w) ==
    /\ pc[w] = "readBack"
    /\ sel' = [sel EXCEPT ![w] = ClaimedBy(w)]
    /\ Goto(w, "recheck")
    /\ UNCHANGED <<status, leaseVars, rowVars, kind, runAge, plan, limited, seen,
                   extVars, histVars, faults>>

\* One live read of the claimed members: a row not in this chunk's render goes
\* back, one that would not render or whose member is gone fails, one whose
\* member is suppressed by now is suppressed, the rest are delivered.
Recheck(w) ==
    /\ pc[w] = "recheck"
    /\ \E bad \in SUBSET sel[w] :
          plan' = [plan EXCEPT ![w] = [r \in Rows |->
              IF r \notin sel[w] THEN "none"
              ELSE IF plan[w][r] # "ready" THEN "back"
              ELSE IF r \in bad THEN "failed"
              ELSE IF Suppressed(r) THEN "suppressed" ELSE "todo"]]
    /\ sel' = [sel EXCEPT ![w] = {}]
    /\ Goto(w, "deliver")
    /\ UNCHANGED <<status, leaseVars, rowVars, kind, runAge, limited, seen, extVars,
                   histVars, faults>>

\* deliverOnce for one row, and what SendGrid did with it: accepted, accepted
\* with the answer lost, never arrived, refused, or 429 three times over.  429
\* and 5xx mean "not processed" by SendGrid's contract.
Deliver(w, r) ==
    /\ pc[w] = "deliver" /\ plan[w][r] = "todo"
    /\ \/ /\ \E p \in IfAccepted : plan' = [plan EXCEPT ![w][r] = p]
          /\ mails' = [mails EXCEPT ![r] = @ + 1]
          /\ UNCHANGED <<limited, faults>>
       \/ /\ \E p \in IfNotAccepted : plan' = [plan EXCEPT ![w][r] = p]
          /\ UNCHANGED <<mails, limited, faults>>
       \/ /\ faults < MaxFaults
          /\ faults' = faults + 1
          /\ plan' = [plan EXCEPT ![w][r] = "back"]
          /\ limited' = [limited EXCEPT ![w] = TRUE]
          /\ UNCHANGED mails
    /\ UNCHANGED <<status, leaseVars, rowVars, pc, kind, runAge, sel, seen, extVars,
                   outAtClaim>>

\* Every worker is done: all rows tried, or a 429 stopped the pick-up.
EndDeliver(w) ==
    /\ pc[w] = "deliver"
    /\ Planned(w, "todo") = {} \/ limited[w]
    /\ plan' = [plan EXCEPT ![w] = [r \in Rows |->
          IF plan[w][r] = "todo" THEN "back" ELSE plan[w][r]]]
    /\ Goto(w, "settle")
    /\ UNCHANGED <<status, leaseVars, rowVars, kind, runAge, sel, limited, seen,
                   extVars, histVars, faults>>

\* settle: `sent` first, by id, whatever the row says now.
SettleSent(w) ==
    /\ pc[w] = "settle" /\ Planned(w, "sent") # {}
    /\ Set(Planned(w, "sent"), "sent", NoRun)
    /\ plan' = [plan EXCEPT ![w] = [r \in Rows |->
          IF plan[w][r] = "sent" THEN "none" ELSE plan[w][r]]]
    /\ UNCHANGED <<status, leaseVars, pc, kind, runAge, sel, limited, seen, extVars,
                   histVars, faults>>

\* Then failed, unknown and suppressed, in that order.
NextOutcome(w, p) ==
    /\ p \in Outcomes /\ Planned(w, p) # {}
    /\ Planned(w, "sent") = {}
    /\ p # "failed" => Planned(w, "failed") = {}
    /\ p = "suppressed" => Planned(w, "unknown") = {}

\* Each only where the row is still claimed ...
SettleSelect(w) ==
    /\ pc[w] = "settle"
    /\ \E p \in Outcomes :
          /\ NextOutcome(w, p)
          /\ sel' = [sel EXCEPT ![w] = {r \in Planned(w, p) : rowStatus[r] = "claimed"}]
    /\ Goto(w, "settleWrite")
    /\ UNCHANGED <<status, leaseVars, rowVars, kind, runAge, plan, limited, seen,
                   extVars, histVars, faults>>

\* ... when the filter was read.
SettleWrite(w) ==
    /\ pc[w] = "settleWrite"
    /\ \E p \in Outcomes :
          /\ NextOutcome(w, p)
          /\ Set(sel[w], p, NoRun)
          /\ plan' = [plan EXCEPT ![w] = [r \in Rows |->
                IF plan[w][r] = p THEN "none" ELSE plan[w][r]]]
    /\ sel' = [sel EXCEPT ![w] = {}]
    /\ Goto(w, "settle")
    /\ UNCHANGED <<status, leaseVars, kind, runAge, limited, seen, extVars, histVars,
                   faults>>

\* After a 429 the run ends; otherwise it goes round again.
AfterChunk(w) == IF limited[w] THEN "leave" ELSE "loop"

\* Everything settled: rows never handed over, and the one SendGrid turned
\* away, are released.
SettleEnd(w) ==
    /\ pc[w] = "settle"
    /\ \A r \in Rows : plan[w][r] \in {"none", "back"}
    /\ sel' = [sel EXCEPT ![w] = Planned(w, "back") \cap ClaimedBy(w)]
    /\ Goto(w, IF Planned(w, "back") = {} THEN AfterChunk(w) ELSE "releaseWrite")
    /\ UNCHANGED <<status, leaseVars, rowVars, kind, runAge, plan, limited, seen,
                   extVars, histVars, faults>>

\* A failure between the read-back and the first delivery gives the chunk back.
AbandonSelect(w) ==
    /\ pc[w] = "abandon"
    /\ sel' = [sel EXCEPT ![w] = ClaimedBy(w)]
    /\ Goto(w, "abandonWrite")
    /\ UNCHANGED <<status, leaseVars, rowVars, kind, runAge, plan, limited, seen,
                   extVars, histVars, faults>>

\* release: the selected rows are queued again.
ReleaseRows(w) ==
    /\ pc[w] \in {"releaseWrite", "abandonWrite"}
    /\ Set(sel[w], "queued", NoRun)
    /\ sel' = [sel EXCEPT ![w] = {}]
    /\ plan' = [plan EXCEPT ![w] = NoPlan]
    /\ Goto(w, IF pc[w] = "releaseWrite" THEN AfterChunk(w) ELSE "leave")
    /\ UNCHANGED <<status, leaseVars, kind, runAge, limited, seen, extVars, histVars,
                   faults>>

\* No queued row was found: is anything still claimed?
LastCounts(w) ==
    /\ pc[w] = "count"
    /\ Goto(w, IF NothingLeft THEN "complete" ELSE "leave")
    /\ seen' = [seen EXCEPT ![w] = NothingLeft /\ AnySent]
    /\ UNCHANGED <<status, leaseVars, rowVars, kind, runAge, sel, plan, limited,
                   extVars, histVars, faults>>

\* completeSend, from the counts read before.
CompleteSend(w) ==
    /\ pc[w] = "complete"
    /\ status' = IF seen[w] THEN "sent" ELSE "failed"
    /\ Goto(w, "quit")
    /\ UNCHANGED <<leaseVars, rowVars, kind, runAge, chunkVars, extVars, histVars,
                   faults>>

-----------------------------------------------------------------------------
(* The webhook: an event exists only for a message SendGrid accepted.      *)

\* It reads the row, and only a claimed or unknown one is worth a promotion ...
WebhookRead(r) ==
    /\ mails[r] > 0 /\ r \notin hook
    /\ rowStatus[r] \in {"claimed", "unknown"}
    /\ hook' = hook \cup {r}
    /\ UNCHANGED <<status, leaseVars, rowVars, pc, kind, runAge, chunkVars, optedOut,
                   histVars, faults>>

\* bug: the event's own name is stored as the row's status (TypeOK).
WriteEventName(r) ==
    /\ r \in hook
    /\ hook' = hook \ {r}
    /\ Set({r}, "delivered", NoRun)
    /\ UNCHANGED <<status, leaseVars, pc, kind, runAge, chunkVars, optedOut,
                   histVars, faults>>

\* ... which it writes later, by id.
WebhookWrite(r) ==
    /\ r \in hook
    /\ hook' = hook \ {r}
    /\ Set({r}, "sent", NoRun)
    /\ UNCHANGED <<status, leaseVars, pc, kind, runAge, chunkVars, optedOut,
                   histVars, faults>>

\* A member unsubscribes, bounces or is removed.
OptOut(r) ==
    /\ r \in OptOuts \ optedOut
    /\ optedOut' = optedOut \cup {r}
    /\ UNCHANGED <<status, leaseVars, rowVars, pc, kind, runAge, chunkVars, hook,
                   histVars, faults>>

-----------------------------------------------------------------------------
(* Time and failures. *)

LiveRuns == {w \in Runs : pc[w] # "off"}

\* Nobody could be claiming: nothing runs, a dead run holds the lease, or no
\* row is queued.
Waiting == LiveRuns = {} \/ Queued = {} \/ (lease \in Runs /\ pc[lease] = "off")

\* Time passes.  No invocation outlives its hard stop, and a unit of time that
\* goes by while one could be claiming is a slow run, one of the mishaps.
Tick ==
    /\ \A w \in LiveRuns : runAge[w] < MaxRun
    /\ \/ Waiting /\ UNCHANGED faults
       \/ ~Waiting /\ faults < MaxFaults /\ faults' = faults + 1
    /\ leaseAge' = IF lease = NoRun THEN 0 ELSE Older(leaseAge)
    /\ claimAge' = [r \in Rows |->
          IF rowStatus[r] = "claimed" THEN Older(claimAge[r]) ELSE 0]
    /\ runAge' = [w \in Runs |-> IF pc[w] = "off" THEN 0 ELSE runAge[w] + 1]
    /\ UNCHANGED <<status, lease, held, rowStatus, claim, pc, kind, chunkVars,
                   extVars, histVars>>

\* The platform freezes the function: nothing after this point runs, not even
\* the `finally`.  (Failing to delete the lease at the end looks the same.)
Kill(w) ==
    /\ pc[w] # "off"
    /\ faults < MaxFaults
    /\ faults' = faults + 1
    /\ EndOrGoto(w, "off")
    /\ held' = [held EXCEPT ![w] = NoRun]
    /\ Forget(w)
    /\ UNCHANGED <<status, lease, leaseAge, rowVars, extVars, histVars>>

\* A Directus request fails, after retryBusy where it is used.  Before the lease
\* the function is over.  claim() itself is outside the inner `try`; from the
\* read-back to the first delivery the chunk is released, if that succeeds.
Fail(w) ==
    /\ pc[w] \in Leased \ {"deliver", "leave", "quit"}
    /\ faults < MaxFaults
    /\ faults' = faults + 1
    /\ Goto(w, IF pc[w] = "recheck" THEN "abandon"
               ELSE IF pc[w] \in {"abandon", "abandonWrite"} THEN "leave" ELSE "quit")
    /\ UNCHANGED <<status, leaseVars, rowVars, kind, runAge, chunkVars, extVars,
                   histVars>>

-----------------------------------------------------------------------------
Start(w) == StartBatch(w) \/ StartFinish(w) \/ StartResume(w)

\* The next request of an invocation that is running.
Step(w) ==
    \/ CountUnvisited(w) \/ TryLease(w) \/ ReadLease(w) \/ BreakLease(w)
    \/ RetryLease(w) \/ ReleaseLease(w)
    \/ EnterBatch(w) \/ EnterHealth(w) \/ EnterResume(w) \/ EnterFinish(w)
    \/ MoveEmail(w) \/ ExpireSelect(w) \/ ExpireWrite(w) \/ FirstCounts(w)
    \/ ReadQueued(w) \/ ClaimSelect(w) \/ ClaimWrite(w) \/ ReadBack(w)
    \/ Recheck(w) \/ EndDeliver(w) \/ SettleSent(w) \/ SettleSelect(w)
    \/ SettleWrite(w) \/ SettleEnd(w) \/ AbandonSelect(w) \/ ReleaseRows(w)
    \/ LastCounts(w) \/ CompleteSend(w)
    \/ \E r \in Rows : Deliver(w, r)

Webhook == \E r \in Rows : WebhookRead(r) \/ WebhookWrite(r)

Next ==
    \/ \E w \in Runs : Start(w) \/ Step(w) \/ Kill(w) \/ Fail(w)
    \/ Webhook
    \/ \E r \in Rows : OptOut(r)
    \/ Tick

Spec == Init /\ [][Next]_vars

\* A function that is not killed keeps going, the cron keeps ticking and a tick
\* runs the sending emails before anything else, and time passes whatever runs.
Fairness ==
    /\ \A w \in Runs : WF_vars(Step(w))
    /\ SF_vars(\E w \in Runs : StartBatch(w))
    /\ SF_vars(Tick)

FairSpec == Spec /\ Fairness

-----------------------------------------------------------------------------
(* Properties *)

\* No resident's message is accepted by SendGrid twice, whatever dies, fails or
\* overlaps (email-send-queue.ts:6-8, spec 3.4).
AtMostOnce == \A r \in Rows : mails[r] <= 1

\* What the rows say is true: `sent` only what SendGrid took, and what SendGrid
\* took is never shown as failed, suppressed or still waiting.
RowsTellTheTruth == \A r \in Rows :
    /\ rowStatus[r] = "sent" => mails[r] = 1
    /\ mails[r] = 1 => rowStatus[r] \in {"claimed", "sent", "unknown"}

\* One writer: never two live functions past acquireLease for one email, even
\* with stale leases being broken (spec 3.1).
SingleWriter == \A v, w \in Runs :
    pc[v] \in Leased /\ pc[w] \in Leased => v = w

\* A send is written as over only when nothing is queued or claimed, also by the
\* tick's third phase, whose counts are older than its lease (spec 5.2).
FinishedMeansDone == status \in {"sent", "failed"} => Pending = {}

\* While a send is paused nobody is working on a chunk of it: a pause lands
\* between two runs, never inside one (email-send-health.ts:60-102).
PausedMeansStopped == status = "paused" => \A w \in Runs : pc[w] \notin InChunk

\* Someone who was out when their row was claimed gets nothing: the recheck
\* comes after the claim (spec 6.2).
OptOutRespected == \A r \in outAtClaim : mails[r] = 0

\* A row the queue has closed stays closed: it is never claimed, queued or
\* mailed again, by any run (spec 3.4: "never touches it again").
ClosedStaysClosed == [][\A r \in Rows :
    rowStatus[r] \notin {"queued", "claimed"} =>
        /\ rowStatus'[r] \notin {"queued", "claimed"}
        /\ mails'[r] = mails[r]]_vars

\* The queue keeps the promise of the abstract specification.
Promise == INSTANCE AtMostOnceSend WITH
    open     <- Pending,
    mailed   <- {r \in Rows : mails[r] > 0},
    finished <- status \in {"sent", "failed"}
KeepsPromise == Promise!Spec

\* Every send ends or waits for a person: kills, failures and 429s delay it, a
\* dead run's lease and claims do not block it for ever.
SendEnds == (status = "sending") ~> (status # "sending")

=============================================================================
