----------------------------- MODULE DataExport -----------------------------
(***************************************************************************)
(* The Data Trust export: communities queue a row of hoa_data_exports      *)
(* (org/export/index.post.ts) and scripts/data-export-worker.ts builds the *)
(* archives.  A step is one request to Directus, or the building of one    *)
(* archive.  Runs of the worker never overlap (the workflow's concurrency  *)
(* group) and are stopped after an hour, well before a job counts as       *)
(* stale; what the archive contains, and the runs by hand, are left out.   *)
(***************************************************************************)
EXTENDS Integers, Sequences

CONSTANTS
    Communities,
    MaxExports,      \* bound: rows
    MaxAsks,         \* bound: requests of one community at once
    MaxJobs,         \* archives built in one run (--max)
    MaxExportFaults  \* bound: failed requests and killed runs

ASSUME ExportBounds == {MaxExports, MaxAsks, MaxJobs, MaxExportFaults} \subseteq Nat

VARIABLES
    jobs,      \* hoa_data_exports, in the order of date_created
    archives,  \* jobs whose archive is stored
    asked,     \* requests that found nothing in flight and have yet to queue a row
    builder,   \* the worker's run: its place, the rows it listed, the one in hand
    exportFaults

exportVars == <<jobs, archives, asked, builder, exportFaults>>

Asleep == [at |-> "asleep", rows |-> {}, job |-> 0, built |-> 0]
Stages == {"asleep", "purge", "expire", "mark", "fail", "claim",
           "open", "build", "ready", "giveUp"}

ExportInit ==
    /\ jobs = <<>> /\ archives = {}
    /\ asked = [c \in Communities |-> 0]
    /\ builder = Asleep
    /\ exportFaults = 0

\* `old' is six hours after date_started of a running job, and expires_at of a
\* ready one.
Queued(c) == [of |-> c, status |-> "queued", old |-> FALSE]
InFlight(c) ==
    \E x \in DOMAIN jobs : jobs[x].of = c /\ jobs[x].status \in {"queued", "running"}
Room == Len(jobs) < MaxExports

WithStatus(x, s) == [jobs EXCEPT ![x].status = s, ![x].old = FALSE]
Having(s) == {x \in DOMAIN jobs : jobs[x].status = s}
Fine == UNCHANGED exportFaults
Fault == exportFaults < MaxExportFaults /\ exportFaults' = exportFaults + 1

\* A write that is answered, takes effect without an answer, or has no effect.
Write(x, s) ==
    \/ jobs' = WithStatus(x, s) /\ Fine
    \/ Fault /\ (UNCHANGED jobs \/ jobs' = WithStatus(x, s))

-----------------------------------------------------------------------------
(* The request *)

\* One at a time per community: look, then queue.  Nothing makes the two one step.
AskExport(c) ==
    /\ ~InFlight(c) /\ Room /\ asked[c] < MaxAsks
    /\ asked' = [asked EXCEPT ![c] = 1 + @]
    /\ UNCHANGED <<jobs, archives, builder, exportFaults>>

\* requestExportBuild then wakes the worker, or does not: the hourly run is the net.
\* The request may also die before it queues anything.
QueueExport(c) ==
    /\ asked[c] > 0
    /\ asked' = [asked EXCEPT ![c] = @ - 1]
    /\ \/ Room /\ jobs' = Append(jobs, Queued(c))
       \/ UNCHANGED jobs
    /\ UNCHANGED <<archives, builder, exportFaults>>

-----------------------------------------------------------------------------
(* The worker *)

AtStage(stage) == builder.at = stage
GoOn(stage) == builder' = [builder EXCEPT !.at = stage]
Listed(stage, rows) == builder' = [builder EXCEPT !.at = stage, !.rows = rows]
Without(x, stage) == Listed(stage, builder.rows \ {x})

WorkerStarts ==
    /\ AtStage("asleep") /\ GoOn("purge")
    /\ UNCHANGED <<jobs, archives, asked, exportFaults>>

\* purgeExpired: list the expired archives; for each, delete the file and mark the
\* row, each of which may fail and is then passed over.
ListExpired ==
    /\ AtStage("purge")
    /\ Listed("expire", {x \in Having("ready") : jobs[x].old})
    /\ UNCHANGED <<jobs, archives, asked, exportFaults>>

DeleteArchive(x) ==
    /\ AtStage("expire") /\ x \in builder.rows
    /\ builder' = [builder EXCEPT !.at = "mark", !.job = x]
    /\ \/ archives' = archives \ {x} /\ Fine
       \/ UNCHANGED archives /\ Fault
    /\ UNCHANGED <<jobs, asked>>

MarkExpired ==
    /\ AtStage("mark")
    /\ Write(builder.job, "expired")
    /\ Without(builder.job, "expire")
    /\ UNCHANGED <<archives, asked>>

\* failStaleJobs: what a killed run left running is failed, so that its community
\* can ask again.
NothingIsStale == {}     \* (mutant: a killed run's job is never released)
StaleJobs == {x \in Having("running") : jobs[x].old}

ListStale ==
    /\ AtStage("expire") /\ builder.rows = {}
    /\ Listed("fail", StaleJobs)
    /\ UNCHANGED <<jobs, archives, asked, exportFaults>>

FailStale(x) ==
    /\ AtStage("fail") /\ x \in builder.rows
    /\ Write(x, "failed")
    /\ Without(x, "fail")
    /\ UNCHANGED <<archives, asked>>

\* claimNext: the oldest queued row, of any community.  An error ends the run.
ClaimNext ==
    /\ AtStage("claim") \/ (AtStage("fail") /\ builder.rows = {})
    /\ UNCHANGED <<archives, asked>>
    /\ LET oldest == CHOOSE x \in Having("queued") : \A y \in Having("queued") : x <= y
       IN  IF builder.built = MaxJobs \/ Having("queued") = {}
           THEN builder' = Asleep /\ UNCHANGED <<jobs, exportFaults>>
           ELSE \/ /\ jobs' = WithStatus(oldest, "running") /\ Fine
                   /\ builder' = [builder EXCEPT !.at = "open", !.job = oldest]
                \/ Fault /\ builder' = Asleep
                   /\ (UNCHANGED jobs \/ jobs' = WithStatus(oldest, "running"))

\* runJob reads the community outside its try: an error there leaves the job
\* running and ends the run.
ReadCommunity ==
    /\ AtStage("open")
    /\ \/ GoOn("build") /\ Fine
       \/ builder' = Asleep /\ Fault
    /\ UNCHANGED <<jobs, archives, asked>>

\* buildArchive and uploadArchive.
BuildArchive ==
    /\ AtStage("build")
    /\ \/ archives' = archives \cup {builder.job} /\ GoOn("ready") /\ Fine
       \/ archives' \in {archives, archives \cup {builder.job}} /\ GoOn("giveUp") /\ Fault
    /\ UNCHANGED <<jobs, asked>>

NextJob == builder' = [builder EXCEPT !.at = "claim", !.built = @ + 1]

MarkReady ==
    /\ AtStage("ready")
    /\ \/ jobs' = WithStatus(builder.job, "ready") /\ NextJob /\ Fine
       \/ /\ jobs' \in {jobs, WithStatus(builder.job, "ready")}
          /\ GoOn("giveUp") /\ Fault
    /\ UNCHANGED <<archives, asked>>

\* The catch of runJob marks the job failed, whatever failed; if that fails too,
\* the job stays as it is.
GiveUp ==
    /\ AtStage("giveUp")
    /\ Write(builder.job, "failed")
    /\ NextJob
    /\ UNCHANGED <<archives, asked>>

WorkerStep ==
    \/ ListExpired \/ MarkExpired \/ ListStale \/ ClaimNext \/ ReadCommunity
    \/ BuildArchive \/ MarkReady \/ GiveUp
    \/ \E x \in builder.rows : DeleteArchive(x) \/ FailStale(x)

-----------------------------------------------------------------------------
(* The rest *)

\* The runner is lost, or the workflow's timeout stops it.
WorkerKilled ==
    /\ ~AtStage("asleep") /\ Fault
    /\ builder' = Asleep
    /\ UNCHANGED <<jobs, archives, asked>>

\* A job under a living run is never stale (an hour against six).
TimePasses(x) ==
    /\ x \in Having("ready") \cup Having("running") /\ ~jobs[x].old
    /\ builder.at \in {"open", "build", "ready", "giveUp"} => x # builder.job
    /\ jobs' = [jobs EXCEPT ![x].old = TRUE]
    /\ UNCHANGED <<archives, asked, builder, exportFaults>>

ExportNext ==
    \/ \E c \in Communities : AskExport(c) \/ QueueExport(c)
    \/ WorkerStarts \/ WorkerStep \/ WorkerKilled
    \/ \E x \in DOMAIN jobs : TimePasses(x)

-----------------------------------------------------------------------------
(* Properties *)

Job == [of : Communities, status : {"queued", "running", "ready", "failed", "expired"},
        old : BOOLEAN]
ExportTypeOK ==
    /\ jobs \in Seq(Job) /\ Len(jobs) <= MaxExports
    /\ archives \subseteq DOMAIN jobs
    /\ asked \in [Communities -> 0..MaxAsks]
    /\ builder \in [at : Stages, rows : SUBSET DOMAIN jobs,
                    job : DOMAIN jobs \cup {0}, built : 0..MaxJobs]
    /\ exportFaults \in 0..MaxExportFaults

\* Every export that was asked for is built, or fails so that its community may ask
\* again: neither a killed run, nor an error in the worker, nor the other jobs'
\* number wedge it (runQueue, failStaleJobs, claimNext).
Ended(x) ==
    \/ jobs[x].status \in {"failed", "expired"}
    \/ jobs[x].status = "ready" /\ (x \in archives \/ jobs[x].old)
ExportEnds ==
    \A x \in 1..MaxExports : x \in DOMAIN jobs ~> x \in DOMAIN jobs /\ Ended(x)
=============================================================================
