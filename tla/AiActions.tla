----------------------------- MODULE AiActions -----------------------------
(***************************************************************************)
(* core/server/utils/ai-actions.ts and api/ai/actions/*: an action the     *)
(* assistant proposes is approved (or run by the trust dial), rejected,    *)
(* edited, undone, or swept when it is stale.  A step is one Directus      *)
(* request; nothing locks the row, so whatever a function read may have    *)
(* changed when it writes.  Creating executors make a record, the others   *)
(* overwrite one field and remember its value.                             *)
(***************************************************************************)
EXTENDS Naturals, FiniteSets

CONSTANTS
    Actions,    \* rows of ai_actions
    Restoring,  \* those that overwrite the field; the others create a record
    Outbound,   \* those that never run without a person
    Payloads,   \* what may be proposed or edited in
    Original,   \* the field's value before any action
    NoUndo,     \* result has no _undo
    Requests,   \* function invocations in flight
    MaxProposals, MaxStarts,  \* bounds: proposals; calls of the other routes and
                              \* edits of the field by people
    MaxFaults   \* bound: failed requests and frozen functions

ASSUME ActionConstants ==
    /\ Restoring \subseteq Actions /\ Outbound \subseteq Actions
    /\ Payloads # {} /\ Original \notin Payloads
    /\ NoUndo \notin Payloads \cup Nat \cup {Original}
    /\ MaxProposals \in Nat /\ MaxStarts \in Nat /\ MaxFaults \in Nat

VARIABLES
    row,       \* ai_actions: status, payload, result._undo, result._undone
    old,       \* rows past the expiry window
    records,   \* <<a, n>>: what the n-th execution of a created
    field,     \* what the restoring actions overwrite
    call,      \* every invocation's place and what it read
    effects,   \* (history) executions of an action that took effect
    reverts,   \* (history) reverts that took effect
    ledger,    \* Community Ledger entries about an action
    ran,       \* (history) the payload its last execution used
    replaced,  \* (history) what its last execution replaced or made
    stale,     \* (history) somebody wrote over what had changed since it was read
    lost,      \* (history) an execution's outcome was never written on the row
    starts,    \* calls so far
    faults

actionVars == <<row, old, records, field, call, effects, reverts, ledger, ran,
                replaced, stale, lost, starts, faults>>
histories == <<effects, reverts, ran, replaced>>

Statuses == {"none", "pending", "executed", "rejected", "failed"}
UndoInfo == Nat \cup Payloads \cup {Original, NoUndo}
Row == [status : Statuses, payload : Payloads, undo : UndoInfo, undone : BOOLEAN]

NoRow == [status |-> "none", payload |-> CHOOSE p \in Payloads : TRUE,
          undo |-> NoUndo, undone |-> FALSE]

Idle == [op |-> "idle"]
Places == {"read", "reject", "previous", "execute", "record", "fail", "ledger",
           "revert", "mark", "undoLedger", "write"}
Call == [op : {"approve", "reject", "undo", "edit"}, act : Actions, at : Places,
         seen : Row, undo : UndoInfo]
Sweep == [op : {"sweep"}, rows : SUBSET Actions]

ActionInit ==
    /\ row = [a \in Actions |-> NoRow]
    /\ old = {} /\ records = {}
    /\ field = Original
    /\ call = [r \in Requests |-> Idle]
    /\ effects = [a \in Actions |-> 0] /\ reverts = [a \in Actions |-> 0]
    /\ ledger = [a \in Actions |-> [executed |-> 0, undone |-> 0]]
    /\ ran = [a \in Actions |-> NoUndo] /\ replaced = [a \in Actions |-> NoUndo]
    /\ stale = [a \in Actions |-> FALSE] /\ lost = [a \in Actions |-> FALSE]
    /\ starts = 0 /\ faults = 0

At(r, place) == call[r].op \notin {"idle", "sweep"} /\ call[r].at = place
Goto(r, place) == call' = [call EXCEPT ![r].at = place]

Entering(op, a) == [op |-> op, act |-> a, at |-> "read", seen |-> NoRow, undo |-> NoUndo]
Return(r) == call' = [call EXCEPT ![r] = Idle]

\* A request is answered, refused with no effect, or takes effect and its answer
\* is lost.
Outcomes == {"ok", "refused", "lost"}
Counted(outcome) ==
    IF outcome = "ok" THEN UNCHANGED faults ELSE faults < MaxFaults /\ faults' = faults + 1
Overwrites(a, seen) == stale' = [stale EXCEPT ![a] = @ \/ row[a] # seen]

-----------------------------------------------------------------------------
\* proposeAction: the row is written as pending; the trust dial may run it.
Propose(r, a, p, auto) ==
    /\ call[r] = Idle
    /\ row[a].status = "none"
    /\ Cardinality({b \in Actions : row[b].status # "none"}) < MaxProposals
    /\ auto => a \notin Outbound
    /\ row' = [row EXCEPT ![a].status = "pending", ![a].payload = p]
    /\ call' = IF auto THEN [call EXCEPT ![r] = Entering("approve", a)]
               ELSE call
    /\ UNCHANGED <<old, records, field, histories, ledger, stale, lost, faults, starts>>

\* The approve, reject, undo and edit routes; bulk.post.ts decides its ids one by
\* one, each like a call of its own.
Start(r, op, a) ==
    /\ call[r] = Idle
    /\ starts < MaxStarts
    /\ starts' = starts + 1
    /\ row[a].status # "none"
    /\ call' = [call EXCEPT ![r] = Entering(op, a)]
    /\ UNCHANGED <<row, old, records, field, histories, ledger, stale, lost, faults>>

\* decideAiAction, undoAiAction and the edit route read the row and refuse it, or
\* keep what they read.
ProceedsAnyway(op, seen) ==    \* (mutant: an approval does not look at the status)
    IF op = "undo" THEN seen.status = "executed" /\ ~seen.undone /\ seen.undo # NoUndo
    ELSE op = "approve" \/ seen.status = "pending"
Proceeds(op, seen) ==
    IF op = "undo" THEN seen.status = "executed" /\ ~seen.undone /\ seen.undo # NoUndo
    ELSE seen.status = "pending"
Lane(op, a) ==
    IF op = "approve" THEN IF a \in Restoring THEN "previous" ELSE "execute"
    ELSE [reject |-> "reject", undo |-> "revert", edit |-> "write"][op]
ReadRow(r) ==
    /\ At(r, "read")
    /\ LET c == call[r]
           seen == row[c.act]
       IN IF Proceeds(c.op, seen)
          THEN call' = [call EXCEPT ![r].seen = seen, ![r].at = Lane(c.op, c.act)]
          ELSE Return(r)
    /\ UNCHANGED <<row, old, records, field, histories, ledger, stale, lost, faults, starts>>

Reject(r) ==
    /\ At(r, "reject")
    /\ row' = [row EXCEPT ![call[r].act].status = "rejected"]
    /\ Overwrites(call[r].act, call[r].seen)
    /\ Return(r)
    /\ UNCHANGED <<old, records, field, histories, ledger, lost, faults, starts>>

\* requireOrgRow of a restoring executor: the value an undo would put back.
Previous(r) ==
    /\ At(r, "previous")
    /\ call' = [call EXCEPT ![r].undo = field, ![r].at = "execute"]
    /\ UNCHANGED <<row, old, records, field, histories, ledger, stale, lost, faults, starts>>

\* The executor's write, with the payload that was read.
UndoReadLate(r, n) ==    \* (mutant: the previous value is read after the write)
    IF call[r].act \in Restoring THEN call[r].seen.payload ELSE n
UndoOf(r, n) == IF call[r].act \in Restoring THEN call[r].undo ELSE n
AfterExecute(outcome) == IF outcome = "ok" THEN "record" ELSE "fail"
Execute(r, outcome) ==
    /\ At(r, "execute")
    /\ Counted(outcome)
    /\ LET a == call[r].act
           n == effects[a] + 1
       IN /\ IF outcome = "refused"
             THEN UNCHANGED <<records, field, effects, ran, replaced>>
             ELSE /\ effects' = [effects EXCEPT ![a] = n]
                  /\ ran' = [ran EXCEPT ![a] = call[r].seen.payload]
                  /\ replaced' = [replaced EXCEPT ![a] = IF a \in Restoring THEN field ELSE n]
                  /\ IF a \in Restoring
                     THEN field' = call[r].seen.payload /\ UNCHANGED records
                     ELSE records' = records \cup {<<a, n>>} /\ UNCHANGED field
          /\ stale' = [stale EXCEPT ![a] =
                         @ \/ row[a] # call[r].seen \/ (a \in Restoring /\ field # call[r].undo)]
          /\ call' = [call EXCEPT ![r].undo = UndoOf(r, n), ![r].at = AfterExecute(outcome)]
    /\ UNCHANGED <<row, old, reverts, ledger, lost, starts>>

\* status executed and result, over whatever the row says by now.
Record(r, outcome) ==
    /\ At(r, "record")
    /\ Counted(outcome)
    /\ LET a == call[r].act
       IN /\ row' = IF outcome = "refused" THEN row
                    ELSE [row EXCEPT ![a].status = "executed", ![a].undo = call[r].undo,
                                     ![a].undone = FALSE]
          /\ Overwrites(a, call[r].seen)
    /\ Goto(r, IF outcome = "ok" THEN "ledger" ELSE "fail")
    /\ UNCHANGED <<old, records, field, histories, ledger, lost, starts>>

\* The catch: the row is marked failed and the error surfaces.
MarkFailed(r, outcome) ==
    /\ At(r, "fail")
    /\ Counted(outcome)
    /\ LET a == call[r].act
       IN /\ row' = IF outcome = "refused" THEN row
                    ELSE [row EXCEPT ![a].status = "failed"]
          /\ lost' = [lost EXCEPT ![a] = @ \/ outcome = "refused"]
          /\ Overwrites(a, call[r].seen)
    /\ Return(r)
    /\ UNCHANGED <<old, records, field, histories, ledger, starts>>

\* recordAiActionInLedger never throws.
WriteLedger(r, outcome) ==
    /\ Counted(outcome)
    /\ \E entry \in {"executed", "undone"} :
         /\ At(r, IF entry = "executed" THEN "ledger" ELSE "undoLedger")
         /\ ledger' = IF outcome = "refused" THEN ledger
                      ELSE [ledger EXCEPT ![call[r].act][entry] = @ + 1]
    /\ Return(r)
    /\ UNCHANGED <<row, old, records, field, histories, stale, lost, starts>>

\* undoAiAction reverts from what it read; an error leaves the row as it is.
AfterRevertAlways(outcome) == TRUE     \* (mutant: the error is swallowed)
AfterRevert(outcome) == outcome = "ok"
Revert(r, outcome) ==
    /\ At(r, "revert")
    /\ Counted(outcome)
    /\ LET a == call[r].act
           undo == call[r].seen.undo
       IN IF outcome = "refused" THEN UNCHANGED <<records, field, reverts>>
          ELSE /\ reverts' = [reverts EXCEPT ![a] = @ + 1]
               /\ IF a \in Restoring THEN field' = undo /\ UNCHANGED records
                  ELSE records' = records \ {<<a, undo>>} /\ UNCHANGED field
    /\ IF AfterRevert(outcome) THEN Goto(r, "mark") ELSE Return(r)
    /\ UNCHANGED <<row, old, effects, ran, replaced, ledger, stale, lost, starts>>

\* result: what was read, with _undone.
Mark(r, outcome) ==
    /\ At(r, "mark")
    /\ Counted(outcome)
    /\ LET a == call[r].act
       IN /\ row' = IF outcome = "refused" THEN row
                    ELSE [row EXCEPT ![a].undo = call[r].seen.undo, ![a].undone = TRUE]
          /\ Overwrites(a, call[r].seen)
    /\ IF outcome = "ok" THEN Goto(r, "undoLedger") ELSE Return(r)
    /\ UNCHANGED <<old, records, field, histories, ledger, lost, starts>>

\* The edit route's write.
Edit(r, p) ==
    /\ At(r, "write")
    /\ row' = [row EXCEPT ![call[r].act].payload = p]
    /\ Overwrites(call[r].act, call[r].seen)
    /\ Return(r)
    /\ UNCHANGED <<old, records, field, histories, ledger, lost, faults, starts>>

\* expire-stale.ts: the pending rows past the window, then one write by their ids.
ExpirableInverted ==    \* (mutant: the cutoff is compared the wrong way)
    {a \in Actions \ old : row[a].status = "pending"}
Expirable == {a \in old : row[a].status = "pending"}
SweepLists(r) ==
    /\ call[r] = Idle
    /\ Expirable # {}
    /\ call' = [call EXCEPT ![r] = [op |-> "sweep", rows |-> Expirable]]
    /\ UNCHANGED <<row, old, records, field, histories, ledger, stale, lost, faults, starts>>
Swept(a) == [row[a] EXCEPT !.status = "rejected", !.undo = NoUndo, !.undone = FALSE]
SweepRejects(r) ==
    /\ call[r].op = "sweep"
    /\ row' = [a \in Actions |-> IF a \in call[r].rows THEN Swept(a) ELSE row[a]]
    /\ stale' = [a \in Actions |->
                   stale[a] \/ (a \in call[r].rows /\ row[a].status # "pending")]
    /\ call' = [call EXCEPT ![r] = Idle]
    /\ UNCHANGED <<old, records, field, histories, ledger, lost, faults, starts>>

-----------------------------------------------------------------------------
\* The platform freezes a function, or another of its requests fails.
Dies(r) ==
    /\ call[r] # Idle
    /\ faults < MaxFaults
    /\ faults' = faults + 1
    /\ lost' = [a \in Actions |->
                  lost[a] \/ ((At(r, "record") \/ At(r, "fail")) /\ call[r].act = a)]
    /\ call' = [call EXCEPT ![r] = Idle]
    /\ UNCHANGED <<row, old, records, field, histories, ledger, stale, starts>>

\* A person edits the field on its own page.
SomebodyEdits(p) ==
    /\ starts < MaxStarts
    /\ starts' = starts + 1
    /\ field # p
    /\ field' = p
    /\ UNCHANGED <<row, old, records, call, histories, ledger, stale, lost, faults>>

GrowsOld(a) ==
    /\ a \notin old
    /\ row[a].status # "none"
    /\ old' = old \cup {a}
    /\ UNCHANGED <<row, records, field, call, histories, ledger, stale, lost, faults, starts>>

ActionStep(r) ==
    \/ ReadRow(r) \/ Reject(r) \/ Previous(r) \/ SweepRejects(r)
    \/ \E p \in Payloads : Edit(r, p)
    \/ \E o \in Outcomes :
         Execute(r, o) \/ Record(r, o) \/ MarkFailed(r, o) \/ WriteLedger(r, o)
           \/ Revert(r, o) \/ Mark(r, o)

ActionNext ==
    \/ \E r \in Requests :
         \/ ActionStep(r) \/ SweepLists(r) \/ Dies(r)
         \/ \E a \in Actions :
              \/ \E p \in Payloads, auto \in BOOLEAN : Propose(r, a, p, auto)
              \/ \E op \in {"approve", "reject", "undo", "edit"} : Start(r, op, a)
    \/ \E p \in Payloads : SomebodyEdits(p)
    \/ \E a \in Actions : GrowsOld(a)

ActionSpec == ActionInit /\ [][ActionNext]_actionVars

-----------------------------------------------------------------------------
ActionsTypeOK ==
    /\ row \in [Actions -> Row]
    /\ old \subseteq Actions
    /\ records \subseteq Actions \X Nat
    /\ field \in Payloads \cup {Original}
    /\ \A r \in Requests : call[r] \in {Idle} \cup Call \cup Sweep
    /\ effects \in [Actions -> Nat] /\ reverts \in [Actions -> Nat]
    /\ ledger \in [Actions -> [executed : Nat, undone : Nat]]
    /\ stale \in [Actions -> BOOLEAN] /\ lost \in [Actions -> BOOLEAN]
    /\ starts \in 0..MaxStarts /\ faults \in 0..MaxFaults

\* Nothing is being done to the action.
AtRest(a) ==
    \A r \in Requests :
        /\ call[r].op = "sweep" => a \notin call[r].rows
        /\ call[r].op \notin {"idle", "sweep"} => call[r].act # a

\* Short of a stale write or an outcome that was never recorded, an action runs
\* at most once ("no double-execute"), a rejected one has done nothing, and an
\* executed one shows the payload that ran; the Community Ledger never tells of an
\* execution or an undo that did not happen (decideAiAction, edit, expire-stale).
RowTellsWhatRan ==
    \A a \in Actions : AtRest(a) /\ ~stale[a] /\ ~lost[a] =>
        /\ ledger[a].executed <= effects[a] /\ ledger[a].undone <= reverts[a]
        /\ effects[a] <= 1
        /\ row[a].status = "rejected" => effects[a] = 0
        /\ row[a].status = "executed" => effects[a] = 1 /\ row[a].payload = ran[a]

\* What Undo would put back is what the last execution replaced, whatever was
\* edited, undone and decided in between (the executors' undo, undoAiAction).
UndoIsOfTheExecution ==
    \A a \in Actions :
        AtRest(a) /\ ~stale[a] /\ ~lost[a] /\ row[a].status = "executed" => row[a].undo = replaced[a]

\* A row that says undone has no record left of the execution it describes.
UndoneIsGone ==
    \A a \in Actions \ Restoring :
        row[a].undone => <<a, row[a].undo>> \notin records

\* So an undo reverts the execution it belongs to, all of it (both of these).
UndoReverts == UndoIsOfTheExecution /\ UndoneIsGone

\* A proposal nobody decides does not stay pending: the sweep closes it.
PendingEnds ==
    \A a \in Actions : row[a].status = "pending" ~> row[a].status # "pending"
=============================================================================
