--------------------------- MODULE AssistantProofs ---------------------------
(***************************************************************************)
(* The assistant: what an action's row, its undo and the Community Ledger  *)
(* say of it is what happened, although nothing locks the row; and its      *)
(* wallet is neither credited twice nor overdrawn.                         *)
(***************************************************************************)
EXTENDS AiActions, AiWallet, Sums

-----------------------------------------------------------------------------
(* A stale write is seen when it is made, so an action without one had every   *)
(* write made over the very row its writer read.  From that follows who can    *)
(* have acted: of several approvals only the first to write the row; only one  *)
(* tells the ledger of it, and only one undo does.                             *)

Works(r) == call[r].op \notin {"idle", "sweep"}
On(r, a) == Works(r) /\ call[r].act = a
Applying(a) == {r \in Requests : On(r, a) /\ call[r].at \in {"record", "fail"}}
Telling(r, a, place) == On(r, a) /\ call[r].at = place

\* What an undo of the action puts back or takes away.
Made(a) ==
    {NoUndo} \cup IF a \in Restoring THEN Payloads \cup {Original} ELSE 1 .. effects[a]

Calls == [Requests -> {Idle} \cup Call \cup Sweep]
ActionTypeInv ==
    /\ ActionsTypeOK /\ call \in Calls
    /\ ran \in [Actions -> Payloads \cup {NoUndo}] /\ replaced \in [Actions -> UndoInfo]

\* Who decides saw the action pending, who undoes it saw it executed; and what was
\* undone was reverted, and its record never comes back: the next execution makes
\* another.
Deciding == {"previous", "execute", "record", "fail", "ledger", "reject", "write"}
Undoing  == {"revert", "mark", "undoLedger"}
Gone(a, undo) == reverts[a] > 0 /\ (a \notin Restoring => <<a, undo>> \notin records)
Knows(r) ==
    LET c == call[r]
    IN /\ c.at = "previous" => c.act \in Restoring
       /\ c.at \in Deciding => c.seen.status = "pending"
       /\ c.at \in Undoing => c.seen.status = "executed" /\ ~c.seen.undone /\ c.seen.undo # NoUndo
       /\ c.seen.undo \in Made(c.act)
       /\ c.at # "fail" => c.undo \in Made(c.act)
       /\ c.at = "mark" => Gone(c.act, c.seen.undo)
CallInv == \A r \in Requests : Works(r) => Knows(r)

Undoable(a) == row[a].undo \in Made(a) /\ (row[a].undone => Gone(a, row[a].undo))
UndoInv == \A a \in Actions : Undoable(a)

\* Of an action nobody wrote over: what its row says, once nobody is applying it...
Settled(a) ==
    /\ effects[a] <= 1
    /\ row[a].status \notin {"executed", "failed"} => effects[a] = 0
    /\ row[a].status = "executed" =>
         effects[a] = 1 /\ row[a].payload = ran[a] /\ row[a].undo = replaced[a]
\* ...what the one that is about to write the row will say...
WillRecord(a, r) ==
    /\ effects[a] <= 1
    /\ call[r].at = "record" =>
         effects[a] = 1 /\ ran[a] = call[r].seen.payload /\ replaced[a] = call[r].undo
\* ...and that one tells the ledger, after the row.
ToldOnce(a, entry, place, holds) ==
    /\ ledger[a][entry] <= 1
    /\ ~holds => ledger[a][entry] = 0
    /\ \A r \in Requests : Telling(r, a, place) =>
         /\ holds /\ ledger[a][entry] = 0
         /\ \A s \in Requests : Telling(s, a, place) => s = r
Agrees(a) ==
    /\ row[a].undone => row[a].status = "executed"
    /\ Applying(a) = {} => Settled(a)
    /\ row[a].status \in {"none", "pending"} =>
         \A r \in Requests : Applying(a) = {r} => WillRecord(a, r)
    /\ ToldOnce(a, "executed", "ledger", row[a].status = "executed")
    /\ ToldOnce(a, "undone", "undoLedger", row[a].undone)
Clean(a) == ~stale[a] /\ ~lost[a]
RowInv == \A a \in Actions : Clean(a) => Agrees(a)

ActionsInv == ActionTypeInv /\ CallInv /\ UndoInv /\ RowInv

-----------------------------------------------------------------------------
(* What a step does *)

Placed(c, place) == [op |-> c.op, act |-> c.act, at |-> place, seen |-> c.seen, undo |-> c.undo]
Holding(c, seen) == [op |-> c.op, act |-> c.act, at |-> c.at, seen |-> seen, undo |-> c.undo]
Undoes(c, undo)  == [op |-> c.op, act |-> c.act, at |-> c.at, seen |-> c.seen, undo |-> undo]

OthersStay(r) == \A s \in Requests : s # r => call'[s] = call[s]
Becomes(r, c) == call'[r] = c /\ OthersStay(r)

\* The rows of the other actions, and what is told of them, stay.
Elsewhere(a) ==
    \A b \in Actions : b # a =>
        /\ row'[b] = row[b] /\ stale'[b] = stale[b] /\ lost'[b] = lost[b]
        /\ effects'[b] = effects[b] /\ reverts'[b] = reverts[b]
        /\ ran'[b] = ran[b] /\ replaced'[b] = replaced[b] /\ ledger'[b] = ledger[b]
        /\ \A n : <<b, n>> \in records' => <<b, n>> \in records

\* A row with its fields assigned.
RowOf(status, payload, undo, undone) ==
    [status |-> status, payload |-> payload, undo |-> undo, undone |-> undone]

LEMMA TypeParts ==
  ASSUME ActionTypeInv
  PROVE  /\ row \in [Actions -> Row] /\ effects \in [Actions -> Nat] /\ reverts \in [Actions -> Nat]
         /\ ledger \in [Actions -> [executed : Nat, undone : Nat]]
         /\ stale \in [Actions -> BOOLEAN] /\ lost \in [Actions -> BOOLEAN]
         /\ call \in Calls
BY DEF ActionTypeInv, ActionsTypeOK

LEMMA AtCall ==
  ASSUME ActionTypeInv, NEW r \in Requests, NEW place, At(r, place)
  PROVE  Works(r) /\ call[r] \in Call /\ call[r].act \in Actions /\ call[r].at = place
BY DEF ActionTypeInv, Calls, At, Works, Call, Sweep, Idle

LEMMA WorksCall ==
  ASSUME ActionTypeInv, NEW r \in Requests, Works(r)
  PROVE  call[r] \in Call /\ call[r].act \in Actions
BY DEF ActionTypeInv, Calls, Works, Call, Sweep, Idle

LEMMA IdleRests ==
  ASSUME NEW r, call[r] = Idle
  PROVE  ~Works(r)
BY DEF Works, Idle

LEMMA Assigned ==
  ASSUME ActionTypeInv, NEW r \in Requests, Works(r), NEW place \in Places
  PROVE  /\ Goto(r, place) => Becomes(r, Placed(call[r], place)) /\ call' \in Calls
         /\ \A seen \in Row : call' = [call EXCEPT ![r].seen = seen, ![r].at = place]
              => Becomes(r, Placed(Holding(call[r], seen), place)) /\ call' \in Calls
         /\ \A undo \in UndoInfo : call' = [call EXCEPT ![r].undo = undo, ![r].at = place]
              => Becomes(r, Placed(Undoes(call[r], undo), place)) /\ call' \in Calls
<1>1. call \in Calls /\ call[r] \in Call
  BY WorksCall DEF ActionTypeInv
<1>2. ASSUME NEW before \in Calls, before[r] \in Call, NEW after, after = [before EXCEPT ![r].at = place]
      PROVE  /\ after \in Calls /\ after[r] = Placed(before[r], place)
             /\ \A s \in Requests : s # r => after[s] = before[s]
  <2>1. Placed(before[r], place) \in Call /\ [before[r] EXCEPT !.at = place] = Placed(before[r], place)
    BY <1>2 DEF Call, Placed
  <2> QED
    BY <1>2, <2>1 DEF Calls
<1>3. ASSUME NEW seen \in Row, call' = [call EXCEPT ![r].seen = seen, ![r].at = place]
      PROVE  Becomes(r, Placed(Holding(call[r], seen), place)) /\ call' \in Calls
  <2> DEFINE mid == [call EXCEPT ![r].seen = seen]
  <2>1. Holding(call[r], seen) \in Call /\ [call[r] EXCEPT !.seen = seen] = Holding(call[r], seen)
    BY <1>1 DEF Call, Holding
  <2>2. /\ mid \in Calls /\ mid[r] = Holding(call[r], seen) /\ mid[r] \in Call
        /\ \A s \in Requests : s # r => mid[s] = call[s]
    BY <1>1, <2>1 DEF Calls
  <2>3. call' = [mid EXCEPT ![r].at = place]
    BY <1>3
  <2> HIDE DEF mid
  <2> QED
    BY <1>2, <2>2, <2>3 DEF Becomes, OthersStay
<1>4. ASSUME NEW undo \in UndoInfo, call' = [call EXCEPT ![r].undo = undo, ![r].at = place]
      PROVE  Becomes(r, Placed(Undoes(call[r], undo), place)) /\ call' \in Calls
  <2> DEFINE mid == [call EXCEPT ![r].undo = undo]
  <2>1. Undoes(call[r], undo) \in Call /\ [call[r] EXCEPT !.undo = undo] = Undoes(call[r], undo)
    BY <1>1 DEF Call, Undoes
  <2>2. /\ mid \in Calls /\ mid[r] = Undoes(call[r], undo) /\ mid[r] \in Call
        /\ \A s \in Requests : s # r => mid[s] = call[s]
    BY <1>1, <2>1 DEF Calls
  <2>3. call' = [mid EXCEPT ![r].at = place]
    BY <1>4
  <2> HIDE DEF mid
  <2> QED
    BY <1>2, <2>2, <2>3 DEF Becomes, OthersStay
<1>5. Goto(r, place) => Becomes(r, Placed(call[r], place)) /\ call' \in Calls
  BY <1>1, <1>2 DEF Goto, Becomes, OthersStay
<1> QED
  BY <1>3, <1>4, <1>5

LEMMA AssignedUndo ==
  ASSUME ActionTypeInv, NEW r \in Requests, Works(r), NEW place \in Places, NEW undo \in UndoInfo,
         call' = [call EXCEPT ![r].undo = undo, ![r].at = place]
  PROVE  Becomes(r, Placed(Undoes(call[r], undo), place)) /\ call' \in Calls
BY Assigned

LEMMA Went ==
  ASSUME ActionTypeInv, NEW r \in Requests, Works(r), NEW place \in Places, Goto(r, place)
  PROVE  Becomes(r, Placed(call[r], place)) /\ call' \in Calls
BY Assigned

LEMMA Entered ==
  ASSUME ActionTypeInv, NEW r \in Requests, NEW c \in {Idle} \cup Call \cup Sweep, call' = [call EXCEPT ![r] = c]
  PROVE  Becomes(r, c) /\ call' \in Calls
BY DEF Becomes, OthersStay, Calls, ActionTypeInv

\* Nobody has a place after going idle, and a new call is one that read nothing.
LEMMA Left ==
  ASSUME ActionTypeInv, NEW r \in Requests, Return(r)
  PROVE  Becomes(r, Idle) /\ call' \in Calls /\ ~Works(r)'
<1>1. Becomes(r, Idle) /\ call' \in Calls
  BY Entered DEF Return
<1> QED
  BY <1>1 DEF Works, Becomes, Idle

-----------------------------------------------------------------------------
(* What r does about a disturbs neither the other calls nor the other actions *)

About(r, a) ==
    /\ OthersStay(r) /\ Elsewhere(a)
    /\ Works(r) => call[r].act = a
    /\ Works(r)' => call'[r].act = a
    /\ effects'[a] >= effects[a] /\ reverts'[a] >= reverts[a]
    /\ a \notin Restoring => \A n \in Made(a) : <<a, n>> \in records' => <<a, n>> \in records

LEMMA MadeGrows ==
  ASSUME ActionTypeInv, ActionTypeInv', NEW a \in Actions, NEW b \in Actions, Elsewhere(a), effects'[a] >= effects[a]
  PROVE  Made(b) \subseteq Made(b)'
<1>1. effects[b] \in Nat /\ effects'[b] \in Nat /\ effects'[b] >= effects[b]
  BY DEF ActionTypeInv, ActionsTypeOK, Elsewhere
<1> QED
  BY <1>1 DEF Made

LEMMA GoneStays ==
  ASSUME ActionTypeInv, ActionTypeInv', NEW r \in Requests, NEW a \in Actions, About(r, a),
         NEW b \in Actions, NEW n \in Made(b), Gone(b, n)
  PROVE  Gone(b, n)'
<1>1. reverts'[b] \in Nat /\ reverts[b] \in Nat /\ reverts'[b] >= reverts[b]
  BY DEF ActionTypeInv, ActionsTypeOK, About, Elsewhere
<1>2. b \notin Restoring /\ <<b, n>> \in records' => <<b, n>> \in records
  BY DEF About, Elsewhere
<1> QED
  BY <1>1, <1>2 DEF Gone

LEMMA OthersKnow ==
  ASSUME ActionTypeInv, ActionTypeInv', CallInv, NEW r \in Requests, NEW a \in Actions, About(r, a),
         NEW s \in Requests, s # r, Works(s)'
  PROVE  Knows(s)'
<1>1. call'[s] = call[s] /\ Works(s) /\ Knows(s)
  BY DEF About, OthersStay, Works, CallInv
<1>2. PICK b \in Actions : call[s].act = b
  BY <1>1, WorksCall
<1>3. PICK n : call[s].seen.undo = n
  OBVIOUS
<1>4. n \in Made(b) /\ (call[s].at # "fail" => call[s].undo \in Made(b))
  BY <1>1, <1>2, <1>3 DEF Knows
<1>5. Made(b) \subseteq Made(b)'
  BY MadeGrows DEF About
<1>6. call[s].at = "mark" => Gone(b, n)'
  BY <1>1, <1>2, <1>3, <1>4, GoneStays DEF Knows
<1>7. /\ call[s].at \in Deciding => call[s].seen.status = "pending"
      /\ call[s].at \in Undoing =>
           call[s].seen.status = "executed" /\ ~call[s].seen.undone /\ call[s].seen.undo # NoUndo
  BY <1>1 DEF Knows
<1> QED
  BY <1>1, <1>2, <1>3, <1>4, <1>5, <1>6, <1>7 DEF Knows, Made, Gone

LEMMA OthersUndoable ==
  ASSUME ActionTypeInv, ActionTypeInv', UndoInv, NEW r \in Requests, NEW a \in Actions, About(r, a),
         NEW b \in Actions, b # a
  PROVE  Undoable(b)'
<1>1. row'[b] = row[b] /\ Undoable(b)
  BY DEF About, Elsewhere, UndoInv
<1>2. row'[b].undo \in Made(b)'
  BY <1>1, MadeGrows DEF About, Undoable
<1>3. row[b].undone => Gone(b, row[b].undo)'
  BY <1>1, GoneStays DEF Undoable
<1> QED
  BY <1>1, <1>2, <1>3 DEF Undoable

LEMMA OthersAgree ==
  ASSUME RowInv, NEW r \in Requests, NEW a \in Actions, About(r, a), NEW b \in Actions, b # a, Clean(b)'
  PROVE  Agrees(b)'
<1>1. Clean(b) /\ Agrees(b)
  BY DEF About, Elsewhere, Clean, RowInv
<1>2. \A s \in Requests : On(s, b)' <=> On(s, b)
  BY DEF About, OthersStay, On, Works
<1>3. \A s \in Requests : On(s, b) => call'[s] = call[s]
  BY DEF About, OthersStay, On
<1>4. Applying(b)' = Applying(b)
  BY <1>2, <1>3 DEF Applying
<1>5. Settled(b) => Settled(b)'
  BY DEF Settled, About, Elsewhere
<1>6. \A s \in Requests : s \in Applying(b) /\ WillRecord(b, s) => WillRecord(b, s)'
  BY <1>3 DEF WillRecord, About, Elsewhere, Applying
<1>7. \A s \in Requests : \A place : Telling(s, b, place)' <=> Telling(s, b, place)
  BY <1>2, <1>3 DEF Telling
<1>8. row'[b] = row[b] /\ ledger'[b] = ledger[b]
  BY DEF About, Elsewhere
<1>9. ToldOnce(b, "executed", "ledger", row[b].status = "executed")'
  BY <1>1, <1>7, <1>8 DEF ToldOnce, Agrees
<1>10. ToldOnce(b, "undone", "undoLedger", row[b].undone)'
  BY <1>1, <1>7, <1>8 DEF ToldOnce, Agrees
<1> QED
  BY <1>1, <1>4, <1>5, <1>6, <1>8, <1>9, <1>10 DEF Agrees

LEMMA Locally ==
  ASSUME ActionsInv, ActionTypeInv', NEW r \in Requests, NEW a \in Actions, About(r, a),
         Works(r)' => Knows(r)', Undoable(a)', Clean(a)' => Agrees(a)'
  PROVE  ActionsInv'
<1>1. CallInv'
  BY OthersKnow DEF CallInv, ActionsInv
<1>2. UndoInv'
  BY OthersUndoable DEF UndoInv, ActionsInv
<1>3. RowInv'
  BY OthersAgree DEF RowInv, ActionsInv
<1> QED
  BY <1>1, <1>2, <1>3 DEF ActionsInv

-----------------------------------------------------------------------------
(* The calls of the routes, step by step *)

\* r works for a, from place.
LEMMA WorksFor ==
  ASSUME ActionsInv, NEW r \in Requests, NEW place, At(r, place)
  PROVE  /\ Works(r) /\ call[r] \in Call /\ call[r].at = place /\ Knows(r)
         /\ \E a \in Actions : call[r].act = a /\ Telling(r, a, place) /\ Undoable(a)
BY AtCall DEF ActionsInv, Telling, On, CallInv, UndoInv

Plain == {"read", "reject", "previous", "execute", "revert", "mark", "write"}

\* Between plain places, or leaving one, nothing is agreed on.
LEMMA PlainMove ==
  ASSUME NEW r \in Requests, NEW a \in Actions, On(r, a), call[r].at \in Plain,
         OthersStay(r), Works(r)' => call'[r].act = a /\ call'[r].at \in Plain,
         row'[a].status = row[a].status, row'[a].undone = row[a].undone, row'[a].payload = row[a].payload,
         row'[a].undo = row[a].undo,
         effects'[a] = effects[a], ran'[a] = ran[a], replaced'[a] = replaced[a],
         ledger'[a] = ledger[a], Agrees(a)
  PROVE  Agrees(a)'
<1>1. \A s \in Requests : s # r => (On(s, a)' <=> On(s, a)) /\ call'[s] = call[s]
  BY DEF OthersStay, On, Works
<1>2. Applying(a)' = Applying(a) /\ r \notin Applying(a)
  BY <1>1 DEF Applying, Plain, On
<1>3. \A s \in Requests, place \in {"ledger", "undoLedger"} : Telling(s, a, place)' <=> Telling(s, a, place)
  BY <1>1 DEF Telling, Plain, On
<1>4. \A s \in Requests : Applying(a) = {s} /\ WillRecord(a, s) => WillRecord(a, s)'
  BY <1>1, <1>2 DEF WillRecord, Applying
<1>5. Settled(a) => Settled(a)'
  BY DEF Settled
<1>6. ToldOnce(a, "executed", "ledger", row[a].status = "executed")'
  BY <1>3 DEF Agrees, ToldOnce
<1>7. ToldOnce(a, "undone", "undoLedger", row[a].undone)'
  BY <1>3 DEF Agrees, ToldOnce
<1> QED
  BY <1>2, <1>4, <1>5, <1>6, <1>7 DEF Agrees

LEMMA ReadRowKeeps ==
  ASSUME ActionsInv, NEW r \in Requests, ReadRow(r)
  PROVE  ActionsInv'
<1>1. PICK a \in Actions : call[r].act = a /\ Telling(r, a, "read") /\ Undoable(a)
  BY WorksFor DEF ReadRow
<1>2. ActionTypeInv /\ Works(r) /\ call[r] \in Call /\ call[r].at = "read" /\ Knows(r) /\ row[a] \in Row
  BY <1>1, WorksFor, TypeParts DEF ReadRow, ActionsInv
<1>3. UNCHANGED <<row, old, records, field, histories, ledger, stale, lost, faults, starts>>
  BY DEF ReadRow
<1>4. /\ call' \in Calls
      /\ OthersStay(r)
      /\ \/ ~Works(r)'
         \/ /\ Proceeds(call[r].op, row[a])
            /\ call'[r] = Placed(Holding(call[r], row[a]), Lane(call[r].op, a))
  <2>1. CASE Proceeds(call[r].op, row[a])
    <3>1. Lane(call[r].op, a) \in Places
      BY <1>2 DEF Lane, Places, Call
    <3>2. call' = [call EXCEPT ![r].seen = row[a], ![r].at = Lane(call[r].op, a)]
      BY <1>1, <2>1 DEF ReadRow
    <3> QED
      BY <1>2, <2>1, <3>1, <3>2, Assigned DEF Becomes
  <2>2. CASE ~Proceeds(call[r].op, row[a])
    BY <1>1, <1>2, <2>2, Left DEF ReadRow, Becomes
  <2> QED
    BY <2>1, <2>2
<1>5. ActionTypeInv'
  BY <1>2, <1>3, <1>4 DEF ActionTypeInv, ActionsTypeOK, histories, Calls
<1>6. Works(r)' => /\ call'[r].act = a /\ call'[r].at \in Plain \ {"mark", "read"}
                   /\ call'[r].seen = row[a] /\ call'[r].undo = call[r].undo
                   /\ Proceeds(call[r].op, row[a]) /\ call'[r].at = Lane(call[r].op, a)
  BY <1>1, <1>2, <1>4 DEF Placed, Holding, Lane, Plain, Call
<1>7. About(r, a)
  BY <1>1, <1>2, <1>3, <1>4, <1>6, TypeParts DEF About, Elsewhere, histories
<1>8. Made(a)' = Made(a)
  BY <1>3 DEF Made, histories
<1>9. Works(r)' => Knows(r)'
  <2> SUFFICES ASSUME Works(r)' PROVE Knows(r)'
    OBVIOUS
  <2>1. call'[r].at \in Deciding => row[a].status = "pending"
    BY <1>2, <1>6 DEF Lane, Proceeds, Deciding, Call
  <2>2. call'[r].at \in Undoing => row[a].status = "executed" /\ ~row[a].undone /\ row[a].undo # NoUndo
    BY <1>2, <1>6 DEF Lane, Proceeds, Undoing, Call
  <2>3. call[r].undo \in Made(a) /\ row[a].undo \in Made(a)
    BY <1>1, <1>2 DEF Knows, Undoable
  <2>4. call'[r].at = "previous" => a \in Restoring
    BY <1>2, <1>6 DEF Lane, Call
  <2> QED
    BY <1>6, <1>8, <2>1, <2>2, <2>3, <2>4 DEF Knows, Plain
<1>10. Undoable(a)'
  BY <1>1, <1>3 DEF Undoable, Made, Gone, histories
<1>11. Clean(a)' => Agrees(a)'
  BY <1>1, <1>2, <1>3, <1>4, <1>6, PlainMove DEF ActionsInv, RowInv, Clean, histories, Telling, Plain
<1> QED
  BY <1>5, <1>7, <1>9, <1>10, <1>11, Locally

\* What r's step about a leaves of who is where.
LEMMA Places1 ==
  ASSUME NEW r \in Requests, NEW a \in Actions, OthersStay(r), Works(r)' => call'[r].act = a
  PROVE  /\ Applying(a)' \ {r} = Applying(a) \ {r}
         /\ r \in Applying(a)' <=> Works(r)' /\ call'[r].at \in {"record", "fail"}
         /\ \A s \in Requests : \A place : s # r => (Telling(s, a, place)' <=> Telling(s, a, place))
         /\ \A place : Telling(r, a, place)' <=> Works(r)' /\ call'[r].at = place
         /\ \A s \in Requests : s # r => call'[s] = call[s]
BY DEF OthersStay, Applying, On, Works, Telling

LEMMA RejectKeeps ==
  ASSUME ActionsInv, NEW r \in Requests, Reject(r)
  PROVE  ActionsInv'
<1>1. PICK a \in Actions : call[r].act = a /\ Telling(r, a, "reject") /\ Undoable(a)
  BY WorksFor DEF Reject
<1>2. /\ ActionTypeInv /\ Works(r) /\ call[r] \in Call /\ call[r].at = "reject" /\ Knows(r) /\ row[a] \in Row
      /\ call[r].seen.status = "pending"
  BY <1>1, WorksFor, TypeParts DEF Reject, ActionsInv, Knows, Deciding
<1>3. UNCHANGED <<old, records, field, histories, ledger, lost, faults, starts>>
  BY DEF Reject
<1>4. call' \in Calls /\ OthersStay(r) /\ ~Works(r)'
  BY <1>2, Left DEF Reject, Becomes
<1>5. /\ row' \in [Actions -> Row] /\ row'[a] = RowOf("rejected", row[a].payload, row[a].undo, row[a].undone)
      /\ stale' \in [Actions -> BOOLEAN] /\ (~stale'[a] => ~stale[a] /\ row[a] = call[r].seen)
      /\ \A b \in Actions : b # a => row'[b] = row[b] /\ stale'[b] = stale[b]
  BY <1>1, <1>2, TypeParts DEF Reject, Overwrites, Row, Statuses, RowOf
<1>6. ActionTypeInv'
  BY <1>2, <1>3, <1>4, <1>5 DEF ActionTypeInv, ActionsTypeOK, histories, Calls
<1>7. About(r, a)
  BY <1>1, <1>2, <1>3, <1>4, <1>5, TypeParts DEF About, Elsewhere, histories
<1>8. Undoable(a)'
  BY <1>1, <1>3, <1>5 DEF Undoable, Made, Gone, histories, RowOf
<1>9. Clean(a)' => Agrees(a)'
  <2> SUFFICES ASSUME Clean(a)' PROVE Agrees(a)'
    OBVIOUS
  <2>1. Clean(a) /\ row[a].status = "pending" /\ Agrees(a)
    BY <1>2, <1>3, <1>5 DEF Clean, ActionsInv, RowInv
  <2>2. Applying(a)' = Applying(a)
        /\ \A s \in Requests, place \in {"ledger", "undoLedger"} : Telling(s, a, place)' => Telling(s, a, place)
    BY <1>1, <1>2, <1>4, Places1 DEF Applying, On
  <2> QED
    BY <1>3, <1>5, <2>1, <2>2 DEF Agrees, Settled, ToldOnce, histories, RowOf
<1> QED
  BY <1>4, <1>6, <1>7, <1>8, <1>9, Locally

LEMMA PreviousKeeps ==
  ASSUME ActionsInv, NEW r \in Requests, Previous(r)
  PROVE  ActionsInv'
<1>1. PICK a \in Actions : call[r].act = a /\ Telling(r, a, "previous") /\ Undoable(a)
  BY WorksFor DEF Previous
<1>2. ActionTypeInv /\ Works(r) /\ call[r] \in Call /\ call[r].at = "previous" /\ Knows(r)
      /\ field \in Payloads \cup {Original}
  BY WorksFor DEF Previous, ActionsInv, ActionTypeInv, ActionsTypeOK
<1>3. UNCHANGED <<row, old, records, field, histories, ledger, stale, lost, faults, starts>>
  BY DEF Previous
<1>4. call' \in Calls /\ OthersStay(r) /\ call'[r] = Placed(Undoes(call[r], field), "execute")
  BY <1>2, Assigned DEF Previous, Becomes, Places, UndoInfo
<1>5. ActionTypeInv'
  BY <1>2, <1>3, <1>4 DEF ActionTypeInv, ActionsTypeOK, histories, Calls
<1>6. /\ call'[r].act = a /\ call'[r].at = "execute"
      /\ call'[r].seen = call[r].seen /\ call'[r].undo = field /\ Works(r)'
  BY <1>1, <1>2, <1>4 DEF Placed, Undoes, Works
<1>7. About(r, a)
  BY <1>1, <1>2, <1>3, <1>4, <1>6, TypeParts DEF About, Elsewhere, histories
<1>8. a \in Restoring
  BY <1>1, <1>2 DEF Knows
<1>9. Knows(r)'
  BY <1>1, <1>2, <1>3, <1>6, <1>8 DEF Knows, Deciding, Undoing, Made, histories
<1>10. Undoable(a)'
  BY <1>1, <1>3 DEF Undoable, Made, Gone, histories
<1>11. Clean(a)' => Agrees(a)'
  BY <1>1, <1>2, <1>3, <1>4, <1>6, PlainMove DEF ActionsInv, RowInv, Clean, histories, Telling, Plain
<1> QED
  BY <1>5, <1>7, <1>9, <1>10, <1>11, Locally

LEMMA ExecuteKeeps ==
  ASSUME ActionsInv, NEW r \in Requests, NEW outcome \in Outcomes, Execute(r, outcome)
  PROVE  ActionsInv'
<1>1. PICK a \in Actions : call[r].act = a /\ Telling(r, a, "execute") /\ Undoable(a)
  BY WorksFor DEF Execute
<1>2. /\ ActionTypeInv /\ Works(r) /\ call[r] \in Call /\ call[r].at = "execute" /\ Knows(r) /\ row[a] \in Row
      /\ call[r].seen.status = "pending"
      /\ field \in Payloads \cup {Original} /\ effects[a] \in Nat
      /\ call[r].seen.payload \in Payloads
  BY <1>1, WorksFor, TypeParts DEF Execute, Call, Row, ActionsInv, Knows, Deciding, ActionTypeInv, ActionsTypeOK
<1>3. PICK n \in Nat : n = effects[a] + 1
  BY <1>2
<1>4. UNCHANGED <<row, old, reverts, ledger, lost, starts>> /\ faults' \in 0 .. MaxFaults
  BY <1>2, ActionConstants DEF Execute, Counted, ActionTypeInv, ActionsTypeOK
<1>5. PICK undo \in UndoInfo, place \in {"record", "fail"} :
          undo = UndoOf(r, n) /\ place = AfterExecute(outcome)
  BY <1>2 DEF UndoOf, UndoInfo, AfterExecute, Call
<1>6. call' \in Calls /\ OthersStay(r) /\ call'[r] = Placed(Undoes(call[r], undo), place)
  <2>1. call' = [call EXCEPT ![r].undo = undo, ![r].at = place]
    BY <1>1, <1>3, <1>5 DEF Execute
  <2> QED
    BY <1>2, <1>5, <2>1, AssignedUndo DEF Becomes, Places
<1>7. /\ call'[r].act = a /\ call'[r].at = place /\ call'[r].seen = call[r].seen
      /\ call'[r].undo = undo /\ Works(r)'
  BY <1>1, <1>2, <1>6 DEF Placed, Undoes, Works
<1>8. /\ stale' \in [Actions -> BOOLEAN]
      /\ ~stale'[a] => /\ ~stale[a] /\ row[a] = call[r].seen
                       /\ a \in Restoring => field = call[r].undo
      /\ \A b \in Actions : b # a => stale'[b] = stale[b]
  BY <1>1, <1>2, TypeParts DEF Execute
<1>9. \/ /\ outcome = "refused"
         /\ UNCHANGED <<records, field, effects, ran, replaced>>
      \/ /\ outcome # "refused"
         /\ effects' = [effects EXCEPT ![a] = n] /\ ran' = [ran EXCEPT ![a] = call[r].seen.payload]
         /\ replaced' = [replaced EXCEPT ![a] = IF a \in Restoring THEN field ELSE n]
         /\ \/ a \in Restoring /\ field' = call[r].seen.payload /\ UNCHANGED records
            \/ a \notin Restoring /\ records' = records \cup {<<a, n>>} /\ UNCHANGED field
  BY <1>1, <1>3 DEF Execute
<1>10. ActionTypeInv'
  <2>1. effects' \in [Actions -> Nat] /\ ran' \in [Actions -> Payloads \cup {NoUndo}]
        /\ replaced' \in [Actions -> UndoInfo]
    BY <1>2, <1>3, <1>9 DEF ActionTypeInv, ActionsTypeOK, UndoInfo
  <2>2. records' \subseteq Actions \X Nat /\ field' \in Payloads \cup {Original}
    BY <1>2, <1>3, <1>9 DEF ActionTypeInv, ActionsTypeOK
  <2> QED
    BY <1>2, <1>4, <1>6, <1>8, <2>1, <2>2 DEF ActionTypeInv, ActionsTypeOK, Calls
<1>11. effects'[a] \in {effects[a], n} /\ (outcome # "refused" => effects'[a] = n)
  BY <1>2, <1>9, TypeParts
<1>12. About(r, a)
  <2>1. Elsewhere(a)
    BY <1>4, <1>8, <1>9, TypeParts, <1>2 DEF Elsewhere, ActionTypeInv
  <2>2. a \notin Restoring => \A m \in Made(a) : <<a, m>> \in records' => <<a, m>> \in records
    BY <1>2, <1>3, <1>9, ActionConstants DEF Made
  <2> QED
    BY <1>1, <1>2, <1>3, <1>4, <1>6, <1>7, <1>11, <2>1, <2>2, TypeParts DEF About
<1>13. Knows(r)'
  <2>1. Made(a) \subseteq Made(a)'
    BY <1>2, <1>3, <1>11 DEF Made
  <2>2. place = "record" => outcome # "refused" /\ undo \in Made(a)'
    BY <1>1, <1>2, <1>3, <1>5, <1>11 DEF AfterExecute, UndoOf, Made, Knows
  <2> QED
    BY <1>1, <1>2, <1>5, <1>7, <2>1, <2>2 DEF Knows, Deciding, Undoing, Made
<1>14. Undoable(a)'
  <2>1. Made(a) \subseteq Made(a)'
    BY <1>2, <1>3, <1>11 DEF Made
  <2>2. Gone(a, row[a].undo) => Gone(a, row[a].undo)'
    BY <1>1, <1>4, <1>12 DEF Gone, About, Undoable
  <2> QED
    BY <1>1, <1>4, <2>1, <2>2 DEF Undoable, Made, Gone
<1>15. Clean(a)' => Agrees(a)'
  <2> SUFFICES ASSUME Clean(a)' PROVE Agrees(a)'
    OBVIOUS
  <2>1. Clean(a) /\ row[a].status = "pending" /\ Agrees(a) /\ (a \in Restoring => field = call[r].undo)
    BY <1>2, <1>4, <1>8 DEF Clean, ActionsInv, RowInv
  <2>2. /\ r \in Applying(a)' /\ r \notin Applying(a) /\ Applying(a)' \ {r} = Applying(a)
        /\ \A s \in Requests, where \in {"ledger", "undoLedger"} : Telling(s, a, where)' => Telling(s, a, where)
    BY <1>1, <1>2, <1>5, <1>6, <1>7, Places1 DEF Applying, On
  <2>3. \A s \in Requests : Applying(a)' = {s} => WillRecord(a, s)'
    <3> SUFFICES ASSUME Applying(a)' = {r} PROVE WillRecord(a, r)'
      BY <2>2
    <3>1. effects[a] = 0
      BY <2>1, <2>2 DEF Agrees, Settled
    <3>2. place = "record" => outcome = "ok"
      BY <1>5 DEF AfterExecute
    <3>3. outcome # "refused" /\ place = "record" => replaced'[a] = undo
      BY <1>1, <1>2, <1>5, <1>9, <2>1 DEF UndoOf, ActionTypeInv
    <3>4. outcome # "refused" => ran'[a] = call[r].seen.payload
      BY <1>2, <1>9 DEF ActionTypeInv
    <3> QED
      BY <1>3, <1>7, <1>11, <3>1, <3>2, <3>3, <3>4 DEF WillRecord
  <2> QED
    BY <1>4, <2>1, <2>2, <2>3 DEF Agrees, ToldOnce
<1> QED
  BY <1>10, <1>12, <1>13, <1>14, <1>15, Locally

LEMMA RecordKeeps ==
  ASSUME ActionsInv, NEW r \in Requests, NEW outcome \in Outcomes, Record(r, outcome)
  PROVE  ActionsInv'
<1>1. PICK a \in Actions : call[r].act = a /\ Telling(r, a, "record") /\ Undoable(a)
  BY WorksFor DEF Record
<1>2. /\ ActionTypeInv /\ Works(r) /\ call[r] \in Call /\ call[r].at = "record" /\ Knows(r) /\ row[a] \in Row
      /\ call[r].seen.status = "pending" /\ call[r].undo \in UndoInfo
  BY <1>1, WorksFor, TypeParts DEF Record, ActionsInv, Knows, Deciding, Call
<1>3. UNCHANGED <<old, records, field, histories, ledger, lost, starts>> /\ faults' \in 0 .. MaxFaults
  BY <1>2, ActionConstants DEF Record, Counted, ActionTypeInv, ActionsTypeOK
<1>4. PICK place \in {"ledger", "fail"} : place = IF outcome = "ok" THEN "ledger" ELSE "fail"
  OBVIOUS
<1>5. call' \in Calls /\ OthersStay(r) /\ call'[r] = Placed(call[r], place)
  BY <1>2, <1>4, Went DEF Record, Becomes, Places
<1>6. /\ call'[r].act = a /\ call'[r].at = place /\ call'[r].seen = call[r].seen
      /\ call'[r].undo = call[r].undo /\ Works(r)'
  BY <1>1, <1>2, <1>5 DEF Placed, Works
<1>7. /\ row' \in [Actions -> Row]
      /\ row'[a] = IF outcome = "refused" THEN row[a]
                   ELSE RowOf("executed", row[a].payload, call[r].undo, FALSE)
      /\ stale' \in [Actions -> BOOLEAN] /\ (~stale'[a] => ~stale[a] /\ row[a] = call[r].seen)
      /\ \A b \in Actions : b # a => row'[b] = row[b] /\ stale'[b] = stale[b]
  <2>1. row' = IF outcome = "refused" THEN row
               ELSE [row EXCEPT ![a].status = "executed", ![a].undo = call[r].undo, ![a].undone = FALSE]
    BY <1>1 DEF Record
  <2>2. /\ stale' \in [Actions -> BOOLEAN] /\ (~stale'[a] => ~stale[a] /\ row[a] = call[r].seen)
        /\ \A b \in Actions : b # a => stale'[b] = stale[b]
    BY <1>1, <1>2, TypeParts DEF Record, Overwrites
  <2>3. CASE outcome = "refused"
    BY <1>2, <2>1, <2>2, <2>3, TypeParts
  <2>4. CASE outcome # "refused"
    <3>1. PICK undo \in UndoInfo : undo = call[r].undo
      BY <1>2
    <3>2. row \in [Actions -> Row]
      BY <1>2, TypeParts
    <3>3. row' = [row EXCEPT ![a].status = "executed", ![a].undo = undo, ![a].undone = FALSE]
      BY <2>1, <2>4, <3>1
    <3>4. /\ row' \in [Actions -> Row] /\ row'[a] = RowOf("executed", row[a].payload, undo, FALSE)
          /\ \A b \in Actions : b # a => row'[b] = row[b]
      BY <3>1, <3>2, <3>3 DEF Row, Statuses, RowOf
    <3> QED
      BY <2>2, <2>4, <3>1, <3>4
  <2> QED
    BY <2>3, <2>4
<1>8. ActionTypeInv'
  BY <1>2, <1>3, <1>5, <1>7 DEF ActionTypeInv, ActionsTypeOK, histories, Calls
<1>9. About(r, a)
  BY <1>1, <1>2, <1>3, <1>5, <1>6, <1>7, TypeParts DEF About, Elsewhere, histories
<1>10. Knows(r)'
  BY <1>1, <1>2, <1>3, <1>4, <1>6 DEF Knows, Deciding, Undoing, Made, histories
<1>11. Undoable(a)'
  BY <1>1, <1>2, <1>3, <1>7 DEF Undoable, Knows, Made, Gone, histories, RowOf
<1>12. Clean(a)' => Agrees(a)'
  <2> SUFFICES ASSUME Clean(a)' PROVE Agrees(a)'
    OBVIOUS
  <2>1. /\ Clean(a) /\ row[a].status = "pending" /\ row[a].payload = call[r].seen.payload
        /\ Agrees(a) /\ ~row[a].undone
    BY <1>2, <1>3, <1>7 DEF Clean, ActionsInv, RowInv, Agrees
  <2>2. /\ r \in Applying(a) /\ Applying(a)' \ {r} = Applying(a) \ {r}
        /\ \A s \in Requests : \A where : s # r => (Telling(s, a, where)' <=> Telling(s, a, where))
        /\ \A where : Telling(r, a, where)' <=> place = where
        /\ r \in Applying(a)' <=> place = "fail"
    BY <1>1, <1>2, <1>4, <1>5, <1>6, Places1 DEF Applying, On, Telling
  <2>3. Applying(a) = {r} => WillRecord(a, r)
    BY <2>1 DEF Agrees
  <2>4. CASE outcome = "refused"
    <3>1. Applying(a)' = Applying(a) /\ place = "fail"
      BY <1>4, <2>2, <2>4
    <3>2. \A s \in Requests : Applying(a)' = {s} => WillRecord(a, s)'
      BY <1>3, <1>6, <2>2, <2>3, <3>1 DEF WillRecord, histories
    <3> QED
      BY <1>3, <1>7, <2>1, <2>2, <2>4, <3>1, <3>2 DEF Agrees, ToldOnce, histories
  <2>5. CASE outcome # "refused"
    <3>1. /\ row'[a].status = "executed" /\ row'[a].payload = row[a].payload
          /\ row'[a].undo = call[r].undo /\ row'[a].undone = FALSE
      BY <1>7, <2>5 DEF RowOf
    <3>2. Applying(a)' = {} => Settled(a)'
      <4>1. SUFFICES ASSUME Applying(a)' = {} PROVE Settled(a)'
        OBVIOUS
      <4>2. WillRecord(a, r)
        BY <2>2, <2>3, <4>1
      <4> QED
        BY <1>2, <1>3, <2>1, <3>1, <4>2 DEF WillRecord, Settled, histories
    <3>3. ToldOnce(a, "executed", "ledger", row[a].status = "executed")'
      BY <1>3, <2>1, <2>2, <3>1 DEF ToldOnce, Agrees
    <3>4. ToldOnce(a, "undone", "undoLedger", row[a].undone)'
      BY <1>3, <1>4, <2>1, <2>2, <3>1 DEF ToldOnce, Agrees
    <3> QED
      BY <3>1, <3>2, <3>3, <3>4 DEF Agrees
  <2> QED
    BY <2>4, <2>5
<1> QED
  BY <1>8, <1>9, <1>10, <1>11, <1>12, Locally

LEMMA MarkFailedKeeps ==
  ASSUME ActionsInv, NEW r \in Requests, NEW outcome \in Outcomes, MarkFailed(r, outcome)
  PROVE  ActionsInv'
<1>1. PICK a \in Actions : call[r].act = a /\ Telling(r, a, "fail") /\ Undoable(a)
  BY WorksFor DEF MarkFailed
<1>2. /\ ActionTypeInv /\ Works(r) /\ call[r] \in Call /\ call[r].at = "fail" /\ Knows(r) /\ row[a] \in Row
      /\ call[r].seen.status = "pending"
  BY <1>1, WorksFor, TypeParts DEF MarkFailed, ActionsInv, Knows, Deciding
<1>3. UNCHANGED <<old, records, field, histories, ledger, starts>> /\ faults' \in 0 .. MaxFaults
  BY <1>2, ActionConstants DEF MarkFailed, Counted, ActionTypeInv, ActionsTypeOK
<1>4. call' \in Calls /\ OthersStay(r) /\ ~Works(r)'
  BY <1>2, Left DEF MarkFailed, Becomes
<1>5. /\ row' \in [Actions -> Row]
      /\ row'[a] = IF outcome = "refused" THEN row[a]
                   ELSE RowOf("failed", row[a].payload, row[a].undo, row[a].undone)
      /\ stale' \in [Actions -> BOOLEAN] /\ (~stale'[a] => ~stale[a] /\ row[a] = call[r].seen)
      /\ \A b \in Actions : b # a => row'[b] = row[b] /\ stale'[b] = stale[b]
  <2>1. row' = IF outcome = "refused" THEN row ELSE [row EXCEPT ![a].status = "failed"]
    BY <1>1 DEF MarkFailed
  <2>2. /\ stale' \in [Actions -> BOOLEAN] /\ (~stale'[a] => ~stale[a] /\ row[a] = call[r].seen)
        /\ \A b \in Actions : b # a => stale'[b] = stale[b]
    BY <1>1, <1>2, TypeParts DEF MarkFailed, Overwrites
  <2>3. outcome # "refused" =>
          /\ row' \in [Actions -> Row]
          /\ row'[a] = RowOf("failed", row[a].payload, row[a].undo, row[a].undone)
          /\ \A b \in Actions : b # a => row'[b] = row[b]
    BY <1>2, <2>1, TypeParts DEF Row, Statuses, RowOf
  <2> QED
    BY <1>2, <2>1, <2>2, <2>3, TypeParts
<1>6. /\ lost' \in [Actions -> BOOLEAN] /\ (~lost'[a] => ~lost[a] /\ outcome # "refused")
      /\ \A b \in Actions : b # a => lost'[b] = lost[b]
  BY <1>1, <1>2, TypeParts DEF MarkFailed
<1>7. ActionTypeInv'
  BY <1>2, <1>3, <1>4, <1>5, <1>6 DEF ActionTypeInv, ActionsTypeOK, histories, Calls
<1>8. About(r, a)
  BY <1>1, <1>2, <1>3, <1>4, <1>5, <1>6, TypeParts DEF About, Elsewhere, histories
<1>9. Undoable(a)'
  BY <1>1, <1>3, <1>5 DEF Undoable, Made, Gone, histories, RowOf
<1>10. Clean(a)' => Agrees(a)'
  <2> SUFFICES ASSUME Clean(a)' PROVE Agrees(a)'
    OBVIOUS
  <2>1. /\ Clean(a) /\ row[a].status = "pending" /\ Agrees(a) /\ ~row[a].undone
        /\ outcome # "refused"
    BY <1>2, <1>5, <1>6 DEF Clean, ActionsInv, RowInv, Agrees
  <2>2. /\ r \in Applying(a) /\ Applying(a)' = Applying(a) \ {r}
        /\ \A s \in Requests, where \in {"ledger", "undoLedger"} : Telling(s, a, where)' => Telling(s, a, where)
    BY <1>1, <1>2, <1>4, Places1 DEF Applying, On, Telling
  <2>3. Applying(a)' = {} => effects[a] <= 1
    BY <2>1, <2>2 DEF Agrees, WillRecord
  <2>4. row'[a].status = "failed" /\ row'[a].undone = row[a].undone
    BY <1>5, <2>1 DEF RowOf
  <2>5. ToldOnce(a, "executed", "ledger", row[a].status = "executed")'
    BY <1>3, <2>1, <2>2, <2>4 DEF ToldOnce, Agrees
  <2>6. ToldOnce(a, "undone", "undoLedger", row[a].undone)'
    BY <1>3, <2>1, <2>2, <2>4 DEF ToldOnce, Agrees
  <2> QED
    BY <1>3, <2>1, <2>3, <2>4, <2>5, <2>6 DEF Agrees, Settled, histories
<1> QED
  BY <1>4, <1>7, <1>8, <1>9, <1>10, Locally

LEMMA WriteLedgerKeeps ==
  ASSUME ActionsInv, NEW r \in Requests, NEW outcome \in Outcomes, WriteLedger(r, outcome)
  PROVE  ActionsInv'
<1>1. PICK entry \in {"executed", "undone"} :
        /\ At(r, IF entry = "executed" THEN "ledger" ELSE "undoLedger")
        /\ ledger' = IF outcome = "refused" THEN ledger
                     ELSE [ledger EXCEPT ![call[r].act][entry] = @ + 1]
  BY DEF WriteLedger
<1>2. PICK place \in {"ledger", "undoLedger"} : place = IF entry = "executed" THEN "ledger" ELSE "undoLedger"
  BY <1>1
<1>3. PICK a \in Actions : call[r].act = a /\ Telling(r, a, place) /\ Undoable(a)
  BY <1>1, <1>2, WorksFor
<1>4. ActionTypeInv /\ Works(r) /\ call[r] \in Call /\ call[r].at = place /\ Knows(r)
  BY <1>1, <1>2, WorksFor DEF ActionsInv
<1>5. UNCHANGED <<row, old, records, field, histories, stale, lost, starts>> /\ faults' \in 0 .. MaxFaults
  BY <1>4, ActionConstants DEF WriteLedger, Counted, ActionTypeInv, ActionsTypeOK
<1>6. call' \in Calls /\ OthersStay(r) /\ ~Works(r)'
  BY <1>4, Left DEF WriteLedger, Becomes
<1>7. /\ ledger' \in [Actions -> [executed : Nat, undone : Nat]]
      /\ entry = "executed" => /\ ledger'[a].executed \in {ledger[a].executed, ledger[a].executed + 1}
                               /\ ledger'[a].undone = ledger[a].undone
      /\ entry = "undone" => /\ ledger'[a].undone \in {ledger[a].undone, ledger[a].undone + 1}
                             /\ ledger'[a].executed = ledger[a].executed
      /\ \A b \in Actions : b # a => ledger'[b] = ledger[b]
  <2>1. CASE entry = "executed"
    BY <1>1, <1>3, <1>4, <2>1, TypeParts
  <2>2. CASE entry = "undone"
    BY <1>1, <1>3, <1>4, <2>2, TypeParts
  <2> QED
    BY <2>1, <2>2
<1>8. ActionTypeInv'
  BY <1>4, <1>5, <1>6, <1>7 DEF ActionTypeInv, ActionsTypeOK, histories, Calls
<1>9. About(r, a)
  BY <1>3, <1>4, <1>5, <1>6, <1>7, TypeParts DEF About, Elsewhere, histories
<1>10. Undoable(a)'
  BY <1>3, <1>5 DEF Undoable, Made, Gone, histories
<1>11. Clean(a)' => Agrees(a)'
  <2> SUFFICES ASSUME Clean(a)' PROVE Agrees(a)'
    OBVIOUS
  <2>1. Clean(a) /\ Agrees(a)
    BY <1>5 DEF Clean, ActionsInv, RowInv
  <2>2. /\ Applying(a)' = Applying(a)
        /\ \A s \in Requests : \A where : Telling(s, a, where)' <=> s # r /\ Telling(s, a, where)
        /\ \A s \in Requests : s # r => call'[s] = call[s]
    BY <1>2, <1>3, <1>4, <1>6, Places1 DEF Applying, On, Telling
  <2>3. ToldOnce(a, "executed", "ledger", row[a].status = "executed")'
    BY <1>2, <1>3, <1>5, <1>7, <2>1, <2>2, TypeParts, <1>4 DEF ToldOnce, Agrees
  <2>4. ToldOnce(a, "undone", "undoLedger", row[a].undone)'
    BY <1>2, <1>3, <1>5, <1>7, <2>1, <2>2, TypeParts, <1>4 DEF ToldOnce, Agrees
  <2>5. \A s \in Requests : Applying(a) = {s} /\ WillRecord(a, s) => WillRecord(a, s)'
    BY <1>2, <1>4, <1>5, <2>2 DEF WillRecord, Applying, histories
  <2>6. Settled(a) => Settled(a)'
    BY <1>5 DEF Settled, histories
  <2> QED
    BY <1>5, <2>1, <2>2, <2>3, <2>4, <2>5, <2>6 DEF Agrees
<1> QED
  BY <1>6, <1>8, <1>9, <1>10, <1>11, Locally

LEMMA RevertKeeps ==
  ASSUME ActionsInv, NEW r \in Requests, NEW outcome \in Outcomes, Revert(r, outcome)
  PROVE  ActionsInv'
<1>1. PICK a \in Actions : call[r].act = a /\ Telling(r, a, "revert") /\ Undoable(a)
  BY WorksFor DEF Revert
<1>2. /\ ActionTypeInv /\ Works(r) /\ call[r] \in Call /\ call[r].at = "revert" /\ Knows(r)
      /\ reverts[a] \in Nat
  BY <1>1, WorksFor, TypeParts DEF Revert, ActionsInv
<1>3. PICK undo : undo = call[r].seen.undo
  OBVIOUS
<1>4. undo \in Made(a) /\ undo # NoUndo
  BY <1>1, <1>2, <1>3 DEF Knows, Undoing
<1>5. UNCHANGED <<row, old, effects, ran, replaced, ledger, stale, lost, starts>>
      /\ faults' \in 0 .. MaxFaults
  BY <1>2, ActionConstants DEF Revert, Counted, ActionTypeInv, ActionsTypeOK
<1>6. \/ outcome = "refused" /\ UNCHANGED <<records, field, reverts>>
      \/ /\ outcome # "refused" /\ reverts' = [reverts EXCEPT ![a] = @ + 1]
         /\ \/ a \in Restoring /\ field' = undo /\ UNCHANGED records
            \/ a \notin Restoring /\ records' = records \ {<<a, undo>>} /\ UNCHANGED field
  BY <1>1, <1>3 DEF Revert
<1>7. /\ call' \in Calls /\ OthersStay(r)
      /\ \/ ~Works(r)'
         \/ outcome = "ok" /\ call'[r] = Placed(call[r], "mark")
  BY <1>2, Left, Went DEF Revert, AfterRevert, Becomes, Places
<1>8. Works(r)' => /\ outcome = "ok" /\ call'[r].act = a /\ call'[r].at = "mark"
                   /\ call'[r].seen = call[r].seen /\ call'[r].undo = call[r].undo
  BY <1>1, <1>7 DEF Placed
<1>9. reverts' \in [Actions -> Nat] /\ reverts'[a] >= reverts[a] /\ (outcome # "refused" => reverts'[a] > 0)
      /\ \A b \in Actions : b # a => reverts'[b] = reverts[b]
  BY <1>2, <1>6, TypeParts
<1>10. records' \subseteq records /\ (outcome # "refused" /\ a \notin Restoring => <<a, undo>> \notin records')
  BY <1>6
<1>11. field' \in Payloads \cup {Original}
  BY <1>2, <1>4, <1>6 DEF Made, ActionTypeInv, ActionsTypeOK
<1>12. ActionTypeInv'
  BY <1>2, <1>5, <1>7, <1>9, <1>10, <1>11 DEF ActionTypeInv, ActionsTypeOK, Calls
<1>13. About(r, a)
  BY <1>1, <1>2, <1>5, <1>7, <1>8, <1>9, <1>10, TypeParts DEF About, Elsewhere
<1>14. Works(r)' => Knows(r)'
  <2> SUFFICES ASSUME Works(r)' PROVE Knows(r)'
    OBVIOUS
  <2>1. Gone(a, undo)'
    BY <1>8, <1>9, <1>10 DEF Gone
  <2>2. Made(a)' = Made(a)
    BY <1>5 DEF Made
  <2> QED
    BY <1>1, <1>2, <1>3, <1>4, <1>8, <2>1, <2>2 DEF Knows, Deciding, Undoing, Gone
<1>15. Undoable(a)'
  BY <1>1, <1>2, <1>5, <1>9, <1>10 DEF Undoable, Made, Gone
<1>16. Clean(a)' => Agrees(a)'
  BY <1>1, <1>2, <1>5, <1>7, <1>8, PlainMove DEF ActionsInv, RowInv, Clean, Telling, Plain
<1> QED
  BY <1>12, <1>13, <1>14, <1>15, <1>16, Locally

LEMMA MarkKeeps ==
  ASSUME ActionsInv, NEW r \in Requests, NEW outcome \in Outcomes, Mark(r, outcome)
  PROVE  ActionsInv'
<1>1. PICK a \in Actions : call[r].act = a /\ Telling(r, a, "mark") /\ Undoable(a)
  BY WorksFor DEF Mark
<1>2. /\ ActionTypeInv /\ Works(r) /\ call[r] \in Call /\ call[r].at = "mark" /\ Knows(r) /\ row[a] \in Row
      /\ call[r].seen.status = "executed" /\ ~call[r].seen.undone
  BY <1>1, WorksFor, TypeParts DEF Mark, ActionsInv, Knows, Undoing
<1>3. PICK undo \in UndoInfo : undo = call[r].seen.undo
  BY <1>2 DEF Call, Row
<1>4. undo \in Made(a) /\ Gone(a, undo)
  BY <1>1, <1>2, <1>3 DEF Knows
<1>5. UNCHANGED <<old, records, field, histories, ledger, lost, starts>> /\ faults' \in 0 .. MaxFaults
  BY <1>2, ActionConstants DEF Mark, Counted, ActionTypeInv, ActionsTypeOK
<1>6. /\ call' \in Calls /\ OthersStay(r)
      /\ \/ ~Works(r)' /\ outcome # "ok"
         \/ outcome = "ok" /\ call'[r] = Placed(call[r], "undoLedger")
  BY <1>2, Left, Went DEF Mark, Becomes, Places
<1>7. Works(r)' => /\ outcome = "ok" /\ call'[r].act = a /\ call'[r].at = "undoLedger"
                   /\ call'[r].seen = call[r].seen /\ call'[r].undo = call[r].undo
  BY <1>1, <1>6 DEF Placed
<1>8. /\ row' \in [Actions -> Row]
      /\ row'[a].status = row[a].status /\ row'[a].payload = row[a].payload
      /\ outcome = "refused" => row'[a] = row[a]
      /\ outcome # "refused" => row'[a].undo = undo /\ row'[a].undone
      /\ stale' \in [Actions -> BOOLEAN] /\ (~stale'[a] => ~stale[a] /\ row[a] = call[r].seen)
      /\ \A b \in Actions : b # a => row'[b] = row[b] /\ stale'[b] = stale[b]
  <2>1. row' = IF outcome = "refused" THEN row ELSE [row EXCEPT ![a].undo = undo, ![a].undone = TRUE]
    BY <1>1, <1>3 DEF Mark
  <2>2. /\ stale' \in [Actions -> BOOLEAN] /\ (~stale'[a] => ~stale[a] /\ row[a] = call[r].seen)
        /\ \A b \in Actions : b # a => stale'[b] = stale[b]
    BY <1>1, <1>2, TypeParts DEF Mark, Overwrites
  <2>3. row \in [Actions -> Row]
    BY <1>2, TypeParts
  <2>4. CASE outcome = "refused"
    BY <1>2, <2>1, <2>2, <2>3, <2>4
  <2>5. CASE outcome # "refused"
    <3>1. row' = [row EXCEPT ![a].undo = undo, ![a].undone = TRUE]
      BY <2>1, <2>5
    <3>2. /\ row' \in [Actions -> Row] /\ row'[a].undo = undo /\ row'[a].undone
          /\ row'[a].status = row[a].status /\ row'[a].payload = row[a].payload
          /\ \A b \in Actions : b # a => row'[b] = row[b]
      BY <1>3, <2>3, <3>1 DEF Row
    <3> QED
      BY <2>2, <2>5, <3>2
  <2> QED
    BY <2>4, <2>5
<1>9. ActionTypeInv'
  BY <1>2, <1>5, <1>6, <1>8 DEF ActionTypeInv, ActionsTypeOK, histories, Calls
<1>10. About(r, a)
  BY <1>1, <1>2, <1>5, <1>6, <1>7, <1>8, TypeParts DEF About, Elsewhere, histories
<1>11. Works(r)' => Knows(r)'
  BY <1>1, <1>2, <1>5, <1>7 DEF Knows, Deciding, Undoing, Made, histories
<1>12. Undoable(a)'
  BY <1>1, <1>4, <1>5, <1>8 DEF Undoable, Made, Gone, histories
<1>13. Clean(a)' => Agrees(a)'
  <2> SUFFICES ASSUME Clean(a)' PROVE Agrees(a)'
    OBVIOUS
  <2>1. /\ Clean(a) /\ row[a].status = "executed" /\ Agrees(a) /\ ~row[a].undone
        /\ row[a].undo = undo
    BY <1>2, <1>3, <1>5, <1>8 DEF Clean, ActionsInv, RowInv
  <2>2. /\ Applying(a)' = Applying(a)
        /\ \A s \in Requests : \A where : s # r => (Telling(s, a, where)' <=> Telling(s, a, where))
        /\ \A where : Telling(r, a, where)' <=> outcome = "ok" /\ where = "undoLedger"
        /\ ~Telling(r, a, "ledger")
    BY <1>1, <1>2, <1>6, <1>7, Places1 DEF Applying, On, Telling, Placed, Works
  <2>3. /\ row'[a].status = "executed" /\ row'[a].payload = row[a].payload /\ row'[a].undo = row[a].undo
        /\ (outcome = "refused" => ~row'[a].undone) /\ (outcome # "refused" => row'[a].undone)
    BY <1>8, <2>1
  <2>4. ToldOnce(a, "executed", "ledger", row[a].status = "executed")'
    BY <1>5, <2>1, <2>2, <2>3 DEF ToldOnce, Agrees
  <2>5. ToldOnce(a, "undone", "undoLedger", row[a].undone)'
    BY <1>5, <2>1, <2>2, <2>3 DEF ToldOnce, Agrees
  <2>6. Settled(a) => Settled(a)'
    BY <1>5, <2>1, <2>3 DEF Settled, histories
  <2> QED
    BY <2>1, <2>2, <2>3, <2>4, <2>5, <2>6 DEF Agrees
<1> QED
  BY <1>9, <1>10, <1>11, <1>12, <1>13, Locally

LEMMA EditKeeps ==
  ASSUME ActionsInv, NEW r \in Requests, NEW p \in Payloads, Edit(r, p)
  PROVE  ActionsInv'
<1>1. PICK a \in Actions : call[r].act = a /\ Telling(r, a, "write") /\ Undoable(a)
  BY WorksFor DEF Edit
<1>2. /\ ActionTypeInv /\ Works(r) /\ call[r] \in Call /\ call[r].at = "write" /\ Knows(r) /\ row[a] \in Row
      /\ call[r].seen.status = "pending"
  BY <1>1, WorksFor, TypeParts DEF Edit, ActionsInv, Knows, Deciding
<1>3. UNCHANGED <<old, records, field, histories, ledger, lost, faults, starts>>
  BY DEF Edit
<1>4. call' \in Calls /\ OthersStay(r) /\ ~Works(r)'
  BY <1>2, Left DEF Edit, Becomes
<1>5. /\ row' \in [Actions -> Row] /\ row'[a] = RowOf(row[a].status, p, row[a].undo, row[a].undone)
      /\ stale' \in [Actions -> BOOLEAN] /\ (~stale'[a] => ~stale[a] /\ row[a] = call[r].seen)
      /\ \A b \in Actions : b # a => row'[b] = row[b] /\ stale'[b] = stale[b]
  BY <1>1, <1>2, TypeParts DEF Edit, Overwrites, Row, Statuses, RowOf
<1>6. ActionTypeInv'
  BY <1>2, <1>3, <1>4, <1>5 DEF ActionTypeInv, ActionsTypeOK, histories, Calls
<1>7. About(r, a)
  BY <1>1, <1>2, <1>3, <1>4, <1>5, TypeParts DEF About, Elsewhere, histories
<1>8. Undoable(a)'
  BY <1>1, <1>3, <1>5 DEF Undoable, Made, Gone, histories, RowOf
<1>9. Clean(a)' => Agrees(a)'
  <2> SUFFICES ASSUME Clean(a)' PROVE Agrees(a)'
    OBVIOUS
  <2>1. Clean(a) /\ row[a].status = "pending" /\ Agrees(a)
    BY <1>2, <1>3, <1>5 DEF Clean, ActionsInv, RowInv
  <2>2. /\ Applying(a)' = Applying(a)
        /\ \A s \in Requests, place \in {"ledger", "undoLedger"} : Telling(s, a, place)' => Telling(s, a, place)
        /\ \A s \in Applying(a) : call'[s] = call[s]
    BY <1>1, <1>2, <1>4, Places1 DEF Applying, On
  <2>3. row'[a].status = row[a].status /\ row'[a].undone = row[a].undone
    BY <1>5 DEF RowOf
  <2>4. ASSUME NEW s \in Requests, Applying(a) = {s}, WillRecord(a, s) PROVE WillRecord(a, s)'
    <3>1. call'[s] = call[s]
      BY <2>2, <2>4
    <3> QED
      BY <1>3, <2>4, <3>1 DEF WillRecord, histories
  <2> QED
    BY <1>3, <2>1, <2>2, <2>3, <2>4 DEF Agrees, Settled, ToldOnce, histories
<1> QED
  BY <1>4, <1>6, <1>7, <1>8, <1>9, Locally

-----------------------------------------------------------------------------
(* Entering, and what no route does *)

LEMMA EnteringCall ==
  ASSUME NEW what \in {"approve", "reject", "undo", "edit"}, NEW a \in Actions
  PROVE  /\ Entering(what, a) \in Call /\ Entering(what, a).act = a /\ Entering(what, a).at = "read"
         /\ Entering(what, a).seen.undo = NoUndo /\ Entering(what, a).undo = NoUndo
BY ActionConstants DEF Entering, Call, Places, NoRow, Row, Statuses, UndoInfo

\* Where nobody who acts for b, and nothing said of b, changes.
LEMMA SameAction ==
  ASSUME NEW b \in Actions, Agrees(b),
         \A s \in Requests : On(s, b)' \/ On(s, b) =>
            \/ On(s, b)' /\ On(s, b) /\ call'[s].at = call[s].at /\ call'[s].seen = call[s].seen
                         /\ call'[s].undo = call[s].undo
            \/ ~On(s, b) /\ call'[s].at \in Plain
            \/ ~On(s, b)' /\ call[s].at \notin {"record", "fail"},
         row'[b].status = row[b].status \/ (row[b].status = "none" /\ row'[b].status = "pending"),
         row'[b].undone = row[b].undone,
         row[b].status = "executed" => row'[b].payload = row[b].payload /\ row'[b].undo = row[b].undo,
         effects'[b] = effects[b], ran'[b] = ran[b], replaced'[b] = replaced[b], ledger'[b] = ledger[b]
  PROVE  Agrees(b)'
<1>1. Applying(b)' = Applying(b)
  BY DEF Applying, Plain
<1>2. \A s \in Requests, place \in {"ledger", "undoLedger"} : Telling(s, b, place)' => Telling(s, b, place)
  BY DEF Telling, Plain
<1>3. ASSUME NEW s \in Requests, Applying(b) = {s}, WillRecord(b, s) PROVE WillRecord(b, s)'
  <2>1. On(s, b) /\ call[s].at \in {"record", "fail"}
    BY <1>3 DEF Applying
  <2>2. On(s, b)' /\ call'[s].at \in {"record", "fail"}
    BY <1>1, <1>3 DEF Applying
  <2>3. call'[s].at = call[s].at /\ call'[s].seen = call[s].seen /\ call'[s].undo = call[s].undo
    BY <2>1, <2>2
  <2> QED
    BY <1>3, <2>3 DEF WillRecord
<1>4. Settled(b) => Settled(b)'
  BY DEF Settled
<1>5. ToldOnce(b, "executed", "ledger", row[b].status = "executed")'
  BY <1>2 DEF Agrees, ToldOnce
<1>6. ToldOnce(b, "undone", "undoLedger", row[b].undone)'
  BY <1>2 DEF Agrees, ToldOnce
<1> QED
  BY <1>1, <1>3, <1>4, <1>5, <1>6 DEF Agrees

\* An invocation that is idle enters for a.
LEMMA EnterKeeps ==
  ASSUME ActionsInv, ActionTypeInv', NEW r \in Requests, NEW a \in Actions, ~Works(r),
         NEW what \in {"approve", "reject", "undo", "edit"},
         Becomes(r, Entering(what, a)) \/ Becomes(r, call[r]),
         Elsewhere(a), UNCHANGED <<records, effects, reverts, ran, replaced, ledger, stale, lost>>,
         row'[a].status = row[a].status \/ (row[a].status = "none" /\ row'[a].status = "pending"),
         row'[a].undone = row[a].undone, row'[a].undo = row[a].undo,
         row[a].status = "executed" => row'[a].payload = row[a].payload
  PROVE  ActionsInv'
<1>1. /\ OthersStay(r)
      /\ Works(r)' => /\ call'[r].act = a /\ call'[r].at = "read" /\ call'[r].undo = NoUndo
                      /\ call'[r].seen.undo = NoUndo
  BY EnteringCall DEF Becomes, Works
<1>2. About(r, a)
  BY <1>1, TypeParts DEF About, ActionsInv
<1>3. Works(r)' => Knows(r)'
  BY <1>1 DEF Knows, Made, Deciding, Undoing
<1>4. Undoable(a)'
  BY DEF Undoable, ActionsInv, UndoInv, Made, Gone
<1>5. \A s \in Requests : On(s, a)' \/ On(s, a) =>
            \/ On(s, a)' /\ On(s, a) /\ call'[s].at = call[s].at /\ call'[s].seen = call[s].seen
                         /\ call'[s].undo = call[s].undo
            \/ ~On(s, a) /\ call'[s].at \in Plain
            \/ ~On(s, a)' /\ call[s].at \notin {"record", "fail"}
  BY <1>1 DEF On, Works, OthersStay, Plain
<1>6. Clean(a)' => Agrees(a)'
  BY <1>5, SameAction DEF ActionsInv, RowInv, Clean
<1> QED
  BY <1>2, <1>3, <1>4, <1>6, Locally

LEMMA ProposeKeeps ==
  ASSUME ActionsInv, NEW r \in Requests, NEW a \in Actions, NEW p \in Payloads, NEW auto \in BOOLEAN,
         Propose(r, a, p, auto)
  PROVE  ActionsInv'
<1>1. /\ ActionTypeInv /\ ~Works(r) /\ call[r] = Idle /\ row[a] \in Row /\ row[a].status = "none"
      /\ row \in [Actions -> Row]
  BY IdleRests, TypeParts DEF ActionsInv, Propose
<1>2. UNCHANGED <<old, records, field, histories, ledger, stale, lost, faults, starts>>
  BY DEF Propose
<1>3. call' \in Calls /\ (Becomes(r, Entering("approve", a)) \/ Becomes(r, call[r]))
  <2>1. CASE auto
    BY <1>1, <2>1, Entered, EnteringCall DEF Propose
  <2>2. CASE ~auto
    BY <1>1, <2>2 DEF Propose, Becomes, OthersStay, ActionTypeInv
  <2> QED
    BY <2>1, <2>2
<1>4. /\ row' \in [Actions -> Row] /\ row'[a].status = "pending"
      /\ row'[a].undone = row[a].undone /\ row'[a].undo = row[a].undo
      /\ \A b \in Actions : b # a => row'[b] = row[b]
  BY <1>1 DEF Propose, Row, Statuses
<1>5. ActionTypeInv'
  BY <1>1, <1>2, <1>3, <1>4 DEF ActionTypeInv, ActionsTypeOK, histories, Calls
<1>6. Elsewhere(a)
  BY <1>2, <1>4 DEF Elsewhere, histories
<1> QED
  BY <1>1, <1>2, <1>3, <1>4, <1>5, <1>6, EnterKeeps DEF histories

LEMMA StartKeeps ==
  ASSUME ActionsInv, NEW r \in Requests, NEW a \in Actions, NEW what \in {"approve", "reject", "undo", "edit"},
         Start(r, what, a)
  PROVE  ActionsInv'
<1>1. ActionTypeInv /\ ~Works(r) /\ starts' \in 0 .. MaxStarts
  BY IdleRests, ActionConstants DEF ActionsInv, Start, ActionTypeInv, ActionsTypeOK
<1>2. UNCHANGED <<row, old, records, field, histories, ledger, stale, lost, faults>>
  BY DEF Start
<1>3. call' \in Calls /\ Becomes(r, Entering(what, a))
  BY <1>1, Entered, EnteringCall DEF Start
<1>4. ActionTypeInv'
  BY <1>1, <1>2, <1>3 DEF ActionTypeInv, ActionsTypeOK, histories, Calls
<1>5. Elsewhere(a)
  BY <1>2 DEF Elsewhere, histories
<1> QED
  BY <1>1, <1>2, <1>3, <1>4, <1>5, EnterKeeps DEF histories

\* Nobody at work changes, for any action.
LEMMA QuietKeeps ==
  ASSUME ActionsInv, ActionTypeInv',
         \A s \in Requests : Works(s)' => Works(s) /\ call'[s] = call[s],
         \A s \in Requests : Works(s) /\ ~Works(s)' /\ call[s].at \in {"record", "fail"} => lost'[call[s].act],
         UNCHANGED <<records, effects, reverts, ran, replaced, ledger, row, stale>>,
         \A b \in Actions : ~lost'[b] => ~lost[b]
  PROVE  ActionsInv'
<1>1. CallInv'
  BY DEF ActionsInv, CallInv, Knows, Gone, Made
<1>2. UndoInv'
  BY DEF ActionsInv, UndoInv, Undoable, Gone, Made
<1>3. ASSUME NEW b \in Actions, Clean(b)' PROVE Agrees(b)'
  <2>1. Agrees(b)
    BY <1>3 DEF ActionsInv, RowInv, Clean
  <2>2. \A s \in Requests : On(s, b)' \/ On(s, b) =>
            \/ On(s, b)' /\ On(s, b) /\ call'[s].at = call[s].at /\ call'[s].seen = call[s].seen
                         /\ call'[s].undo = call[s].undo
            \/ ~On(s, b) /\ call'[s].at \in Plain
            \/ ~On(s, b)' /\ call[s].at \notin {"record", "fail"}
    BY <1>3 DEF On, Clean
  <2> QED
    BY <2>1, <2>2, SameAction
<1> QED
  BY <1>1, <1>2, <1>3 DEF ActionsInv, RowInv

LEMMA DiesKeeps ==
  ASSUME ActionsInv, NEW r \in Requests, Dies(r)
  PROVE  ActionsInv'
<1>1. ActionTypeInv /\ faults' \in 0 .. MaxFaults
  BY ActionConstants DEF Dies, ActionsInv, ActionTypeInv, ActionsTypeOK
<1>2. UNCHANGED <<row, old, records, field, histories, ledger, stale, starts>>
  BY DEF Dies
<1>3. call' \in Calls /\ OthersStay(r) /\ ~Works(r)'
  BY <1>1, Left DEF Dies, Return, Becomes
<1>4. /\ lost' \in [Actions -> BOOLEAN]
      /\ \A b \in Actions : ~lost'[b] => ~lost[b]
      /\ \A b \in Actions : (At(r, "record") \/ At(r, "fail")) /\ call[r].act = b => lost'[b]
  BY <1>1 DEF Dies, ActionTypeInv, ActionsTypeOK
<1>5. ActionTypeInv'
  BY <1>1, <1>2, <1>3, <1>4 DEF ActionTypeInv, ActionsTypeOK, histories, Calls
<1>6. \A s \in Requests : Works(s)' => Works(s) /\ call'[s] = call[s]
  BY <1>3 DEF OthersStay, Works
<1>7. ASSUME NEW s \in Requests, Works(s), ~Works(s)', call[s].at \in {"record", "fail"}
      PROVE  lost'[call[s].act]
  <2>1. s = r
    BY <1>3, <1>7 DEF OthersStay, Works
  <2> QED
    BY <1>1, <1>4, <1>7, <2>1, WorksCall DEF At, Works
<1> QED
  BY <1>2, <1>4, <1>5, <1>6, <1>7, QuietKeeps DEF histories

LEMMA SweepListsKeeps ==
  ASSUME ActionsInv, NEW r \in Requests, SweepLists(r)
  PROVE  ActionsInv'
<1>1. ActionTypeInv /\ ~Works(r)
  BY IdleRests DEF SweepLists, ActionsInv
<1>2. UNCHANGED <<row, old, records, field, histories, ledger, stale, lost, faults, starts>>
  BY DEF SweepLists
<1>3. [op |-> "sweep", rows |-> Expirable] \in Sweep
  BY <1>1 DEF Sweep, Expirable, ActionTypeInv, ActionsTypeOK
<1>4. call' \in Calls /\ Becomes(r, [op |-> "sweep", rows |-> Expirable])
  BY <1>1, <1>3, Entered DEF SweepLists
<1>5. ActionTypeInv'
  BY <1>1, <1>2, <1>4 DEF ActionTypeInv, ActionsTypeOK, histories, Calls
<1>6. OthersStay(r) /\ ~Works(r)'
  BY <1>4 DEF Becomes, Works
<1>7. \A s \in Requests : Works(s)' <=> Works(s)
  BY <1>1, <1>6 DEF OthersStay, Works
<1>8. \A s \in Requests : Works(s)' => call'[s] = call[s]
  BY <1>6 DEF OthersStay
<1> QED
  BY <1>2, <1>5, <1>7, <1>8, QuietKeeps DEF histories

LEMMA SweepRejectsKeeps ==
  ASSUME ActionsInv, NEW r \in Requests, SweepRejects(r)
  PROVE  ActionsInv'
<1>1. ActionTypeInv /\ ~Works(r) /\ call[r].op = "sweep"
  BY DEF SweepRejects, ActionsInv, Works
<1>2. UNCHANGED <<old, records, field, histories, ledger, lost, faults, starts>>
  BY DEF SweepRejects
<1>3. call' \in Calls /\ OthersStay(r) /\ ~Works(r)'
  BY <1>1, Left DEF SweepRejects, Return, Becomes
<1>4. /\ stale' \in [Actions -> BOOLEAN]
      /\ \A b \in Actions : ~stale'[b] => ~stale[b] /\ (b \in call[r].rows => row[b].status = "pending")
  BY <1>1 DEF SweepRejects, ActionTypeInv, ActionsTypeOK
<1>5. /\ row' \in [Actions -> Row]
      /\ \A b \in Actions : b \notin call[r].rows => row'[b] = row[b]
      /\ \A b \in Actions : b \in call[r].rows =>
           row'[b].status = "rejected" /\ row'[b].undo = NoUndo /\ ~row'[b].undone
  <2>1. \A b \in Actions : Swept(b) \in Row /\ Swept(b).status = "rejected" /\ Swept(b).undo = NoUndo
                           /\ Swept(b).undone = FALSE
    BY <1>1, TypeParts DEF Swept, Row, Statuses, UndoInfo
  <2> QED
    BY <1>1, <2>1, TypeParts DEF SweepRejects
<1>6. ActionTypeInv'
  BY <1>1, <1>2, <1>3, <1>4, <1>5 DEF ActionTypeInv, ActionsTypeOK, histories, Calls
<1>7. \A s \in Requests : (Works(s)' <=> Works(s)) /\ (Works(s) => call'[s] = call[s])
  BY <1>1, <1>3 DEF OthersStay, Works
<1>8. CallInv'
  BY <1>2, <1>7 DEF ActionsInv, CallInv, Knows, Gone, Made, histories
<1>9. UndoInv'
  BY <1>2, <1>5 DEF ActionsInv, UndoInv, Undoable, Gone, Made, histories
<1>10. ASSUME NEW b \in Actions, Clean(b)' PROVE Agrees(b)'
  <2>1. Agrees(b)
    BY <1>2, <1>4, <1>10 DEF ActionsInv, RowInv, Clean
  <2>2. \A s \in Requests : (On(s, b)' <=> On(s, b)) /\ (On(s, b) => call'[s] = call[s])
    BY <1>7 DEF On
  <2>3. CASE b \notin call[r].rows
    BY <1>2, <1>5, <2>1, <2>2, <2>3, SameAction DEF histories
  <2>4. CASE b \in call[r].rows
    <3>1. row[b].status = "pending" /\ row'[b].status = "rejected" /\ ~row'[b].undone /\ ~row[b].undone
      BY <1>4, <1>5, <1>10, <2>1, <2>4 DEF Clean, Agrees
    <3>2. Applying(b)' = Applying(b)
          /\ \A s \in Requests : \A place : Telling(s, b, place)' <=> Telling(s, b, place)
      BY <2>2 DEF Applying, Telling
    <3> QED
      BY <1>2, <2>1, <3>1, <3>2 DEF Agrees, Settled, ToldOnce, histories
  <2> QED
    BY <2>3, <2>4
<1> QED
  BY <1>6, <1>8, <1>9, <1>10 DEF ActionsInv, RowInv

LEMMA PagesKeep ==
  ASSUME ActionsInv, \/ \E p \in Payloads : SomebodyEdits(p)
                     \/ \E a \in Actions : GrowsOld(a)
                     \/ UNCHANGED actionVars
  PROVE  ActionsInv'
<1>1. ActionTypeInv
  BY DEF ActionsInv
<1>2. UNCHANGED <<row, records, call, histories, ledger, stale, lost, faults>>
  BY DEF SomebodyEdits, GrowsOld, actionVars, histories
<1>3. old' \subseteq Actions /\ field' \in Payloads \cup {Original} /\ starts' \in 0 .. MaxStarts
  BY <1>1, ActionConstants DEF SomebodyEdits, GrowsOld, actionVars, ActionTypeInv, ActionsTypeOK
<1>4. ActionTypeInv'
  BY <1>1, <1>2, <1>3 DEF ActionTypeInv, ActionsTypeOK, histories, Calls
<1>5. \A s \in Requests : Works(s)' <=> Works(s)
  BY <1>2 DEF Works
<1> QED
  BY <1>2, <1>4, <1>5, QuietKeeps DEF histories

-----------------------------------------------------------------------------

LEMMA ActionsInitially == ActionInit => ActionsInv
<1> SUFFICES ASSUME ActionInit PROVE ActionsInv
  OBVIOUS
<1>1. NoRow \in Row /\ NoRow.undo = NoUndo /\ ~NoRow.undone /\ NoRow.status = "none"
  BY ActionConstants DEF NoRow, Row, Statuses, UndoInfo
<1>2. ActionTypeInv
  BY <1>1, ActionConstants DEF ActionInit, ActionTypeInv, ActionsTypeOK, Calls, UndoInfo
<1>3. \A r \in Requests : ~Works(r)
  BY DEF ActionInit, Works, Idle
<1>4. UndoInv
  BY <1>1 DEF ActionInit, UndoInv, Undoable, Made
<1>5. \A a \in Actions : Agrees(a)
  BY <1>1, <1>3 DEF ActionInit, Agrees, Settled, WillRecord, ToldOnce, Applying, Telling, On
<1> QED
  BY <1>2, <1>3, <1>4, <1>5 DEF ActionsInv, CallInv, RowInv

LEMMA ActionsStep == ActionsInv /\ [ActionNext]_actionVars => ActionsInv'
<1> SUFFICES ASSUME ActionsInv, [ActionNext]_actionVars PROVE ActionsInv'
  OBVIOUS
<1>1. ASSUME NEW r \in Requests, ActionStep(r) PROVE ActionsInv'
  BY <1>1, ReadRowKeeps, RejectKeeps, PreviousKeeps, SweepRejectsKeeps, EditKeeps, ExecuteKeeps,
     RecordKeeps, MarkFailedKeeps, WriteLedgerKeeps, RevertKeeps, MarkKeeps DEF ActionStep
<1>2. ASSUME NEW r \in Requests, SweepLists(r) \/ Dies(r) PROVE ActionsInv'
  BY <1>2, SweepListsKeeps, DiesKeeps
<1>3. ASSUME NEW r \in Requests, NEW a \in Actions,
             \/ \E p \in Payloads, auto \in BOOLEAN : Propose(r, a, p, auto)
             \/ \E what \in {"approve", "reject", "undo", "edit"} : Start(r, what, a)
      PROVE  ActionsInv'
  BY <1>3, ProposeKeeps, StartKeeps
<1>4. ASSUME \/ \E p \in Payloads : SomebodyEdits(p)
             \/ \E a \in Actions : GrowsOld(a)
             \/ UNCHANGED actionVars
      PROVE  ActionsInv'
  BY <1>4, PagesKeep
<1> QED
  BY <1>1, <1>2, <1>3, <1>4 DEF ActionNext

\* The inductive invariant of the assistant's actions.
THEOREM ActionsInvariant == ActionSpec => []ActionsInv
BY ActionsInitially, ActionsStep, PTL DEF ActionSpec

\* Every row, call and ledger entry is well typed.
THEOREM ActionsTyped == ActionSpec => []ActionsTypeOK
<1>1. ActionsInv => ActionsTypeOK
  BY DEF ActionsInv, ActionTypeInv
<1> QED
  BY <1>1, ActionsInvariant, PTL

\* However many people decide, edit and undo an action at once and wherever their
\* calls die: if nobody wrote over a row that changed under them and no outcome was
\* lost, the action ran at most once and its row and the ledger tell it.
THEOREM RowTellsAlways == ActionSpec => []RowTellsWhatRan
<1>1. ActionsInv => RowTellsWhatRan
  <2> SUFFICES ASSUME ActionsInv, NEW a \in Actions, AtRest(a), ~stale[a], ~lost[a]
               PROVE  /\ ledger[a].executed <= effects[a] /\ ledger[a].undone <= reverts[a]
                      /\ effects[a] <= 1
                      /\ row[a].status = "rejected" => effects[a] = 0
                      /\ row[a].status = "executed" => effects[a] = 1 /\ row[a].payload = ran[a]
    BY DEF RowTellsWhatRan
  <2>1. Agrees(a) /\ Undoable(a) /\ ActionTypeInv
    BY DEF ActionsInv, RowInv, Clean, UndoInv
  <2>2. Settled(a)
    BY <2>1 DEF AtRest, Agrees, Applying, On, Works
  <2>3. effects[a] \in Nat /\ reverts[a] \in Nat /\ ledger[a].executed \in Nat /\ ledger[a].undone \in Nat
    BY <2>1, TypeParts
  <2>4. ledger[a].executed <= 1 /\ (row[a].status # "executed" => ledger[a].executed = 0)
    BY <2>1 DEF Agrees, ToldOnce
  <2>5. ledger[a].undone <= 1 /\ (~row[a].undone => ledger[a].undone = 0)
    BY <2>1 DEF Agrees, ToldOnce
  <2>6. row[a].undone => reverts[a] > 0
    BY <2>1 DEF Undoable, Gone
  <2> QED
    BY <2>2, <2>3, <2>4, <2>5, <2>6 DEF Settled
<1> QED
  BY <1>1, ActionsInvariant, PTL

\* What Undo would put back is what the last execution replaced.
THEOREM UndoFitsAlways == ActionSpec => []UndoIsOfTheExecution
<1>1. ActionsInv => UndoIsOfTheExecution
  BY DEF ActionsInv, RowInv, Clean, Agrees, Settled, UndoIsOfTheExecution, AtRest, Applying, On, Works
<1> QED
  BY <1>1, ActionsInvariant, PTL

\* Whatever is written over what, and whatever dies: a row that says undone has no
\* record left of its execution.
THEOREM UndoneIsGoneAlways == ActionSpec => []UndoneIsGone
<1>1. ActionsInv => UndoneIsGone
  BY DEF ActionsInv, UndoInv, Undoable, Gone, UndoneIsGone
<1> QED
  BY <1>1, ActionsInvariant, PTL

\* So an undo, before it and after it, is of the execution the row describes.
THEOREM UndoRevertsAlways == ActionSpec => []UndoReverts
<1>1. UndoIsOfTheExecution /\ UndoneIsGone => UndoReverts
  BY DEF UndoReverts
<1> QED
  BY <1>1, UndoFitsAlways, UndoneIsGoneAlways, PTL

-----------------------------------------------------------------------------
(* The wallet *)

WalletRow == [allowance : Nat, purchased : Nat, fresh : BOOLEAN]
Operations == [Invocations -> {Unused} \cup Operation]
WalletTypes == WalletTypeOK /\ op \in Operations

\* Of two deliveries one came after the other, unless the pack is contested.  The
\* second finds the ledger row of the first, or the first has credited nothing and
\* never will.
Crediters(p) == {i \in Invocations : op[i] # Unused /\ op[i].do = "credit" /\ op[i].purchase = p}
PackInv ==
    /\ \A i \in Invocations : op[i] # Unused =>
         /\ op[i].at = "check" => op[i].do = "credit"
         /\ op[i].do = "credit" => op[i].purchase \in Purchases /\ op[i].credits = Pack
    /\ \A p \in Purchases \ contested :
         /\ \A i, j \in Crediters(p) : i = j
         /\ credited[p] <= 1
         /\ \A i \in Crediters(p) : op[i].at \in {"find", "create", "write"} => credited[p] = 0
         /\ credited[p] > 0 => Applied(p) \/ \E i \in Crediters(p) : op[i].at = "entry"

\* As long as charges and credits do not meet, the one under way writes back the
\* purchased credits it read: nobody else writes them, and a reset leaves them.
Total == MapThenSumSet(LAMBDA p : credited[p], Purchases)
OneWallet ==
    /\ wallets[1].purchased + spent = Pack * Total
    /\ \A i \in Busy : op[i].at = "write" => op[i].id = 1
    /\ \A i \in Writers : op[i].at = "write" => op[i].seen.purchased = wallets[1].purchased
PoolInv ==
    ~met =>
        /\ \A i, j \in Writers : i = j
        /\ Len(wallets) = 0 => Total = 0 /\ spent = 0 /\ \A i \in Busy : op[i].at # "write"
        /\ Len(wallets) = 1 => OneWallet

WalletInv == WalletTypes /\ PackInv /\ PoolInv

-----------------------------------------------------------------------------
(* What an operation does *)

OpBecomes(i, o) ==
    op'[i] = o /\ op' \in Operations /\ \A j \in Invocations : j # i => op'[j] = op[j]

LEMMA WalletParts ==
  ASSUME WalletTypes
  PROVE  /\ wallets \in Seq(WalletRow) /\ entries \in Seq(Entry) /\ op \in Operations
         /\ credited \in [Purchases -> Nat] /\ spent \in Nat
         /\ contested \subseteq Purchases
         /\ answered \in [Purchases -> {"none", "done", "error"}]
BY DEF WalletTypes, WalletTypeOK, WalletRow

LEMMA OpAssigned ==
  ASSUME WalletTypes, NEW i \in Invocations, NEW o \in {Unused} \cup Operation,
         op' = [op EXCEPT ![i] = o]
  PROVE  OpBecomes(i, o)
BY DEF OpBecomes, Operations, WalletTypes

LEMMA OpAtIs ==
  ASSUME WalletTypes, NEW i \in Invocations, NEW place, OpAt(i, place)
  PROVE  op[i] \in Operation /\ op[i] # Unused /\ op[i].at = place /\ i \in Busy
BY DEF OpAt, WalletTypes, Operations, Busy

LEMMA AnswersTyped ==
  ASSUME WalletTypes, NEW i, NEW how \in {"done", "error"}, Answer(i, how) \/ UNCHANGED answered
  PROVE  answered' \in [Purchases -> {"none", "done", "error"}]
BY WalletParts DEF Answer

OpMoved(o, place) ==
    [do |-> o.do, at |-> place, credits |-> o.credits, purchase |-> o.purchase, id |-> o.id,
     seen |-> o.seen]
OpFound(o, id, wallet) ==
    [do |-> o.do, at |-> "write", credits |-> o.credits, purchase |-> o.purchase, id |-> id,
     seen |-> wallet]

\* Finding or creating a wallet ends a summary that finds it fresh, and has any
\* other operation write it next.
LEMMA ProceedIs ==
  ASSUME WalletTypes, NEW i \in Invocations, op[i] \in Operation, op[i] # Unused,
         NEW id \in Nat, NEW wallet \in WalletRow, Proceed(i, id, wallet)
  PROVE  /\ answered' \in [Purchases -> {"none", "done", "error"}]
         /\ \/ op[i].do = "summary" /\ OpBecomes(i, Unused)
            \/ OpBecomes(i, OpFound(op[i], id, wallet))
<1>1. CASE op[i].do = "summary" /\ wallet.fresh
  BY <1>1, OpAssigned, AnswersTyped DEF Proceed, Finish
<1>2. CASE ~(op[i].do = "summary" /\ wallet.fresh)
  <2>1. /\ op' = [op EXCEPT ![i].at = "write", ![i].id = id, ![i].seen = wallet]
        /\ UNCHANGED answered
    BY <1>2 DEF Proceed
  <2>2. OpFound(op[i], id, wallet) \in Operation
    BY DEF Operation, OpFound, WalletRow
  <2> DEFINE one == [op[i] EXCEPT !.at = "write"]
             two == [one EXCEPT !.id = id]
  <2>3. /\ one \in Operation /\ one.do = op[i].do /\ one.at = "write" /\ one.credits = op[i].credits
        /\ one.purchase = op[i].purchase /\ one.seen = op[i].seen
    BY DEF Operation
  <2>4. /\ two \in Operation /\ two.do = op[i].do /\ two.at = "write" /\ two.credits = op[i].credits
        /\ two.purchase = op[i].purchase /\ two.id = id
    BY <2>3 DEF Operation
  <2>5. op' = [op EXCEPT ![i] = [two EXCEPT !.seen = wallet]]
    BY <2>1 DEF WalletTypes, Operations
  <2> HIDE DEF one, two
  <2>6. [two EXCEPT !.seen = wallet] = OpFound(op[i], id, wallet)
    BY <2>4 DEF Operation, OpFound
  <2>7. op' = [op EXCEPT ![i] = OpFound(op[i], id, wallet)]
    BY <2>5, <2>6
  <2> QED
    BY <2>1, <2>2, <2>7, OpAssigned, WalletParts
<1> QED
  BY <1>1, <1>2

LEMMA OpMoves ==
  ASSUME WalletTypes, NEW i \in Invocations, op[i] \in Operation,
         NEW place \in {"check", "find", "create", "write", "entry"}, op' = [op EXCEPT ![i].at = place]
  PROVE  OpBecomes(i, OpMoved(op[i], place))
<1>1. OpMoved(op[i], place) \in Operation
  BY DEF Operation, OpMoved
<1>2. [op[i] EXCEPT !.at = place] = OpMoved(op[i], place)
  BY DEF Operation, OpMoved
<1>3. op' = [op EXCEPT ![i] = OpMoved(op[i], place)]
  BY <1>2
<1> QED
  BY <1>1, <1>3, OpAssigned

\* Appending.
LEMMA LedgerAppended ==
  ASSUME NEW S, NEW s \in Seq(S), NEW e \in S
  PROVE  /\ Append(s, e) \in Seq(S) /\ Len(Append(s, e)) = Len(s) + 1 /\ Len(s) \in Nat
         /\ Append(s, e)[Len(s) + 1] = e /\ DOMAIN Append(s, e) = 1 .. Len(s) + 1
         /\ DOMAIN s = 1 .. Len(s) /\ \A n \in DOMAIN s : Append(s, e)[n] = s[n]
OBVIOUS


LEMMA TotalIs ==
  /\ Total = Sum(credited, Purchases)
  /\ Total' = Sum(credited', Purchases)
BY DEF Total, MapThenSumSet, MapThenFoldSet, Sum, Sums, Chosen

\* An operation that becomes another one, or ends.
Stays(i, o) ==
    /\ OpBecomes(i, o) /\ o \in {Unused} \cup Operation
    /\ contested \subseteq contested' /\ contested' \subseteq Purchases
    /\ met => met'

\* A step that credits nothing, and no operation that credits begins, gets past the
\* look at the ledger or is left with the pools written.
Quiet(i, o) ==
    /\ o # Unused => o.at # "check"
    /\ o # Unused /\ o.do = "credit" =>
         /\ op[i] # Unused /\ op[i].do = "credit"
         /\ o.purchase = op[i].purchase /\ o.credits = op[i].credits
         /\ op[i].at \in {"find", "create", "write"} /\ o.at \in {"find", "create", "write"}
    /\ op[i] # Unused /\ op[i].do = "credit" /\ op[i].at = "entry" => op[i].purchase \in contested'
    /\ \A p \in Purchases : Applied(p) => Applied(p)'
    /\ UNCHANGED credited

LEMMA QuietPack ==
  ASSUME WalletTypes, PackInv, NEW i \in Invocations, NEW o, Stays(i, o), Quiet(i, o)
  PROVE  PackInv'
<1>1. \A j \in Invocations : j # i => op'[j] = op[j]
  BY DEF Stays, OpBecomes
<1>2. op'[i] = o
  BY DEF Stays, OpBecomes
<1>3. ASSUME NEW j \in Invocations, op'[j] # Unused
      PROVE  /\ op'[j].at = "check" => op'[j].do = "credit"
             /\ op'[j].do = "credit" => op'[j].purchase \in Purchases /\ op'[j].credits = Pack
  <2>1. CASE j = i
    BY <1>2, <1>3, <2>1 DEF PackInv, Quiet
  <2>2. CASE j # i
    BY <1>1, <1>3, <2>2 DEF PackInv
  <2> QED
    BY <2>1, <2>2
<1>4. ASSUME NEW p \in Purchases, p \notin contested'
      PROVE  /\ \A j, k \in Crediters(p)' : j = k
             /\ credited'[p] <= 1
             /\ \A j \in Crediters(p)' : op'[j].at \in {"find", "create", "write"} => credited'[p] = 0
             /\ credited'[p] > 0 => Applied(p)' \/ \E j \in Crediters(p)' : op'[j].at = "entry"
  <2>1. p \in Purchases \ contested
    BY <1>4 DEF Stays
  <2>2. Crediters(p)' \subseteq Crediters(p)
    <3>1. ASSUME NEW j \in Crediters(p)' PROVE j \in Crediters(p)
      <4>1. CASE j = i
        BY <1>2, <3>1, <4>1 DEF Crediters, Quiet
      <4>2. CASE j # i
        BY <1>1, <3>1, <4>2 DEF Crediters
      <4> QED
        BY <4>1, <4>2
    <3> QED
      BY <3>1
  <2>3. ASSUME NEW j \in Crediters(p)', op'[j].at \in {"find", "create", "write"}
        PROVE  j \in Crediters(p) /\ op[j].at \in {"find", "create", "write"}
    <3>1. CASE j = i
      BY <1>2, <2>2, <2>3, <3>1 DEF Crediters, Quiet
    <3>2. CASE j # i
      BY <1>1, <2>2, <2>3, <3>2 DEF Crediters
    <3> QED
      BY <3>1, <3>2
  <2>4. ASSUME NEW j \in Crediters(p), op[j].at = "entry"
        PROVE  j \in Crediters(p)' /\ op'[j].at = "entry"
    <3>1. j # i
      BY <1>4, <2>4 DEF Crediters, Quiet
    <3> QED
      BY <1>1, <2>4, <3>1 DEF Crediters
  <2>5. credited' = credited /\ (Applied(p) => Applied(p)')
    BY DEF Quiet
  <2>6. /\ \A j, k \in Crediters(p) : j = k
        /\ credited[p] <= 1
        /\ \A j \in Crediters(p) : op[j].at \in {"find", "create", "write"} => credited[p] = 0
        /\ credited[p] > 0 => Applied(p) \/ \E j \in Crediters(p) : op[j].at = "entry"
    BY <2>1 DEF PackInv
  <2> QED
    BY <2>2, <2>3, <2>4, <2>5, <2>6
<1> QED
  BY <1>3, <1>4 DEF PackInv

\* A step that leaves the pools and writes nothing next but what it just read.
Idles(i, o) ==
    /\ UNCHANGED <<wallets, credited, spent>>
    /\ o # Unused /\ o.do # "summary" => i \in Writers \/ Writers = {} \/ met'
    /\ o # Unused /\ o.at = "write" =>
         Len(wallets) # 0
           /\ (Len(wallets) = 1 => o.id = 1 /\ o.seen.purchased = wallets[1].purchased)

LEMMA IdlePools ==
  ASSUME WalletTypes, PoolInv, NEW i \in Invocations, NEW o, Stays(i, o), Idles(i, o)
  PROVE  PoolInv'
<1> SUFFICES ASSUME ~met' PROVE PoolInv'
  BY DEF PoolInv
<1>1. \A j \in Invocations : j # i => op'[j] = op[j]
  BY DEF Stays, OpBecomes
<1>2. op'[i] = o /\ ~met
  BY DEF Stays, OpBecomes
<1>3. ASSUME NEW j \in Writers', j # i PROVE j \in Writers
  BY <1>1, <1>3 DEF Writers, Busy
<1>4. i \in Writers' => i \in Writers \/ Writers = {}
  BY <1>2 DEF Writers, Busy, Idles
<1>5. \A j, k \in Writers : j = k
  BY <1>2 DEF PoolInv
<1>6. \A j, k \in Writers' : j = k
  BY <1>3, <1>4, <1>5
<1>7. Total' = Total /\ spent' = spent /\ wallets' = wallets
  BY TotalIs DEF Idles
<1>8. CASE Len(wallets) = 0
  <2>1. Total = 0 /\ spent = 0 /\ \A j \in Busy : op[j].at # "write"
    BY <1>2, <1>8 DEF PoolInv
  <2>2. ASSUME NEW j \in Busy' PROVE op'[j].at # "write"
    <3>1. CASE j = i
      BY <1>2, <1>8, <2>2, <3>1 DEF Busy, Idles
    <3>2. CASE j # i
      BY <1>1, <2>1, <2>2, <3>2 DEF Busy
    <3> QED
      BY <3>1, <3>2
  <2> QED
    BY <1>6, <1>7, <1>8, <2>1, <2>2 DEF PoolInv
<1>9. CASE Len(wallets) = 1
  <2>1. OneWallet
    BY <1>2, <1>9 DEF PoolInv
  <2>2. ASSUME NEW j \in Busy', op'[j].at = "write"
        PROVE  op'[j].id = 1 /\ (j \in Writers' => op'[j].seen.purchased = wallets[1].purchased)
    <3>1. CASE j = i
      BY <1>2, <1>9, <2>2, <3>1 DEF Busy, Idles
    <3>2. CASE j # i
      BY <1>1, <1>3, <2>1, <2>2, <3>2 DEF Busy, OneWallet
    <3> QED
      BY <3>1, <3>2
  <2>3. OneWallet'
    <3>1. Writers' \subseteq Busy'
      BY DEF Writers
    <3> QED
      BY <1>7, <2>1, <2>2, <3>1 DEF OneWallet
  <2> QED
    BY <1>6, <1>7, <1>9, <2>3 DEF PoolInv
<1> QED
  BY <1>6, <1>7, <1>8, <1>9 DEF PoolInv

-----------------------------------------------------------------------------
(* Every step keeps the invariant *)

Beginning(do, credits, p) ==
    [do |-> do, at |-> IF do = "credit" THEN "check" ELSE "find", credits |-> credits,
     purchase |-> p, id |-> 0, seen |-> NewWallet]

LEMMA BeginIs ==
  ASSUME WalletTypes, NEW i \in Invocations, NEW do \in {"charge", "credit", "summary"},
         NEW credits \in Nat, NEW p \in Purchases \cup {"none"}, Begin(i, do, credits, p)
  PROVE  /\ Stays(i, Beginning(do, credits, p)) /\ op[i] = Unused
         /\ Beginning(do, credits, p) \in Operation /\ Beginning(do, credits, p) # Unused
         /\ Idles(i, Beginning(do, credits, p))
         /\ mixed' \in BOOLEAN /\ met' \in BOOLEAN
<1> DEFINE o == Beginning(do, credits, p)
<1>1. o \in Operation /\ o # Unused /\ o.do = do /\ o.at # "write"
  BY DEF Operation, Beginning, NewWallet, Unused
<1>2. op' = [op EXCEPT ![i] = o] /\ op[i] = Unused
  BY DEF Begin, Beginning
<1>3. met \in BOOLEAN /\ mixed \in BOOLEAN /\ contested \subseteq Purchases
  BY DEF WalletTypes, WalletTypeOK
<1>4. /\ mixed' \in BOOLEAN /\ met' \in BOOLEAN
      /\ met => met'
      /\ contested \subseteq contested' /\ contested' \subseteq Purchases
      /\ do # "summary" => Writers = {} \/ met'
      /\ UNCHANGED <<wallets, credited, spent>>
  BY <1>3 DEF Begin
<1> HIDE DEF o
<1>5. OpBecomes(i, o)
  BY <1>1, <1>2, OpAssigned
<1>6. Stays(i, o)
  <2>1. o \in {Unused} \cup Operation
    BY <1>1
  <2> QED
    BY <1>4, <1>5, <2>1 DEF Stays
<1>7. Idles(i, o)
  BY <1>1, <1>4 DEF Idles
<1> QED
  BY <1>1, <1>2, <1>4, <1>6, <1>7 DEF o

LEMMA BeginTypes ==
  ASSUME WalletTypes, NEW i \in Invocations, NEW do, NEW credits, NEW p, Begin(i, do, credits, p),
         NEW o, Stays(i, o), met' \in BOOLEAN, mixed' \in BOOLEAN,
         paid' = paid, Counts \/ UNCHANGED calls, mishaps' = mishaps
  PROVE  WalletTypes'
BY WalletConstants DEF WalletTypes, WalletTypeOK, Begin, Stays, OpBecomes, Operations, Counts

\* A charge or a look at the balance begins: it credits no pack.
LEMMA WalletBeginKeeps ==
  ASSUME WalletInv, NEW i \in Invocations, NEW do \in {"charge", "summary"}, NEW credits \in Nat,
         Begin(i, do, credits, "none"), Counts, UNCHANGED <<paid, mishaps>>
  PROVE  WalletInv'
<1> DEFINE o == Beginning(do, credits, "none")
<1>1. WalletTypes /\ PackInv /\ PoolInv
  BY DEF WalletInv
<1>2. /\ Stays(i, o) /\ op[i] = Unused /\ o \in Operation /\ Idles(i, o)
      /\ mixed' \in BOOLEAN /\ met' \in BOOLEAN
  BY <1>1, BeginIs
<1>3. o.do # "credit" /\ o.at # "check"
  BY DEF Beginning
<1>4. credited' = credited /\ entries' = entries
  BY DEF Begin
<1> HIDE DEF o
<1>5. Quiet(i, o)
  BY <1>2, <1>3, <1>4 DEF Quiet, Applied
<1>6. PackInv' /\ PoolInv'
  BY <1>1, <1>2, <1>5, QuietPack, IdlePools
<1>7. WalletTypes'
  BY <1>1, <1>2, BeginTypes
<1> QED
  BY <1>6, <1>7 DEF WalletInv

\* A delivery begins: that of a pack nobody else is crediting, or the pack is
\* contested from here on.
LEMMA DeliverKeeps ==
  ASSUME WalletInv, NEW i \in Invocations, NEW p \in Purchases, Deliver(i, p)
  PROVE  WalletInv'
<1> DEFINE o == Beginning("credit", Pack, p)
<1>1. WalletTypes /\ PackInv /\ PoolInv
  BY DEF WalletInv
<1>2. Begin(i, "credit", Pack, p) /\ UNCHANGED <<paid, mishaps>> /\ (Counts \/ UNCHANGED calls)
  BY DEF Deliver
<1>3. /\ Stays(i, o) /\ op[i] = Unused /\ o \in Operation /\ o # Unused /\ Idles(i, o)
      /\ mixed' \in BOOLEAN /\ met' \in BOOLEAN
  BY <1>1, <1>2, BeginIs, WalletConstants
<1>4. o.do = "credit" /\ o.at = "check" /\ o.purchase = p /\ o.credits = Pack
  BY DEF Beginning
<1>5. credited' = credited /\ entries' = entries
  BY <1>2 DEF Begin
<1>6. Crediting(p) # {} => p \in contested'
  BY <1>2 DEF Begin
<1> HIDE DEF o
<1>7. /\ \A j \in Invocations : j # i => op'[j] = op[j]
      /\ op'[i] = o /\ contested \subseteq contested'
  BY <1>3 DEF Stays, OpBecomes
<1>8. ASSUME NEW j \in Invocations, op'[j] # Unused
      PROVE  /\ op'[j].at = "check" => op'[j].do = "credit"
             /\ op'[j].do = "credit" => op'[j].purchase \in Purchases /\ op'[j].credits = Pack
  BY <1>1, <1>4, <1>7, <1>8 DEF PackInv
<1>9. ASSUME NEW q \in Purchases, q \notin contested'
      PROVE  /\ \A j, k \in Crediters(q)' : j = k
             /\ credited'[q] <= 1
             /\ \A j \in Crediters(q)' : op'[j].at \in {"find", "create", "write"} => credited'[q] = 0
             /\ credited'[q] > 0 => Applied(q)' \/ \E j \in Crediters(q)' : op'[j].at = "entry"
  <2>1. /\ \A j, k \in Crediters(q) : j = k
        /\ credited[q] <= 1
        /\ \A j \in Crediters(q) : op[j].at \in {"find", "create", "write"} => credited[q] = 0
        /\ credited[q] > 0 => Applied(q) \/ \E j \in Crediters(q) : op[j].at = "entry"
    BY <1>1, <1>7, <1>9 DEF PackInv
  <2>2. Applied(q)' <=> Applied(q)
    BY <1>5 DEF Applied
  <2>3. \A j \in Crediters(q) : j # i /\ j \in Crediters(q)'
    BY <1>3, <1>7 DEF Crediters
  <2>4. \A j \in Crediters(q)' : j \in Crediters(q) \/ (j = i /\ q = p)
    BY <1>4, <1>7 DEF Crediters
  <2>5. q = p => Crediters(q) = {}
    BY <1>6, <1>9 DEF Crediters, Crediting, Writers, Busy
  <2>6. CASE q = p
    <3>1. \A j \in Crediters(q)' : op'[j].at = "check"
      BY <1>4, <1>7, <2>4, <2>5, <2>6
    <3>2. credited[q] > 0 => Applied(q)
      BY <2>1, <2>5, <2>6
    <3>3. \A j, k \in Crediters(q)' : j = k
      BY <2>4, <2>5, <2>6
    <3> QED
      BY <1>5, <2>1, <2>2, <3>1, <3>2, <3>3
  <2>7. CASE q # p
    <3>1. Crediters(q)' = Crediters(q) /\ \A j \in Crediters(q) : op'[j] = op[j]
      BY <1>7, <2>3, <2>4, <2>7 DEF Crediters
    <3> QED
      BY <1>5, <2>1, <2>2, <3>1
  <2> QED
    BY <2>6, <2>7
<1>10. PackInv'
  BY <1>8, <1>9 DEF PackInv
<1>11. PoolInv'
  BY <1>1, <1>3, IdlePools
<1>12. WalletTypes'
  BY <1>1, <1>2, <1>3, BeginTypes
<1> QED
  BY <1>10, <1>11, <1>12 DEF WalletInv

LEMMA PayKeeps ==
  ASSUME WalletInv, NEW p \in Purchases, Pay(p)
  PROVE  WalletInv'
<1>1. UNCHANGED <<wallets, entries, op, answered, credited, spent, contested, met, mixed, lapsed,
                  calls, mishaps>> /\ paid' = paid \cup {p}
  BY DEF Pay
<1>2. WalletTypes'
  BY <1>1 DEF WalletInv, WalletTypes, WalletTypeOK
<1>3. PackInv' <=> PackInv
  BY <1>1 DEF PackInv, Crediters, Applied
<1>4. Total' = Total
  BY <1>1, TotalIs
<1>5. PoolInv' <=> PoolInv
  BY <1>1, <1>4 DEF PoolInv, OneWallet, Busy, Writers
<1> QED
  BY <1>2, <1>3, <1>5 DEF WalletInv

\* The look at the ledger ends in a credit, or in a summary when the pack is there.
Checked(o) ==
    [do |-> IF Applied(o.purchase) THEN "summary" ELSE "credit", at |-> "find",
     credits |-> o.credits, purchase |-> o.purchase, id |-> o.id, seen |-> o.seen]

LEMMA CheckIs ==
  ASSUME WalletTypes, NEW i \in Invocations, op[i] \in Operation, Check(i)
  PROVE  Checked(op[i]) \in Operation /\ OpBecomes(i, Checked(op[i]))
<1> DEFINE o == Checked(op[i])
           one == [op[i] EXCEPT !.at = "find"]
           new == IF Applied(op[i].purchase) THEN "summary" ELSE "credit"
<1>1. /\ one \in Operation /\ one.credits = op[i].credits /\ one.at = "find"
      /\ one.purchase = op[i].purchase /\ one.id = op[i].id /\ one.seen = op[i].seen
  BY DEF Operation
<1>2. op' = [op EXCEPT ![i] = [one EXCEPT !.do = new]]
  BY DEF Check, WalletTypes, Operations
<1> HIDE DEF one
<1>3. [one EXCEPT !.do = new] = o
  BY <1>1 DEF Operation, Checked
<1>4. o \in Operation
  BY DEF Operation, Checked
<1>5. op' = [op EXCEPT ![i] = o]
  BY <1>2, <1>3
<1> HIDE DEF o, new
<1>6. OpBecomes(i, o)
  BY <1>4, <1>5, OpAssigned
<1> QED
  BY <1>4, <1>6 DEF o

\* The look at the ledger: a pack that is not there was never credited, for its
\* only delivery is this one.
LEMMA CheckKeeps ==
  ASSUME WalletInv, NEW i \in Invocations, Check(i)
  PROVE  WalletInv'
<1> DEFINE p == op[i].purchase
           o == Checked(op[i])
<1>1. WalletTypes /\ PackInv /\ PoolInv
  BY DEF WalletInv
<1>2. op[i] \in Operation /\ op[i] # Unused /\ op[i].at = "check" /\ i \in Busy
  BY <1>1, OpAtIs DEF Check
<1>3. op[i].do = "credit" /\ p \in Purchases /\ op[i].credits = Pack
  BY <1>1, <1>2 DEF PackInv
<1>4. o \in Operation /\ o # Unused
  BY <1>1, <1>2, CheckIs DEF Operation, Unused
<1>5. OpBecomes(i, o)
  BY <1>1, <1>2, CheckIs
<1>6. /\ o.at = "find" /\ o.purchase = p /\ o.credits = Pack /\ o.do \in {"summary", "credit"}
      /\ o.do = "credit" => ~Applied(p)
  BY <1>3 DEF Checked
<1>7. UNCHANGED <<wallets, entries, paid, answered, credited, spent, contested, met, mixed, lapsed,
                  calls, mishaps>>
  BY DEF Check
<1> HIDE DEF o
<1>8. contested \subseteq Purchases
  BY <1>1, WalletParts
<1>9. Stays(i, o)
  BY <1>4, <1>5, <1>7, <1>8 DEF Stays
<1>10. Idles(i, o)
  <2>1. i \in Writers
    BY <1>2, <1>3 DEF Writers
  <2> QED
    BY <1>6, <1>7, <2>1 DEF Idles
<1>11. PoolInv'
  BY <1>1, <1>9, <1>10, IdlePools
<1>12. /\ \A j \in Invocations : j # i => op'[j] = op[j]
       /\ op'[i] = o
  BY <1>5 DEF OpBecomes
<1>13. ASSUME NEW j \in Invocations, op'[j] # Unused
      PROVE  /\ op'[j].at = "check" => op'[j].do = "credit"
             /\ op'[j].do = "credit" => op'[j].purchase \in Purchases /\ op'[j].credits = Pack
  <2>1. CASE j = i
    BY <1>3, <1>6, <1>12, <2>1
  <2>2. CASE j # i
    BY <1>1, <1>12, <1>13, <2>2 DEF PackInv
  <2> QED
    BY <2>1, <2>2
<1>14. ASSUME NEW q \in Purchases, q \notin contested'
      PROVE  /\ \A j, k \in Crediters(q)' : j = k
             /\ credited'[q] <= 1
             /\ \A j \in Crediters(q)' : op'[j].at \in {"find", "create", "write"} => credited'[q] = 0
             /\ credited'[q] > 0 => Applied(q)' \/ \E j \in Crediters(q)' : op'[j].at = "entry"
  <2>1. /\ \A j, k \in Crediters(q) : j = k
        /\ credited[q] <= 1
        /\ \A j \in Crediters(q) : op[j].at \in {"find", "create", "write"} => credited[q] = 0
        /\ credited[q] > 0 => Applied(q) \/ \E j \in Crediters(q) : op[j].at = "entry"
    BY <1>1, <1>7, <1>14 DEF PackInv
  <2>2. (Applied(q)' <=> Applied(q)) /\ credited' = credited
    BY <1>7 DEF Applied
  <2>3. Crediters(q)' \subseteq Crediters(q)
    <3>1. ASSUME NEW j \in Crediters(q)' PROVE j \in Crediters(q)
      <4>1. CASE j = i
        BY <1>2, <1>3, <1>6, <1>12, <3>1, <4>1 DEF Crediters
      <4>2. CASE j # i
        BY <1>12, <3>1, <4>2 DEF Crediters
      <4> QED
        BY <4>1, <4>2
    <3> QED
      BY <3>1
  <2>4. \A j \in Crediters(q) : j # i => j \in Crediters(q)' /\ op'[j] = op[j]
    BY <1>12 DEF Crediters
  <2>5. CASE q = p
    <3>1. i \in Crediters(q)
      BY <1>2, <1>3, <2>5 DEF Crediters
    <3>2. \A j \in Crediters(q) : op[j].at # "entry"
      BY <1>2, <2>1, <3>1
    <3>3. \A j \in Crediters(q)' : ~Applied(q)
      <4>1. \A j \in Crediters(q)' : j = i /\ op'[j].do = "credit"
        BY <2>1, <2>3, <3>1 DEF Crediters
      <4> QED
        BY <1>6, <1>12, <2>5, <4>1
    <3>4. credited[q] \in Nat
      BY <1>1, WalletParts
    <3> QED
      BY <2>1, <2>2, <2>3, <3>2, <3>3, <3>4
  <2>6. CASE q # p
    <3>1. i \notin Crediters(q)
      BY <2>6 DEF Crediters
    <3> QED
      BY <2>1, <2>2, <2>3, <2>4, <3>1
  <2> QED
    BY <2>5, <2>6
<1>15. PackInv'
  BY <1>13, <1>14 DEF PackInv
<1>16. WalletTypes'
  BY <1>1, <1>5, <1>7 DEF WalletTypes, WalletTypeOK, OpBecomes, Operations
<1> QED
  BY <1>11, <1>15, <1>16 DEF WalletInv

\* A wallet is found: the oldest one.
LEMMA FindKeeps ==
  ASSUME WalletInv, NEW i \in Invocations, Find(i)
  PROVE  WalletInv'
<1>1. WalletTypes /\ PackInv /\ PoolInv
  BY DEF WalletInv
<1>2. op[i] \in Operation /\ op[i] # Unused /\ op[i].at = "find" /\ i \in Busy
  BY <1>1, OpAtIs DEF Find
<1>3. UNCHANGED <<wallets, entries, paid, credited, spent, contested, met, mixed, lapsed, calls,
                 mishaps>>
  BY DEF Find
<1>4. contested \subseteq Purchases /\ wallets \in Seq(WalletRow)
  BY <1>1, WalletParts
<1>5. PICK o \in {Unused} \cup Operation :
        /\ OpBecomes(i, o)
        /\ answered' \in [Purchases -> {"none", "done", "error"}]
        /\ o # Unused =>
             /\ o.do = op[i].do /\ o.purchase = op[i].purchase /\ o.credits = op[i].credits
             /\ o.at \in {"create", "write"}
             /\ o.at = "write" => Len(wallets) # 0 /\ o.id = 1 /\ o.seen.purchased = wallets[1].purchased
  <2>1. CASE wallets = <<>>
    <3>1. op' = [op EXCEPT ![i].at = "create"] /\ UNCHANGED answered
      BY <2>1 DEF Find
    <3>2. OpBecomes(i, OpMoved(op[i], "create"))
      BY <1>1, <1>2, <3>1, OpMoves
    <3>3. OpMoved(op[i], "create") \in Operation
      BY <1>2 DEF Operation, OpMoved
    <3> QED
      BY <1>1, <3>1, <3>2, <3>3, WalletParts DEF OpMoved
  <2>2. CASE wallets # <<>>
    <3>1. Head(wallets) \in WalletRow /\ Head(wallets) = wallets[1] /\ Len(wallets) # 0
      BY <1>4, <2>2
    <3>2. Proceed(i, 1, Head(wallets))
      BY <2>2 DEF Find
    <3>3. PICK w \in WalletRow : w = Head(wallets)
      BY <3>1
    <3>4. /\ answered' \in [Purchases -> {"none", "done", "error"}]
          /\ \/ op[i].do = "summary" /\ OpBecomes(i, Unused)
             \/ OpBecomes(i, OpFound(op[i], 1, w))
      BY <1>1, <1>2, <3>2, <3>3, ProceedIs
    <3>5. OpFound(op[i], 1, w) \in Operation
      BY <1>2 DEF Operation, OpFound, WalletRow
    <3>6. CASE OpBecomes(i, Unused)
      BY <3>4, <3>6
    <3>7. CASE OpBecomes(i, OpFound(op[i], 1, w))
      BY <3>1, <3>3, <3>4, <3>5, <3>7 DEF OpFound
    <3> QED
      BY <3>4, <3>6, <3>7
  <2> QED
    BY <2>1, <2>2
<1>6. Stays(i, o)
  BY <1>3, <1>4, <1>5 DEF Stays
<1>7. Quiet(i, o)
  BY <1>2, <1>3, <1>5 DEF Quiet, Applied
<1>8. Idles(i, o)
  BY <1>2, <1>3, <1>5 DEF Idles, Writers
<1>9. WalletTypes'
  BY <1>1, <1>3, <1>5 DEF WalletTypes, WalletTypeOK, OpBecomes, Operations
<1> QED
  BY <1>1, <1>6, <1>7, <1>8, <1>9, QuietPack, IdlePools DEF WalletInv

\* A wallet is created: as long as charges and credits do not meet, nothing was
\* credited or spent before the first.
LEMMA CreateKeeps ==
  ASSUME WalletInv, NEW i \in Invocations, Create(i)
  PROVE  WalletInv'
<1>1. WalletTypes /\ PackInv /\ PoolInv
  BY DEF WalletInv
<1>2. op[i] \in Operation /\ op[i] # Unused /\ op[i].at = "create" /\ i \in Busy
  BY <1>1, OpAtIs DEF Create
<1>3. /\ UNCHANGED <<entries, paid, credited, spent, contested, met, mixed, lapsed, calls, mishaps>>
      /\ wallets' = Append(wallets, NewWallet)
  BY DEF Create
<1>4. contested \subseteq Purchases /\ wallets \in Seq(WalletRow)
  BY <1>1, WalletParts
<1>5. NewWallet \in WalletRow /\ NewWallet.purchased = 0
  BY DEF NewWallet, WalletRow
<1>6. /\ wallets' \in Seq(WalletRow) /\ Len(wallets') = Len(wallets) + 1 /\ Len(wallets) \in Nat
      /\ wallets'[Len(wallets) + 1] = NewWallet
  BY <1>3, <1>4, <1>5, LedgerAppended
<1>7. PICK n \in Nat, w \in WalletRow : n = Len(wallets) + 1 /\ w = NewWallet
  BY <1>5, <1>6
<1>8. PICK o \in {Unused} \cup Operation :
        /\ OpBecomes(i, o)
        /\ answered' \in [Purchases -> {"none", "done", "error"}]
        /\ o # Unused =>
             /\ o.do = op[i].do /\ o.purchase = op[i].purchase /\ o.credits = op[i].credits
             /\ o.at = "write" /\ o.id = n /\ o.seen = w
  <2>1. Proceed(i, n, w)
    BY <1>7 DEF Create
  <2>2. /\ answered' \in [Purchases -> {"none", "done", "error"}]
        /\ \/ op[i].do = "summary" /\ OpBecomes(i, Unused)
           \/ OpBecomes(i, OpFound(op[i], n, w))
    BY <1>1, <1>2, <2>1, ProceedIs
  <2>3. OpFound(op[i], n, w) \in Operation
    BY <1>2 DEF Operation, OpFound, WalletRow
  <2>4. CASE OpBecomes(i, Unused)
    BY <2>2, <2>4
  <2>5. CASE OpBecomes(i, OpFound(op[i], n, w))
    BY <2>2, <2>3, <2>5 DEF OpFound
  <2> QED
    BY <2>2, <2>4, <2>5
<1>9. Stays(i, o)
  BY <1>3, <1>4, <1>8 DEF Stays
<1>10. Quiet(i, o)
  BY <1>2, <1>3, <1>8 DEF Quiet, Applied
<1>11. WalletTypes'
  BY <1>1, <1>3, <1>6, <1>8 DEF WalletTypes, WalletTypeOK, WalletRow, OpBecomes, Operations
<1>12. ASSUME ~met, Len(wallets') = 1
       PROVE  OneWallet' /\ \A j, k \in Writers' : j = k
  <2>1. Len(wallets) = 0 /\ n = 1
    <3>1. Len(wallets') = Len(wallets) + 1 /\ Len(wallets) \in Nat
      BY <1>6
    <3> QED
      BY <1>7, <1>12, <3>1
  <2>2. /\ Total = 0 /\ spent = 0
        /\ \A j \in Busy : op[j].at # "write"
        /\ \A j, k \in Writers : j = k
    BY <1>1, <1>12, <2>1 DEF PoolInv
  <2>3. wallets'[1] = w /\ w.purchased = 0
    BY <1>5, <1>6, <1>7, <2>1
  <2>4. Total' = Total /\ spent' = spent
    BY <1>3, TotalIs
  <2>5. \A j \in Invocations : j # i => op'[j] = op[j]
    BY <1>8 DEF OpBecomes
  <2>6. op'[i] = o
    BY <1>8 DEF OpBecomes
  <2>7. Writers' \subseteq Writers
    <3>1. ASSUME NEW j \in Writers' PROVE j \in Writers
      <4>1. CASE j = i
        BY <1>2, <1>8, <2>6, <3>1, <4>1 DEF Writers, Busy
      <4>2. CASE j # i
        BY <2>5, <3>1, <4>2 DEF Writers, Busy
      <4> QED
        BY <4>1, <4>2
    <3> QED
      BY <3>1
  <2>8. ASSUME NEW j \in Busy', op'[j].at = "write"
        PROVE  op'[j].id = 1 /\ op'[j].seen.purchased = wallets'[1].purchased
    <3>1. j = i
      BY <2>2, <2>5, <2>8 DEF Busy
    <3> QED
      BY <1>8, <2>1, <2>3, <2>6, <2>8, <3>1 DEF Busy
  <2>9. wallets'[1].purchased + spent' = Pack * Total'
    <3>1. Pack \in Nat
      BY WalletConstants
    <3> QED
      BY <2>2, <2>3, <2>4, <3>1
  <2>10. Writers' \subseteq Busy'
    BY DEF Writers
  <2>11. OneWallet'
    BY <2>8, <2>9, <2>10 DEF OneWallet
  <2> QED
    BY <2>2, <2>7, <2>11
<1>13. ASSUME ~met
       PROVE  \A j, k \in Writers' : j = k
  <2>1. \A j, k \in Writers : j = k
    BY <1>1, <1>13 DEF PoolInv
  <2>2. \A j \in Writers' : j \in Writers
    BY <1>2, <1>8 DEF Writers, Busy, OpBecomes
  <2> QED
    BY <2>1, <2>2
<1>14. PoolInv'
  BY <1>3, <1>6, <1>12, <1>13 DEF PoolInv
<1> QED
  BY <1>1, <1>9, <1>10, <1>11, <1>14, QuietPack DEF WalletInv

\* The ledger row: from here on the pack's payment intent is in the ledger.
LEMMA WriteEntryKeeps ==
  ASSUME WalletInv, NEW i \in Invocations, WriteEntry(i)
  PROVE  WalletInv'
<1>1. WalletTypes /\ PackInv /\ PoolInv
  BY DEF WalletInv
<1>2. op[i] \in Operation /\ op[i] # Unused /\ op[i].at = "entry" /\ i \in Busy
  BY <1>1, OpAtIs DEF WriteEntry
<1>3. UNCHANGED <<wallets, paid, credited, spent, contested, met, mixed, lapsed, calls, mishaps>>
  BY DEF WriteEntry
<1>4. /\ contested \subseteq Purchases /\ wallets \in Seq(WalletRow) /\ entries \in Seq(Entry)
      /\ answered' \in [Purchases -> {"none", "done", "error"}]
  BY <1>1, WalletParts, AnswersTyped DEF WriteEntry, Finish
<1>5. op[i].do \in {"summary", "charge", "credit"} /\ op[i].credits \in Nat
      /\ op[i].purchase \in Purchases \cup {"none"}
  BY <1>2 DEF Operation
<1>6. PICK e \in Entry : entries' = Append(entries, e) /\ (op[i].do = "credit" => e.purchase = op[i].purchase)
  <2>1. CASE op[i].do = "summary"
    BY <1>5, <2>1, WalletConstants DEF WriteEntry, Entry
  <2>2. CASE op[i].do = "charge"
    BY <1>5, <2>2 DEF WriteEntry, DebitOf, Entry
  <2>3. CASE op[i].do = "credit"
    BY <1>5, <2>3 DEF WriteEntry, Entry
  <2> QED
    BY <1>5, <2>1, <2>2, <2>3
<1>7. /\ entries' \in Seq(Entry) /\ Len(entries) + 1 \in DOMAIN entries'
      /\ entries'[Len(entries) + 1] = e
      /\ \A n \in DOMAIN entries : n \in DOMAIN entries' /\ entries'[n] = entries[n]
  BY <1>4, <1>6, LedgerAppended
<1>8. OpBecomes(i, Unused)
  BY <1>1, OpAssigned DEF WriteEntry, Finish
<1>9. \A p \in Purchases : Applied(p) => Applied(p)'
  BY <1>7 DEF Applied
<1>10. Stays(i, Unused)
  BY <1>3, <1>4, <1>8 DEF Stays
<1>11. Idles(i, Unused)
  BY <1>3 DEF Idles
<1>12. WalletTypes'
  BY <1>1, <1>3, <1>4, <1>7, <1>8 DEF WalletTypes, WalletTypeOK, OpBecomes, Operations
<1>13. PackInv'
  <2>1. CASE op[i].do # "credit"
    <3>1. Quiet(i, Unused)
      BY <1>3, <1>9, <2>1 DEF Quiet
    <3> QED
      BY <1>1, <1>10, <3>1, QuietPack
  <2>2. CASE op[i].do = "credit"
    <3>1. \A p \in Purchases : op[i].purchase = p => Applied(p)'
      BY <1>6, <1>7, <2>2 DEF Applied
    <3>2. op'[i] = Unused /\ \A j \in Invocations : j # i => op'[j] = op[j]
      BY <1>8 DEF OpBecomes
    <3>3. ASSUME NEW j \in Invocations, op'[j] # Unused
          PROVE  /\ op'[j].at = "check" => op'[j].do = "credit"
                 /\ op'[j].do = "credit" => op'[j].purchase \in Purchases /\ op'[j].credits = Pack
      BY <1>1, <3>2, <3>3 DEF PackInv
    <3>4. ASSUME NEW q \in Purchases \ contested
          PROVE  /\ \A j, k \in Crediters(q)' : j = k
                 /\ credited'[q] <= 1
                 /\ \A j \in Crediters(q)' : op'[j].at \in {"find", "create", "write"} => credited'[q] = 0
                 /\ credited'[q] > 0 => Applied(q)' \/ \E j \in Crediters(q)' : op'[j].at = "entry"
      <4>1. /\ \A j, k \in Crediters(q) : j = k
            /\ credited[q] <= 1
            /\ \A j \in Crediters(q) : op[j].at \in {"find", "create", "write"} => credited[q] = 0
            /\ credited[q] > 0 => Applied(q) \/ \E j \in Crediters(q) : op[j].at = "entry"
        BY <1>1 DEF PackInv
      <4>2. \A j \in Crediters(q)' : j \in Crediters(q) /\ op'[j] = op[j]
        BY <3>2 DEF Crediters
      <4>3. \A j \in Crediters(q) : j # i => j \in Crediters(q)' /\ op'[j] = op[j]
        BY <3>2 DEF Crediters
      <4>4. i \in Crediters(q) => Applied(q)'
        BY <3>1 DEF Crediters
      <4> QED
        BY <1>3, <1>9, <4>1, <4>2, <4>3, <4>4
    <3> QED
      BY <1>3, <3>3, <3>4 DEF PackInv
  <2> QED
    BY <2>1, <2>2
<1> QED
  BY <1>1, <1>10, <1>11, <1>12, <1>13, IdlePools DEF WalletInv

\* A function dies: between the pools and the ledger row, the pack is contested.
LEMMA BreaksKeeps ==
  ASSUME WalletInv, NEW i \in Invocations, NEW killed \in BOOLEAN, Breaks(i, killed)
  PROVE  WalletInv'
<1>1. WalletTypes /\ PackInv /\ PoolInv
  BY DEF WalletInv
<1>2. i \in Busy /\ op[i] # Unused
  BY DEF Breaks, Busy
<1>3. /\ UNCHANGED <<wallets, entries, paid, credited, spent, lapsed, calls>>
      /\ contested' = contested \cup {p \in Purchases : i \in Crediting(p) /\ OpAt(i, "entry")}
      /\ met' \in BOOLEAN /\ mixed' \in BOOLEAN
      /\ met => met'
  BY <1>1 DEF Breaks, WalletTypes, WalletTypeOK
<1>4. contested \subseteq Purchases /\ answered' \in [Purchases -> {"none", "done", "error"}]
  BY <1>1, WalletParts, AnswersTyped DEF Breaks, Answers
<1>5. OpBecomes(i, Unused)
  BY <1>1, OpAssigned DEF Breaks
<1>6. Stays(i, Unused)
  BY <1>3, <1>4, <1>5 DEF Stays
<1>7. Idles(i, Unused)
  BY <1>3 DEF Idles
<1>8. Quiet(i, Unused)
  <2>1. ASSUME op[i].do = "credit", op[i].at = "entry" PROVE op[i].purchase \in contested'
    BY <1>1, <1>2, <1>3, <2>1 DEF PackInv, Crediting, Writers, OpAt
  <2> QED
    BY <1>3, <2>1 DEF Quiet, Applied
<1>9. mishaps' \in 0 .. MaxMishaps
  BY <1>1, WalletConstants DEF Breaks, Mishap, WalletTypes, WalletTypeOK
<1>10. WalletTypes'
  BY <1>1, <1>3, <1>4, <1>5, <1>6, <1>9 DEF WalletTypes, WalletTypeOK, OpBecomes, Stays, Operations
<1> QED
  BY <1>1, <1>6, <1>7, <1>8, <1>10, QuietPack, IdlePools DEF WalletInv

\* What is written: neither pool below zero, and the purchased credits change by
\* what the operation took from them or put there.
LEMMA Takes ==
  ASSUME NEW w \in WalletRow, NEW credits \in Nat
  PROVE  /\ FromAllowance(w, credits) \in 0 .. w.allowance /\ FromAllowance(w, credits) <= credits
         /\ FromPurchased(w, credits) \in 0 .. w.purchased
BY DEF FromAllowance, FromPurchased, Smaller, WalletRow

LEMMA WrittenIs ==
  ASSUME NEW i, op[i] \in Operation, NEW now \in WalletRow, NEW included \in Nat
  PROVE  /\ Written(i, now, included) \in WalletRow
         /\ op[i].do = "summary" => Written(i, now, included).purchased = now.purchased
         /\ op[i].do = "charge" =>
              Written(i, now, included).purchased
                = op[i].seen.purchased - FromPurchased(op[i].seen, op[i].credits)
         /\ op[i].do = "credit" =>
              Written(i, now, included).purchased = op[i].seen.purchased + op[i].credits
<1>1. PICK w \in WalletRow, c \in Nat : w = op[i].seen /\ c = op[i].credits
  BY DEF Operation, WalletRow
<1>2. op[i].do \in {"summary", "charge", "credit"}
  BY DEF Operation
<1>3. CASE op[i].do = "summary"
  <2>1. Written(i, now, included) = [now EXCEPT !.allowance = included, !.fresh = TRUE]
    BY <1>3 DEF Written, Reset
  <2> QED
    BY <1>3, <2>1 DEF WalletRow
<1>4. CASE op[i].do = "charge"
  <2> DEFINE less == Debited(w, c)
  <2>1. /\ less.allowance = w.allowance - FromAllowance(w, c)
        /\ less.purchased = w.purchased - FromPurchased(w, c)
    BY DEF Debited, WalletRow
  <2>2. less.allowance \in Nat /\ less.purchased \in Nat
    <3>1. w.allowance \in Nat /\ w.purchased \in Nat
      BY DEF WalletRow
    <3> QED
      BY <2>1, <3>1, Takes
  <2>3. Written(i, now, included) = [now EXCEPT !.allowance = less.allowance, !.purchased = less.purchased]
    BY <1>1, <1>4 DEF Written
  <2> HIDE DEF less
  <2> QED
    BY <1>1, <1>4, <2>1, <2>2, <2>3 DEF WalletRow
<1>5. CASE op[i].do = "credit"
  <2> DEFINE more == [w EXCEPT !.purchased = @ + c]
  <2>1. more.allowance = w.allowance /\ more.purchased = w.purchased + c
    BY DEF WalletRow
  <2>2. more.allowance \in Nat /\ more.purchased \in Nat
    BY <2>1 DEF WalletRow
  <2>3. Written(i, now, included) = [now EXCEPT !.allowance = more.allowance, !.purchased = more.purchased]
    BY <1>1, <1>5 DEF Written
  <2> HIDE DEF more
  <2> QED
    BY <1>1, <1>5, <2>1, <2>2, <2>3 DEF WalletRow
<1> QED
  BY <1>2, <1>3, <1>4, <1>5

\* What the step does to the wallets, and to what is told of them.
LEMMA WritePoolsDoes ==
  ASSUME WalletTypes, NEW i \in Invocations, NEW n \in {0, Included}, WritePools(i, n),
         NEW at, at = op[i].id
  PROVE  /\ wallets' \in Seq(WalletRow) /\ Len(wallets') = Len(wallets)
         /\ at \in 1 .. Len(wallets) => wallets'[at] = Written(i, wallets[at], n)
         /\ credited' = IF op[i].do = "credit"
                          THEN [credited EXCEPT ![op[i].purchase] = @ + 1] ELSE credited
         /\ spent' = IF op[i].do = "charge"
                       THEN spent + FromPurchased(op[i].seen, op[i].credits) ELSE spent
         /\ lapsed' = IF op[i].do = "summary" THEN lapsed + op[i].seen.allowance ELSE lapsed
         /\ UNCHANGED <<entries, paid, contested, met, mixed, calls>>
         /\ mishaps' \in 0 .. MaxMishaps
         /\ answered' \in [Purchases -> {"none", "done", "error"}]
         /\ \/ op[i].do = "summary" /\ OpBecomes(i, Unused)
            \/ OpBecomes(i, OpMoved(op[i], "entry"))
<1>1. op[i] \in Operation /\ op[i] # Unused /\ op[i].at = "write"
  BY OpAtIs DEF WritePools
<1>2. wallets \in Seq(WalletRow) /\ n \in Nat
  BY WalletParts, WalletConstants
<1>3. /\ wallets' = [wallets EXCEPT ![at] = Written(i, @, n)]
      /\ credited' = IF op[i].do = "credit"
                       THEN [credited EXCEPT ![op[i].purchase] = @ + 1] ELSE credited
      /\ spent' = IF op[i].do = "charge"
                    THEN spent + FromPurchased(op[i].seen, op[i].credits) ELSE spent
      /\ IF op[i].do = "summary" /\ n = 0 THEN Finish(i)
         ELSE op' = [op EXCEPT ![i].at = "entry"] /\ UNCHANGED answered
      /\ lapsed' = IF op[i].do = "summary" THEN lapsed + op[i].seen.allowance ELSE lapsed
      /\ UNCHANGED <<entries, paid, contested, met, mixed, calls>>
      /\ IF n = Included THEN UNCHANGED mishaps ELSE op[i].do = "summary" /\ Mishap
  BY DEF WritePools
<1>4. /\ wallets' \in Seq(WalletRow) /\ Len(wallets') = Len(wallets)
      /\ at \in 1 .. Len(wallets) => wallets'[at] = Written(i, wallets[at], n)
  <2>1. CASE at \in 1 .. Len(wallets)
    <3>1. wallets[at] \in WalletRow
      BY <1>2, <2>1
    <3>2. PICK w : w = Written(i, wallets[at], n)
      OBVIOUS
    <3>3. w \in WalletRow
      BY <1>1, <1>2, <3>1, <3>2, WrittenIs
    <3>4. wallets' = [wallets EXCEPT ![at] = w]
      BY <1>3, <3>2
    <3> QED
      BY <1>2, <2>1, <3>2, <3>3, <3>4
  <2>2. CASE at \notin 1 .. Len(wallets)
    <3>1. at \notin DOMAIN wallets
      BY <1>2, <2>2
    <3>2. wallets' = [k \in DOMAIN wallets |-> wallets[k]]
      BY <1>3, <3>1
    <3> QED
      BY <1>2, <2>2, <3>2
  <2> QED
    BY <2>1, <2>2
<1>5. mishaps' \in 0 .. MaxMishaps
  <2>1. mishaps \in 0 .. MaxMishaps
    BY DEF WalletTypes, WalletTypeOK
  <2>2. CASE n = Included
    BY <1>3, <2>1, <2>2
  <2>3. CASE n # Included
    BY <1>3, <2>1, <2>3, WalletConstants DEF Mishap
  <2> QED
    BY <2>2, <2>3
<1>6. answered' \in [Purchases -> {"none", "done", "error"}]
  BY <1>3, AnswersTyped DEF Finish
<1>7. \/ op[i].do = "summary" /\ OpBecomes(i, Unused)
      \/ OpBecomes(i, OpMoved(op[i], "entry"))
  <2>1. CASE op[i].do = "summary" /\ n = 0
    BY <1>3, <2>1, OpAssigned DEF Finish
  <2>2. CASE ~(op[i].do = "summary" /\ n = 0)
    BY <1>1, <1>3, <2>2, OpMoves
  <2> QED
    BY <2>1, <2>2
<1> QED
  BY <1>3, <1>4, <1>5, <1>6, <1>7

\* The pools are written.  A credit that gets here is the first of its pack, so one
\* is counted; and who writes them read the purchased credits that are there.
LEMMA WritePoolsPack ==
  ASSUME WalletInv, NEW i \in Invocations, NEW n \in {0, Included}, WritePools(i, n)
  PROVE  PackInv'
<1>1. WalletTypes /\ PackInv
  BY DEF WalletInv
<1>2. op[i] \in Operation /\ op[i] # Unused /\ op[i].at = "write"
  BY <1>1, OpAtIs DEF WritePools
<1>3. PICK at : at = op[i].id
  OBVIOUS
<1>4. /\ credited' = IF op[i].do = "credit"
                       THEN [credited EXCEPT ![op[i].purchase] = @ + 1] ELSE credited
      /\ UNCHANGED <<entries, contested, met>>
      /\ \/ op[i].do = "summary" /\ OpBecomes(i, Unused)
         \/ OpBecomes(i, OpMoved(op[i], "entry"))
  BY <1>1, <1>3, WritePoolsDoes
<1>5. contested \subseteq Purchases /\ credited \in [Purchases -> Nat]
  BY <1>1, WalletParts
<1>6. OpMoved(op[i], "entry") \in Operation
  BY <1>2 DEF Operation, OpMoved
<1>7. CASE op[i].do # "credit"
  <2>1. CASE OpBecomes(i, Unused)
    <3>1. Stays(i, Unused)
      BY <1>4, <1>5, <2>1 DEF Stays
    <3>2. Quiet(i, Unused)
      BY <1>4, <1>7 DEF Quiet, Applied
    <3> QED
      BY <1>1, <3>1, <3>2, QuietPack
  <2>2. CASE OpBecomes(i, OpMoved(op[i], "entry"))
    <3> DEFINE o == OpMoved(op[i], "entry")
    <3>1. o.do = op[i].do /\ o.at = "entry" /\ o \in Operation
      BY <1>6 DEF OpMoved
    <3>2. PICK k : k = o
      OBVIOUS
    <3> HIDE DEF o
    <3>3. Stays(i, k)
      BY <1>4, <1>5, <2>2, <3>1, <3>2 DEF Stays, o
    <3>4. Quiet(i, k)
      BY <1>4, <1>7, <3>1, <3>2 DEF Quiet, Applied
    <3> QED
      BY <1>1, <3>3, <3>4, QuietPack
  <2> QED
    BY <1>4, <2>1, <2>2
<1>8. CASE op[i].do = "credit"
  <2>1. PICK p \in Purchases : p = op[i].purchase /\ op[i].credits = Pack
    BY <1>1, <1>2, <1>8 DEF PackInv
  <2>2. /\ \A j \in Invocations : j # i => op'[j] = op[j]
        /\ op'[i] # Unused /\ op'[i].at = "entry" /\ op'[i].do = "credit"
        /\ op'[i].purchase = p /\ op'[i].credits = Pack
    BY <1>4, <1>6, <1>8, <2>1 DEF OpBecomes, OpMoved, Operation, Unused
  <2>3. ASSUME NEW j \in Invocations, op'[j] # Unused
        PROVE  /\ op'[j].at = "check" => op'[j].do = "credit"
               /\ op'[j].do = "credit" => op'[j].purchase \in Purchases /\ op'[j].credits = Pack
    BY <1>1, <2>2, <2>3 DEF PackInv
  <2>4. credited'[p] = credited[p] + 1 /\ \A q \in Purchases : q # p => credited'[q] = credited[q]
    BY <1>4, <1>5, <1>8, <2>1
  <2>5. ASSUME NEW q \in Purchases \ contested
        PROVE  /\ \A j, k \in Crediters(q)' : j = k
               /\ credited'[q] <= 1
               /\ \A j \in Crediters(q)' : op'[j].at \in {"find", "create", "write"} => credited'[q] = 0
               /\ credited'[q] > 0 => Applied(q)' \/ \E j \in Crediters(q)' : op'[j].at = "entry"
    <3>1. /\ \A j, k \in Crediters(q) : j = k
          /\ credited[q] <= 1
          /\ \A j \in Crediters(q) : op[j].at \in {"find", "create", "write"} => credited[q] = 0
          /\ credited[q] > 0 => Applied(q) \/ \E j \in Crediters(q) : op[j].at = "entry"
      BY <1>1 DEF PackInv
    <3>2. Applied(q)' <=> Applied(q)
      BY <1>4 DEF Applied
    <3>3. Crediters(q)' = Crediters(q)
      BY <1>2, <1>8, <2>1, <2>2 DEF Crediters
    <3>4. CASE q = p
      <4>1. i \in Crediters(q)
        BY <1>2, <1>8, <2>1, <3>4 DEF Crediters
      <4> QED
        BY <1>2, <2>2, <2>4, <3>1, <3>3, <3>4, <4>1
    <3>5. CASE q # p
      <4>1. \A j \in Crediters(q) : j # i
        BY <2>1, <3>5 DEF Crediters
      <4>2. \A j \in Crediters(q) : op'[j] = op[j]
        BY <2>2, <4>1 DEF Crediters
      <4> QED
        BY <2>4, <3>1, <3>2, <3>3, <3>5, <4>2
    <3> QED
      BY <3>4, <3>5
  <2> QED
    BY <1>4, <2>3, <2>5 DEF PackInv
<1> QED
  BY <1>7, <1>8

LEMMA WritePoolsPools ==
  ASSUME WalletInv, NEW i \in Invocations, NEW n \in {0, Included}, WritePools(i, n)
  PROVE  PoolInv'
<1>1. WalletTypes /\ PackInv /\ PoolInv
  BY DEF WalletInv
<1>2. op[i] \in Operation /\ op[i] # Unused /\ op[i].at = "write" /\ i \in Busy
  BY <1>1, OpAtIs DEF WritePools
<1>3. PICK at : at = op[i].id
  OBVIOUS
<1>4. /\ wallets' \in Seq(WalletRow) /\ Len(wallets') = Len(wallets)
      /\ at \in 1 .. Len(wallets) => wallets'[at] = Written(i, wallets[at], n)
      /\ credited' = IF op[i].do = "credit"
                       THEN [credited EXCEPT ![op[i].purchase] = @ + 1] ELSE credited
      /\ spent' = IF op[i].do = "charge"
                    THEN spent + FromPurchased(op[i].seen, op[i].credits) ELSE spent
      /\ met' = met
      /\ \/ op[i].do = "summary" /\ OpBecomes(i, Unused)
         \/ OpBecomes(i, OpMoved(op[i], "entry"))
  BY <1>1, <1>3, WritePoolsDoes
<1>5. /\ wallets \in Seq(WalletRow) /\ credited \in [Purchases -> Nat] /\ spent \in Nat
      /\ IsFiniteSet(Purchases) /\ Pack \in Nat /\ n \in Nat
  BY <1>1, WalletParts, WalletConstants
<1> SUFFICES ASSUME ~met PROVE PoolInv'
  BY <1>4 DEF PoolInv
<1>6. /\ \A j \in Invocations : j # i => op'[j] = op[j]
      /\ op'[i] # Unused => op'[i].at = "entry" /\ op'[i].do = op[i].do
  BY <1>4 DEF OpBecomes, OpMoved
<1>7. Writers' \subseteq Writers
  <2>1. ASSUME NEW j \in Writers' PROVE j \in Writers
    <3>1. CASE j = i
      BY <1>2, <1>6, <2>1, <3>1 DEF Writers, Busy
    <3>2. CASE j # i
      BY <1>6, <2>1, <3>2 DEF Writers, Busy
    <3> QED
      BY <3>1, <3>2
  <2> QED
    BY <2>1
<1>8. \A j, k \in Writers : j = k
  BY <1>1 DEF PoolInv
<1>9. Len(wallets) # 0
  BY <1>1, <1>2 DEF PoolInv
<1>10. CASE Len(wallets) = 1
  <2>1. OneWallet
    BY <1>1, <1>10 DEF PoolInv
  <2>2. at = 1 /\ wallets[1] \in WalletRow
    <3>1. at = 1
      BY <1>2, <1>3, <2>1 DEF OneWallet
    <3>2. 1 \in 1 .. Len(wallets) /\ wallets \in Seq(WalletRow)
      BY <1>5, <1>10
    <3>3. wallets[1] \in WalletRow
      BY <3>2
    <3> QED
      BY <3>1, <3>3
  <2>3. wallets'[1] = Written(i, wallets[1], n)
    BY <1>4, <1>10, <2>2
  <2>4. PICK w \in WalletRow, s \in WalletRow, c \in Nat :
          w = wallets[1] /\ s = op[i].seen /\ c = op[i].credits
    BY <1>2, <2>2 DEF Operation, WalletRow
  <2>5. /\ op[i].do = "summary" => wallets'[1].purchased = w.purchased
        /\ op[i].do = "charge" => wallets'[1].purchased = s.purchased - FromPurchased(s, c)
        /\ op[i].do = "credit" => wallets'[1].purchased = s.purchased + c
    <3>1. PICK next : next = Written(i, w, n)
      OBVIOUS
    <3>2. /\ op[i].do = "summary" => next.purchased = w.purchased
          /\ op[i].do = "charge" =>
               next.purchased = op[i].seen.purchased - FromPurchased(op[i].seen, op[i].credits)
          /\ op[i].do = "credit" => next.purchased = op[i].seen.purchased + op[i].credits
      BY <1>2, <1>5, <3>1, WrittenIs
    <3>3. wallets'[1] = next
      BY <2>3, <2>4, <3>1
    <3> QED
      BY <2>4, <3>2, <3>3
  <2>6. op[i].do # "summary" => s.purchased = w.purchased
    BY <1>2, <2>1, <2>4 DEF OneWallet, Writers
  <2>7. Total \in Nat
    BY <1>5, SumNat, TotalIs
  <2>8. Total' = IF op[i].do = "credit" THEN Total + 1 ELSE Total
    <3>1. CASE op[i].do = "credit"
      <4>1. PICK p \in Purchases : p = op[i].purchase
        BY <1>1, <1>2, <3>1 DEF PackInv
      <4>2. PICK more : more = credited'
        OBVIOUS
      <4>3. /\ more[p] = credited[p] + 1
            /\ \A q \in Purchases : more[q] \in Nat /\ (q # p => more[q] = credited[q])
        BY <1>4, <1>5, <3>1, <4>1, <4>2
      <4>4. Sum(more, Purchases) + credited[p] = Sum(credited, Purchases) + more[p]
        BY <1>5, <4>3, SumChange
      <4>5. Sum(more, Purchases) \in Nat /\ credited[p] \in Nat
        BY <1>5, <4>3, SumNat
      <4> QED
        BY <2>7, <3>1, <4>2, <4>3, <4>4, <4>5, TotalIs
    <3>2. CASE op[i].do # "credit"
      BY <1>4, <3>2, TotalIs
    <3> QED
      BY <3>1, <3>2
  <2>9. wallets'[1].purchased + spent' = Pack * Total'
    <3>1. /\ w.purchased \in Nat /\ s.purchased \in Nat
          /\ FromPurchased(s, c) \in Nat
      BY Takes DEF WalletRow
    <3>2. w.purchased + spent = Pack * Total
      BY <2>1, <2>4 DEF OneWallet
    <3>3. CASE op[i].do = "summary"
      BY <1>4, <2>5, <2>8, <3>2, <3>3
    <3>4. CASE op[i].do = "charge"
      <4>1. spent' = spent + FromPurchased(s, c)
        BY <1>4, <2>4, <3>4
      <4> QED
        BY <1>5, <2>5, <2>6, <2>8, <3>1, <3>2, <3>4, <4>1
    <3>5. CASE op[i].do = "credit"
      <4>1. c = Pack /\ spent' = spent
        BY <1>1, <1>2, <1>4, <2>4, <3>5 DEF PackInv
      <4>2. Pack * (Total + 1) = Pack * Total + Pack
        BY <1>5, <2>7
      <4> QED
        BY <1>5, <2>5, <2>6, <2>8, <3>1, <3>2, <3>5, <4>1, <4>2
    <3> QED
      BY <1>2, <3>3, <3>4, <3>5 DEF Operation
  <2>10. ASSUME NEW j \in Busy', op'[j].at = "write"
         PROVE  op'[j].id = 1 /\ (j \in Writers' => op'[j].seen.purchased = wallets'[1].purchased)
    <3>1. j # i /\ op'[j] = op[j] /\ j \in Busy
      BY <1>6, <2>10 DEF Busy
    <3>2. CASE op[i].do = "summary"
      BY <1>7, <2>1, <2>4, <2>5, <2>10, <3>1, <3>2 DEF OneWallet
    <3>3. CASE op[i].do # "summary"
      <4>1. i \in Writers
        BY <1>2, <3>3 DEF Writers
      <4> QED
        BY <1>7, <1>8, <2>1, <2>10, <3>1, <4>1 DEF OneWallet
    <3> QED
      BY <3>2, <3>3
  <2>11. Writers' \subseteq Busy'
    BY DEF Writers
  <2>12. OneWallet'
    BY <2>9, <2>10, <2>11 DEF OneWallet
  <2> QED
    BY <1>4, <1>7, <1>8, <1>10, <2>12 DEF PoolInv
<1> QED
  BY <1>4, <1>7, <1>8, <1>9, <1>10 DEF PoolInv

LEMMA WritePoolsKeeps ==
  ASSUME WalletInv, NEW i \in Invocations, NEW n \in {0, Included}, WritePools(i, n)
  PROVE  WalletInv'
<1>1. WalletTypes /\ PackInv
  BY DEF WalletInv
<1>2. PICK at : at = op[i].id
  OBVIOUS
<1>3. /\ wallets' \in Seq(WalletRow)
      /\ credited' = IF op[i].do = "credit"
                       THEN [credited EXCEPT ![op[i].purchase] = @ + 1] ELSE credited
      /\ spent' = IF op[i].do = "charge"
                    THEN spent + FromPurchased(op[i].seen, op[i].credits) ELSE spent
      /\ lapsed' = IF op[i].do = "summary" THEN lapsed + op[i].seen.allowance ELSE lapsed
      /\ UNCHANGED <<entries, paid, contested, met, mixed, calls>>
      /\ mishaps' \in 0 .. MaxMishaps
      /\ answered' \in [Purchases -> {"none", "done", "error"}]
      /\ op' \in Operations
  BY <1>1, <1>2, WritePoolsDoes DEF OpBecomes
<1>4. credited' \in [Purchases -> Nat]
  <2>1. credited \in [Purchases -> Nat]
    BY <1>1, WalletParts
  <2>2. CASE op[i].do = "credit"
    <3>1. PICK p \in Purchases : p = op[i].purchase
      BY <1>1, <2>2, OpAtIs DEF WritePools, PackInv
    <3>2. credited' = [credited EXCEPT ![p] = credited[p] + 1]
      BY <1>3, <2>2, <3>1
    <3> QED
      BY <2>1, <3>2
  <2> QED
    BY <1>3, <2>1, <2>2
<1>5. spent' \in Nat /\ lapsed' \in Nat
  <2>1. PICK w \in WalletRow, c \in Nat : w = op[i].seen /\ c = op[i].credits
    BY <1>1, OpAtIs DEF WritePools, Operation, WalletRow
  <2>2. FromPurchased(w, c) \in Nat
    BY Takes DEF WalletRow
  <2>3. spent' \in Nat
    BY <1>1, <1>3, <2>1, <2>2, WalletParts
  <2>4. op[i].seen.allowance \in Nat
    BY <2>1 DEF WalletRow
  <2>5. lapsed \in Nat
    BY <1>1 DEF WalletTypes, WalletTypeOK
  <2>6. lapsed' \in Nat
    BY <1>3, <2>4, <2>5
  <2> QED
    BY <2>3, <2>6
<1>6. WalletTypes'
  BY <1>1, <1>3, <1>4, <1>5 DEF WalletTypes, WalletTypeOK, WalletRow, Operations
<1> QED
  BY <1>6, WritePoolsPack, WritePoolsPools DEF WalletInv

\* The month ends: no pool changes.
LEMMA NewMonthKeeps ==
  ASSUME WalletInv, NewMonth
  PROVE  WalletInv'
<1>1. WalletTypes /\ PackInv /\ PoolInv
  BY DEF WalletInv
<1>2. wallets \in Seq(WalletRow)
  BY <1>1, WalletParts
<1>3. /\ wallets' = [n \in DOMAIN wallets |-> [wallets[n] EXCEPT !.fresh = FALSE]]
      /\ UNCHANGED <<entries, op, paid, answered, credited, spent, contested, met, mixed, lapsed,
                     mishaps>>
      /\ Counts \/ UNCHANGED calls
  BY DEF NewMonth
<1>4. ASSUME NEW n \in DOMAIN wallets
      PROVE  /\ [wallets[n] EXCEPT !.fresh = FALSE] \in WalletRow
             /\ [wallets[n] EXCEPT !.fresh = FALSE].purchased = wallets[n].purchased
  <2>1. wallets[n] \in WalletRow
    BY <1>2
  <2> QED
    BY <2>1 DEF WalletRow
<1>5. DOMAIN wallets = 1 .. Len(wallets) /\ Len(wallets) \in Nat
  BY <1>2
<1>6. wallets' \in Seq(WalletRow) /\ Len(wallets') = Len(wallets)
  <2>1. PICK k \in Nat : k = Len(wallets) /\ DOMAIN wallets = 1 .. k
    BY <1>5
  <2>2. wallets' \in [1 .. k -> WalletRow]
    BY <1>3, <1>4, <2>1
  <2> QED
    BY <2>1, <2>2
<1>7. Len(wallets) = 1 => wallets'[1].purchased = wallets[1].purchased
  <2>1. Len(wallets) = 1 => 1 \in DOMAIN wallets
    BY <1>5
  <2>2. 1 \in DOMAIN wallets => wallets'[1] = [wallets[1] EXCEPT !.fresh = FALSE]
    BY <1>3
  <2> QED
    BY <1>4, <2>1, <2>2
<1>8. calls' \in 0 .. MaxCalls
  BY <1>1, <1>3, WalletConstants DEF Counts, WalletTypes, WalletTypeOK
<1>9. WalletTypes'
  BY <1>1, <1>3, <1>6, <1>8 DEF WalletTypes, WalletTypeOK, WalletRow
<1>10. PackInv'
  BY <1>1, <1>3 DEF PackInv, Crediters, Applied
<1>11. PoolInv'
  <2>1. Total' = Total
    BY <1>3, TotalIs
  <2>2. Busy' = Busy /\ Writers' = Writers
    BY <1>3 DEF Busy, Writers
  <2>3. ASSUME Len(wallets) = 1, OneWallet PROVE OneWallet'
    BY <1>3, <1>7, <2>1, <2>2, <2>3 DEF OneWallet
  <2> QED
    BY <1>1, <1>3, <1>6, <2>1, <2>2, <2>3 DEF PoolInv
<1> QED
  BY <1>9, <1>10, <1>11 DEF WalletInv

LEMMA WalletStarts ==
  ASSUME WalletInit
  PROVE  WalletInv
<1>1. /\ wallets = <<>> /\ entries = <<>> /\ \A i \in Invocations : op[i] = Unused
      /\ paid = {} /\ answered = [p \in Purchases |-> "none"]
      /\ credited = [p \in Purchases |-> 0] /\ spent = 0
      /\ contested = {} /\ met = FALSE /\ mixed = FALSE /\ lapsed = 0
      /\ calls = 0 /\ mishaps = 0
      /\ op \in Operations
  BY DEF WalletInit, Operations
<1>2. WalletTypes
  <2>1. <<>> \in Seq(WalletRow) /\ <<>> \in Seq(Entry)
    OBVIOUS
  <2>2. answered \in [Purchases -> {"none", "done", "error"}] /\ credited \in [Purchases -> Nat]
    BY <1>1
  <2>3. 0 \in 0 .. MaxCalls /\ 0 \in 0 .. MaxMishaps /\ 0 \in Nat
    BY WalletConstants
  <2>4. /\ wallets \in Seq(WalletRow) /\ entries \in Seq(Entry) /\ spent \in Nat
        /\ paid \subseteq Purchases /\ contested \subseteq Purchases
        /\ met \in BOOLEAN /\ mixed \in BOOLEAN /\ lapsed \in Nat /\ calls \in 0 .. MaxCalls /\ mishaps \in 0 .. MaxMishaps
        /\ op \in Operations /\ \A i \in Invocations : op[i] \in {Unused} \cup Operation
    BY <1>1, <2>1, <2>3
  <2> QED
    BY <2>2, <2>4 DEF WalletTypes, WalletTypeOK, WalletRow
<1>3. Busy = {} /\ Writers = {} /\ \A p \in Purchases : Crediters(p) = {}
  BY <1>1 DEF Busy, Writers, Crediters
<1>4. PackInv
  BY <1>1, <1>3 DEF PackInv
<1>5. Total = 0
  <2>1. PICK zero : zero = credited
    OBVIOUS
  <2>2. \A p \in Purchases : zero[p] = 0
    BY <1>1, <2>1
  <2> QED
    BY <2>1, <2>2, SumZero, TotalIs, WalletConstants
<1>6. PoolInv
  BY <1>1, <1>3, <1>5 DEF PoolInv
<1> QED
  BY <1>2, <1>4, <1>6 DEF WalletInv

LEMMA WalletStutters ==
  ASSUME WalletInv, UNCHANGED walletVars
  PROVE  WalletInv'
<1>1. UNCHANGED <<wallets, entries, op, paid, answered, credited, spent, contested, met, mixed, lapsed,
                  calls, mishaps>>
  BY DEF walletVars
<1>2. WalletTypes' /\ PackInv'
  BY <1>1 DEF WalletInv, WalletTypes, WalletTypeOK, PackInv, Crediters, Applied
<1>3. Total' = Total
  BY <1>1, TotalIs
<1>4. PoolInv'
  BY <1>1, <1>3 DEF WalletInv, PoolInv, OneWallet, Busy, Writers
<1> QED
  BY <1>2, <1>4 DEF WalletInv

LEMMA WalletKeeps ==
  ASSUME WalletInv, [WalletNext]_walletVars
  PROVE  WalletInv'
<1>1. ASSUME NEW i \in Invocations, ReadSummary(i) PROVE WalletInv'
  BY <1>1, WalletBeginKeeps DEF ReadSummary
<1>2. ASSUME NEW i \in Invocations, NEW cost \in Costs, Charge(i, cost) PROVE WalletInv'
  BY <1>2, WalletBeginKeeps, WalletConstants DEF Charge
<1>3. ASSUME NEW i \in Invocations, WalletStep(i) PROVE WalletInv'
  BY <1>3, CheckKeeps, FindKeeps, CreateKeeps, WriteEntryKeeps, WritePoolsKeeps DEF WalletStep
<1>4. CASE UNCHANGED walletVars
  BY <1>4, WalletStutters
<1> QED
  BY <1>1, <1>2, <1>3, <1>4, DeliverKeeps, BreaksKeeps, PayKeeps, NewMonthKeeps DEF WalletNext

\* What the wallet's safety rests on: while a pack's deliveries do not overlap and
\* none ends between the pools and the ledger row, the ledger knows of every credit
\* or the one that made it is about to tell (creditWallet); while charges and
\* credits do not overlap, what one of them read of the purchased pool is what is
\* there when it writes.
THEOREM WalletInvariant == WalletSpec => []WalletInv
<1>1. WalletInit => WalletInv
  BY WalletStarts
<1>2. WalletInv /\ [WalletNext]_walletVars => WalletInv'
  BY WalletKeeps
<1> QED
  BY <1>1, <1>2, PTL DEF WalletSpec

\* The variables have their types; in particular no debit, however large, takes a
\* pool below zero (debitWallet's clamping).
THEOREM WalletTyped == WalletSpec => []WalletTypeOK
<1>1. WalletInv => WalletTypeOK
  BY DEF WalletInv, WalletTypes
<1> QED
  BY <1>1, WalletInvariant, PTL

\* However often a pack's payment is delivered, it is credited at most once, unless
\* two deliveries overlap or one dies with the pools written (creditWallet).
THEOREM PackCreditedOnceAlways == WalletSpec => []PackCreditedOnce
<1>1. WalletInv => PackCreditedOnce
  BY DEF WalletInv, PackInv, PackCreditedOnce
<1> QED
  BY <1>1, WalletInvariant, PTL

\* Whatever resets and balance reads run in between, the purchased pool is what was
\* credited less what was spent, as long as charges and credits do not overlap
\* (ensurePlanAllowance writes the allowance only).
THEOREM PurchasesSurviveAlways == WalletSpec => []PurchasesSurviveResets
<1>1. ASSUME WalletInv PROVE PurchasesSurviveResets
  <2> SUFFICES ASSUME ~met, Len(wallets) = 1
               PROVE  Head(wallets).purchased + spent = Pack * Total
    BY DEF PurchasesSurviveResets, Total
  <2>1. wallets[1].purchased + spent = Pack * Total
    BY <1>1 DEF WalletInv, PoolInv, OneWallet
  <2>2. Head(wallets) = wallets[1]
    BY <1>1, WalletParts DEF WalletInv
  <2> QED
    BY <2>1, <2>2
<1> QED
  BY <1>1, WalletInvariant, PTL

\* So what was bought is credited once and stays.
THEOREM PurchasesStandAlways == WalletSpec => []PurchasesStand
<1>1. PackCreditedOnce /\ PurchasesSurviveResets => PurchasesStand
  BY DEF PurchasesStand
<1> QED
  BY <1>1, PackCreditedOnceAlways, PurchasesSurviveAlways, PTL

-----------------------------------------------------------------------------
(* The ledger covers the wallet *)

\* The two pools, without the month.
Pool == [allowance : Nat, purchased : Nat]
NoPools == [allowance |-> 0, purchased |-> 0]
Pools(w) == [allowance |-> w.allowance, purchased |-> w.purchased]

\* The row an operation that wrote the pools is about to append.
RowFor(o) ==
    CASE o.do = "summary" -> [type |-> "grant", credits |-> Included, purchase |-> "none"]
      [] o.do = "charge" -> DebitOf(o)
      [] o.do = "credit" -> [type |-> "purchase", credits |-> o.credits, purchase |-> o.purchase]

\* One at a time, and none ended between the pools and the row: the ledger covers the
\* wallet, or does so with the row that is about to be appended.
AloneInv ==
    ~mixed =>
        /\ \A i, j \in Busy : i = j
        /\ Len(wallets) <= 1 /\ Replayed(entries) \in Pool
        /\ Len(wallets) = 0 =>
             Replayed(entries) = NoPools /\ \A i \in Busy : op[i].at \notin {"write", "entry"}
        /\ \A i \in Busy : op[i].at = "create" => Len(wallets) = 0
        /\ Len(wallets) = 1 =>
             /\ \A i \in Busy : op[i].at = "write" =>
                  op[i].id = 1 /\ Pools(op[i].seen) = Pools(wallets[1])
             /\ \A i \in Busy : op[i].at = "entry" =>
                  Covers(After(Replayed(entries), RowFor(op[i])), wallets[1])
             /\ (\A i \in Busy : op[i].at # "entry") => Covers(Replayed(entries), wallets[1])

\* A replay of every part of a ledger.
Latest(s) == CHOOSE n \in s : \A m \in s : n >= m
Replays(it, log, all) ==
    it = [s \in SUBSET all |-> IF s = {} THEN NoPools ELSE After(it[s \ {Latest(s)}], log[Latest(s)])]

\* What FoldLeft computes with.
LEMMA ReplayedIs ==
  ASSUME NEW log
  PROVE  Replayed(log) = (CHOOSE it : Replays(it, log, DOMAIN log))[DOMAIN log]
BY DEF Replayed, FoldLeft, MapThenFoldSet, Replays, NoPools, Latest, Max

LEMMA LastIs ==
  ASSUME NEW n \in Nat
  PROVE  /\ \A s \in SUBSET (1 .. n + 1) : n + 1 \in s => Latest(s) = n + 1 /\ s \ {Latest(s)} \in SUBSET (1 .. n)
         /\ \A s \in SUBSET (1 .. n) : s # {} => Latest(s) \in s
         /\ (1 .. n + 1) \ {n + 1} = 1 .. n /\ n + 1 \in 1 .. n + 1
         /\ SUBSET (1 .. n) \subseteq SUBSET (1 .. n + 1)
         /\ \A s \in SUBSET (1 .. n + 1) : n + 1 \notin s => s \in SUBSET (1 .. n)
         /\ \A s \in SUBSET (1 .. n) : s \ {Latest(s)} \in SUBSET (1 .. n)
<1>1. ASSUME NEW s \in SUBSET (1 .. n + 1), n + 1 \in s
      PROVE  Latest(s) = n + 1 /\ s \ {Latest(s)} \in SUBSET (1 .. n)
  <2>1. \A m \in s : n + 1 >= m
    OBVIOUS
  <2>2. Latest(s) \in s /\ \A m \in s : Latest(s) >= m
    BY <1>1, <2>1 DEF Latest
  <2>3. Latest(s) \in Nat /\ Latest(s) >= n + 1 /\ n + 1 >= Latest(s)
    <3>1. PICK k \in 1 .. n + 1 : k = Latest(s)
      BY <2>2
    <3>2. k >= n + 1 /\ n + 1 >= k
      BY <1>1, <2>2, <3>1
    <3> QED
      BY <3>1, <3>2
  <2>4. Latest(s) = n + 1
    BY <2>3
  <2> QED
    BY <2>4
<1>2. ASSUME NEW s \in SUBSET (1 .. n), s # {}
      PROVE  Latest(s) \in s
  <2> DEFINE D == {n - m : m \in s}
  <2>1. D \in SUBSET Nat /\ D # {}
    <3>1. \A m \in s : n - m \in Nat
      OBVIOUS
    <3> QED
      BY <1>2, <3>1
  <2>2. PICK d \in D : \A k \in D : d <= k
    BY <2>1, LeastNumber
  <2>3. PICK m \in s : d = n - m
    BY <2>2
  <2>4. \A k \in s : n - k \in D
    OBVIOUS
  <2> HIDE DEF D
  <2>5. ASSUME NEW k \in s PROVE m >= k
    <3>1. n - m <= n - k
      BY <2>2, <2>3, <2>4
    <3>2. m \in 1 .. n /\ k \in 1 .. n
      OBVIOUS
    <3> QED
      BY <3>1, <3>2
  <2> QED
    BY <2>5 DEF Latest
<1>3. (1 .. n + 1) \ {n + 1} = 1 .. n /\ n + 1 \in 1 .. n + 1
  OBVIOUS
<1> QED
  BY <1>1, <1>2, <1>3

\* One row more: the part that ends with it is the part before, and then the row.
LEMMA ReplayGrows ==
  ASSUME NEW n \in Nat, NEW it, NEW log, Replays(it, log, 1 .. n + 1)
  PROVE  /\ Replays([s \in SUBSET (1 .. n) |-> it[s]], log, 1 .. n)
         /\ \A s \in SUBSET (1 .. n + 1) : n + 1 \in s => it[s] = After(it[s \ {n + 1}], log[n + 1])
<1>1. \A s \in SUBSET (1 .. n + 1) :
        it[s] = IF s = {} THEN NoPools ELSE After(it[s \ {Latest(s)}], log[Latest(s)])
  BY DEF Replays
<1> DEFINE less == [s \in SUBSET (1 .. n) |-> it[s]]
<1>2. ASSUME NEW s \in SUBSET (1 .. n)
      PROVE  less[s] = IF s = {} THEN NoPools ELSE After(less[s \ {Latest(s)}], log[Latest(s)])
  BY <1>1, LastIs
<1>3. less = [s \in SUBSET (1 .. n) |-> less[s]]
  OBVIOUS
<1> HIDE DEF less
<1>4. less = [s \in SUBSET (1 .. n) |->
                IF s = {} THEN NoPools ELSE After(less[s \ {Latest(s)}], log[Latest(s)])]
  BY <1>2, <1>3
<1>5. Replays(less, log, 1 .. n)
  BY <1>4 DEF Replays
<1>6. ASSUME NEW s \in SUBSET (1 .. n + 1), n + 1 \in s
      PROVE  it[s] = After(it[s \ {n + 1}], log[n + 1])
  BY <1>1, <1>6, LastIs
<1> QED
  BY <1>5, <1>6 DEF less

LEMMA ReplaysAgree ==
  ASSUME NEW log
  PROVE  \A n \in Nat : \A it, jt : Replays(it, log, 1 .. n) /\ Replays(jt, log, 1 .. n) => it = jt
<1> DEFINE Differ == {n \in Nat : \E it, jt : /\ Replays(it, log, 1 .. n) /\ Replays(jt, log, 1 .. n)
                                              /\ it # jt}
<1> SUFFICES ASSUME Differ # {} PROVE FALSE
  OBVIOUS
<1>1. PICK n \in Differ : \A m \in Differ : n <= m
  BY LeastNumber
<1>2. PICK it, jt : Replays(it, log, 1 .. n) /\ Replays(jt, log, 1 .. n) /\ it # jt
  BY <1>1
<1>3. n \in Nat
  BY <1>1
<1>4. CASE n = 0
  <2>1. SUBSET (1 .. n) = {{}}
    BY <1>4
  <2>2. it = [s \in {{}} |-> NoPools] /\ jt = [s \in {{}} |-> NoPools]
    BY <1>2, <2>1 DEF Replays
  <2> QED
    BY <1>2, <2>2
<1>5. CASE n # 0
  <2>1. PICK m \in Nat : n = m + 1
    <3>1. n - 1 \in Nat /\ n = (n - 1) + 1
      BY <1>3, <1>5
    <3> QED
      BY <3>1
  <2>2. m \notin Differ
    BY <1>1, <1>3, <2>1
  <2>3. /\ Replays([s \in SUBSET (1 .. m) |-> it[s]], log, 1 .. m)
        /\ Replays([s \in SUBSET (1 .. m) |-> jt[s]], log, 1 .. m)
        /\ \A s \in SUBSET (1 .. m + 1) : m + 1 \in s => it[s] = After(it[s \ {m + 1}], log[m + 1])
        /\ \A s \in SUBSET (1 .. m + 1) : m + 1 \in s => jt[s] = After(jt[s \ {m + 1}], log[m + 1])
    BY <1>2, <2>1, ReplayGrows
  <2>4. [s \in SUBSET (1 .. m) |-> it[s]] = [s \in SUBSET (1 .. m) |-> jt[s]]
    BY <2>2, <2>3
  <2>5. \A s \in SUBSET (1 .. m) : it[s] = jt[s]
    BY <2>4
  <2>6. \A s \in SUBSET (1 .. m + 1) : it[s] = jt[s]
    <3>1. ASSUME NEW s \in SUBSET (1 .. m + 1), m + 1 \in s PROVE it[s] = jt[s]
      <4>1. s \ {m + 1} \in SUBSET (1 .. m)
        OBVIOUS
      <4> QED
        BY <2>3, <2>5, <3>1, <4>1
    <3> QED
      BY <2>1, <2>5, <3>1, LastIs
  <2>7. it = [s \in SUBSET (1 .. n) |-> it[s]] /\ jt = [s \in SUBSET (1 .. n) |-> jt[s]]
    BY <1>2 DEF Replays
  <2> QED
    BY <1>2, <2>1, <2>6, <2>7
<1> QED
  BY <1>4, <1>5

LEMMA ReplaysExist ==
  ASSUME NEW log
  PROVE  \A n \in Nat : \E it : Replays(it, log, 1 .. n)
<1> DEFINE Without == {n \in Nat : \A it : ~Replays(it, log, 1 .. n)}
<1> SUFFICES ASSUME Without # {} PROVE FALSE
  OBVIOUS
<1>1. PICK n \in Without : \A m \in Without : n <= m
  BY LeastNumber
<1>2. n \in Nat /\ \A it : ~Replays(it, log, 1 .. n)
  BY <1>1
<1>3. CASE n = 0
  <2> DEFINE it == [s \in {{}} |-> NoPools]
  <2>1. SUBSET (1 .. n) = {{}}
    BY <1>3
  <2>2. Replays(it, log, 1 .. n)
    BY <2>1 DEF Replays
  <2> QED
    BY <1>2, <2>2
<1>4. CASE n # 0
  <2>1. PICK m \in Nat : n = m + 1
    <3>1. n - 1 \in Nat /\ n = (n - 1) + 1
      BY <1>2, <1>4
    <3> QED
      BY <3>1
  <2>2. m \notin Without
    BY <1>1, <1>2, <2>1
  <2>3. PICK it : Replays(it, log, 1 .. m)
    BY <2>2
  <2> DEFINE jt == [s \in SUBSET (1 .. n) |->
                      IF n \in s THEN After(it[s \ {n}], log[n]) ELSE it[s]]
  <2>4. \A s \in SUBSET (1 .. m) :
          it[s] = IF s = {} THEN NoPools ELSE After(it[s \ {Latest(s)}], log[Latest(s)])
    BY <2>3 DEF Replays
  <2>5. \A s \in SUBSET (1 .. m) : n \notin s /\ s \in SUBSET (1 .. n)
    BY <2>1
  <2>6. \A s \in SUBSET (1 .. m) : jt[s] = it[s]
    BY <2>5
  <2>7. ASSUME NEW s \in SUBSET (1 .. n)
        PROVE  jt[s] = IF s = {} THEN NoPools ELSE After(jt[s \ {Latest(s)}], log[Latest(s)])
    <3>1. CASE n \in s
      <4>1. Latest(s) = n /\ s \ {n} \in SUBSET (1 .. m) /\ s # {}
        BY <2>1, <3>1, LastIs
      <4>2. jt[s] = After(it[s \ {n}], log[n])
        BY <3>1
      <4> QED
        BY <2>6, <4>1, <4>2
    <3>2. CASE n \notin s
      <4>1. s \in SUBSET (1 .. m) /\ s \ {Latest(s)} \in SUBSET (1 .. m)
        BY <2>1, <3>2, LastIs
      <4> HIDE DEF jt
      <4> QED
        BY <2>4, <2>6, <4>1
    <3> QED
      BY <3>1, <3>2
  <2>8. jt = [s \in SUBSET (1 .. n) |-> jt[s]]
    OBVIOUS
  <2> HIDE DEF jt
  <2>9. Replays(jt, log, 1 .. n)
    BY <2>7, <2>8 DEF Replays
  <2> QED
    BY <1>2, <2>9
<1> QED
  BY <1>3, <1>4

\* Appending a row applies it to what the ledger said.
LEMMA ReplayedGrows ==
  ASSUME NEW log \in Seq(Entry), NEW e \in Entry
  PROVE  Replayed(Append(log, e)) = After(Replayed(log), e)
<1> DEFINE n == Len(log)
           longer == Append(log, e)
<1>1. /\ n \in Nat /\ DOMAIN log = 1 .. n /\ DOMAIN longer = 1 .. n + 1
      /\ longer[n + 1] = e /\ \A k \in 1 .. n : longer[k] = log[k]
  OBVIOUS
<1> HIDE DEF n, longer
<1>2. /\ Replayed(log) = (CHOOSE it : Replays(it, log, 1 .. n))[1 .. n]
      /\ Replayed(longer) = (CHOOSE it : Replays(it, longer, 1 .. n + 1))[1 .. n + 1]
  BY <1>1, ReplayedIs
<1>3. PICK it : it = CHOOSE f : Replays(f, log, 1 .. n)
  OBVIOUS
<1>4. PICK jt : jt = CHOOSE f : Replays(f, longer, 1 .. n + 1)
  OBVIOUS
<1>5. Replays(it, log, 1 .. n) /\ Replays(jt, longer, 1 .. n + 1)
  <2>1. n + 1 \in Nat
    BY <1>1
  <2> QED
    BY <1>1, <1>3, <1>4, <2>1, ReplaysExist
<1> DEFINE less == [s \in SUBSET (1 .. n) |-> jt[s]]
<1>6. /\ Replays(less, longer, 1 .. n)
      /\ jt[1 .. n + 1] = After(jt[1 .. n], e)
  <2>1. 1 .. n + 1 \in SUBSET (1 .. n + 1) /\ n + 1 \in 1 .. n + 1 /\ (1 .. n + 1) \ {n + 1} = 1 .. n
    BY <1>1
  <2>2. Replays(jt, longer, 1 .. n + 1)
    BY <1>5
  <2>3. /\ Replays(less, longer, 1 .. n)
        /\ \A s \in SUBSET (1 .. n + 1) : n + 1 \in s => jt[s] = After(jt[s \ {n + 1}], longer[n + 1])
    BY <1>1, <2>2, ReplayGrows
  <2> HIDE DEF less
  <2>4. jt[1 .. n + 1] = After(jt[(1 .. n + 1) \ {n + 1}], longer[n + 1])
    BY <2>1, <2>3
  <2> QED
    BY <1>1, <2>1, <2>3, <2>4
<1>7. less[1 .. n] = jt[1 .. n]
  OBVIOUS
<1> HIDE DEF less
<1>8. Replays(less, log, 1 .. n)
  <2>1. ASSUME NEW s \in SUBSET (1 .. n), s # {}
        PROVE  longer[Latest(s)] = log[Latest(s)]
    BY <1>1, <2>1, LastIs
  <2>2. less = [s \in SUBSET (1 .. n) |->
                  IF s = {} THEN NoPools ELSE After(less[s \ {Latest(s)}], longer[Latest(s)])]
    BY <1>6 DEF Replays
  <2>3. less = [s \in SUBSET (1 .. n) |->
                  IF s = {} THEN NoPools ELSE After(less[s \ {Latest(s)}], log[Latest(s)])]
    BY <2>1, <2>2
  <2> QED
    BY <2>3 DEF Replays
<1>9. less = it
  BY <1>1, <1>5, <1>8, ReplaysAgree
<1>10. Replayed(log) = it[1 .. n] /\ Replayed(longer) = jt[1 .. n + 1]
  BY <1>2, <1>3, <1>4
<1> QED
  BY <1>6, <1>7, <1>9, <1>10 DEF longer

LEMMA ReplayedEmpty == Replayed(<<>>) = NoPools
<1>1. PICK log : log = <<>>
  OBVIOUS
<1>2. DOMAIN log = 1 .. 0
  BY <1>1
<1>3. PICK it : it = CHOOSE f : Replays(f, log, 1 .. 0)
  OBVIOUS
<1>4. Replays(it, log, 1 .. 0)
  BY <1>3, ReplaysExist
<1>5. it[{}] = NoPools
  BY <1>4 DEF Replays
<1>6. Replayed(log) = it[1 .. 0]
  BY <1>2, <1>3, ReplayedIs
<1> QED
  BY <1>1, <1>5, <1>6

\* Replaying a ledger gives two pools.
LEMMA AfterPool ==
  ASSUME NEW w \in Pool, NEW e \in Entry
  PROVE  After(w, e) \in Pool
<1>1. w.allowance \in Nat /\ w.purchased \in Nat /\ e.credits \in Nat /\ e.type \in {"debit", "purchase", "grant"}
  BY DEF Pool, Entry
<1>2. CASE e.type = "grant"
  BY <1>1, <1>2 DEF After, Pool
<1>3. CASE e.type = "purchase"
  BY <1>1, <1>3 DEF After, Pool
<1>4. CASE e.type = "debit"
  BY <1>1, <1>4 DEF After, Split, Smaller, Pool
<1> QED
  BY <1>1, <1>2, <1>3, <1>4

\* A step that neither writes the pools nor a row.
Rests(i, o) ==
    /\ UNCHANGED <<entries, lapsed>> /\ Len(wallets') = Len(wallets)
    /\ Len(wallets) = 1 => Pools(wallets'[1]) = Pools(wallets[1])
    /\ mixed => mixed'
    /\ i \in Busy \/ Busy = {} \/ mixed'
    /\ i \in Busy /\ op[i].at = "entry" => mixed'
    /\ o # Unused =>
         /\ o.at # "entry"
         /\ o.at = "create" => Len(wallets) = 0
         /\ o.at = "write" =>
              Len(wallets) # 0 /\ (Len(wallets) = 1 => o.id = 1 /\ Pools(o.seen) = Pools(wallets[1]))

LEMMA RestsAlone ==
  ASSUME WalletTypes, AloneInv, NEW i \in Invocations, NEW o, OpBecomes(i, o), Rests(i, o)
  PROVE  AloneInv'
<1> SUFFICES ASSUME ~mixed' PROVE AloneInv'
  BY DEF AloneInv
<1>1. op'[i] = o /\ \A j \in Invocations : j # i => op'[j] = op[j]
  BY DEF OpBecomes
<1>2. ~mixed /\ (i \in Busy \/ Busy = {}) /\ (i \in Busy => op[i].at # "entry")
  BY DEF Rests
<1>3. \A j, k \in Busy : j = k
  BY <1>2 DEF AloneInv
<1>4. \A j \in Busy' : j = i
  BY <1>1, <1>2, <1>3 DEF Busy
<1>5. \A j \in Busy : op[j].at # "entry"
  BY <1>2, <1>3
<1>6. Len(wallets) \in Nat /\ Len(wallets') = Len(wallets) /\ entries' = entries
  BY WalletParts DEF Rests
<1>7. Len(wallets) <= 1
  BY <1>2 DEF AloneInv
<1>8. o # Unused =>
        /\ o.at # "entry"
        /\ o.at = "create" => Len(wallets) = 0
        /\ o.at = "write" => Len(wallets) = 1 /\ o.id = 1 /\ Pools(o.seen) = Pools(wallets[1])
  BY <1>6, <1>7 DEF Rests
<1>9. i \in Busy' => o # Unused
  BY <1>1 DEF Busy
<1>10. Replayed(entries') = Replayed(entries) /\ Replayed(entries) \in Pool
  BY <1>2, <1>6 DEF AloneInv
<1>11. CASE Len(wallets) = 0
  <2>1. Replayed(entries) = NoPools
    BY <1>2, <1>11 DEF AloneInv
  <2> QED
    BY <1>1, <1>4, <1>6, <1>8, <1>9, <1>10, <1>11, <2>1 DEF AloneInv
<1>12. CASE Len(wallets) = 1
  <2>1. Pools(wallets'[1]) = Pools(wallets[1])
    BY <1>12 DEF Rests
  <2>2. Covers(Replayed(entries), wallets[1])
    BY <1>2, <1>5, <1>12 DEF AloneInv
  <2>3. Covers(Replayed(entries), wallets[1])'
    BY <1>10, <2>1, <2>2 DEF Covers, Pools, Rests
  <2> QED
    BY <1>1, <1>4, <1>6, <1>8, <1>9, <1>10, <1>12, <2>1, <2>3 DEF AloneInv
<1> QED
  BY <1>6, <1>7, <1>11, <1>12

LEMMA BeginAlone ==
  ASSUME WalletInv, AloneInv, NEW i \in Invocations, NEW do \in {"charge", "credit", "summary"},
         NEW credits \in Nat, NEW p \in Purchases \cup {"none"}, Begin(i, do, credits, p)
  PROVE  AloneInv'
<1> DEFINE o == Beginning(do, credits, p)
<1>1. WalletTypes
  BY DEF WalletInv
<1>2. OpBecomes(i, o)
  BY <1>1, BeginIs DEF Stays
<1>3. o.at \notin {"write", "entry", "create"}
  BY DEF Beginning
<1> HIDE DEF o
<1>4. UNCHANGED <<wallets, entries, lapsed>> /\ i \notin Busy /\ (Busy = {} \/ mixed')
  BY DEF Begin, Busy
<1>5. mixed => mixed'
  BY DEF Begin
<1>6. Rests(i, o)
  BY <1>3, <1>4, <1>5 DEF Rests
<1> QED
  BY <1>1, <1>2, <1>6, RestsAlone

LEMMA CheckAlone ==
  ASSUME WalletInv, AloneInv, NEW i \in Invocations, Check(i)
  PROVE  AloneInv'
<1>1. WalletTypes
  BY DEF WalletInv
<1>2. op[i] \in Operation /\ op[i].at = "check" /\ i \in Busy
  BY <1>1, OpAtIs DEF Check
<1>3. PICK o \in Operation : OpBecomes(i, o) /\ o.at = "find"
  BY <1>1, <1>2, CheckIs DEF Checked
<1>4. UNCHANGED <<wallets, entries, lapsed, mixed>>
  BY DEF Check
<1>5. Rests(i, o)
  BY <1>2, <1>3, <1>4 DEF Rests
<1> QED
  BY <1>1, <1>3, <1>5, RestsAlone

LEMMA FindAlone ==
  ASSUME WalletInv, AloneInv, NEW i \in Invocations, Find(i)
  PROVE  AloneInv'
<1>1. WalletTypes
  BY DEF WalletInv
<1>2. op[i] \in Operation /\ op[i] # Unused /\ op[i].at = "find" /\ i \in Busy
  BY <1>1, OpAtIs DEF Find
<1>3. UNCHANGED <<wallets, entries, lapsed, mixed>>
  BY DEF Find
<1>4. wallets \in Seq(WalletRow)
  BY <1>1, WalletParts
<1>5. CASE wallets = <<>>
  <2>1. OpBecomes(i, OpMoved(op[i], "create"))
    BY <1>1, <1>2, <1>5, OpMoves DEF Find
  <2>2. PICK o : o = OpMoved(op[i], "create")
    OBVIOUS
  <2>3. o.at = "create" /\ Len(wallets) = 0
    BY <1>5, <2>2 DEF OpMoved
  <2>4. Rests(i, o)
    BY <1>2, <1>3, <2>3 DEF Rests
  <2> QED
    BY <1>1, <2>1, <2>2, <2>4, RestsAlone
<1>6. CASE wallets # <<>>
  <2>1. Head(wallets) \in WalletRow /\ Head(wallets) = wallets[1] /\ Len(wallets) # 0
    BY <1>4, <1>6
  <2>2. PICK w \in WalletRow : w = Head(wallets)
    BY <2>1
  <2>3. Proceed(i, 1, w)
    BY <1>6, <2>2 DEF Find
  <2>4. \/ OpBecomes(i, Unused)
        \/ OpBecomes(i, OpFound(op[i], 1, w))
    BY <1>1, <1>2, <2>3, ProceedIs
  <2>5. Rests(i, Unused)
    BY <1>2, <1>3 DEF Rests
  <2>6. PICK o : o = OpFound(op[i], 1, w)
    OBVIOUS
  <2>7. o.at = "write" /\ o.id = 1 /\ o.seen = wallets[1]
    BY <2>1, <2>2, <2>6 DEF OpFound
  <2>8. Rests(i, o)
    BY <1>2, <1>3, <2>1, <2>7 DEF Rests
  <2> QED
    BY <1>1, <2>4, <2>5, <2>6, <2>8, RestsAlone
<1> QED
  BY <1>5, <1>6

LEMMA BreaksAlone ==
  ASSUME WalletInv, AloneInv, NEW i \in Invocations, NEW killed \in BOOLEAN, Breaks(i, killed)
  PROVE  AloneInv'
<1>1. WalletTypes
  BY DEF WalletInv
<1>2. OpBecomes(i, Unused)
  BY <1>1, OpAssigned DEF Breaks
<1>3. /\ UNCHANGED <<wallets, entries, lapsed>> /\ i \in Busy
      /\ mixed => mixed'
      /\ op[i].at = "entry" => mixed'
  BY DEF Breaks, OpAt, Busy
<1>4. Rests(i, Unused)
  BY <1>3 DEF Rests
<1> QED
  BY <1>1, <1>2, <1>4, RestsAlone

LEMMA CreateAlone ==
  ASSUME WalletInv, AloneInv, NEW i \in Invocations, Create(i)
  PROVE  AloneInv'
<1>1. WalletTypes
  BY DEF WalletInv
<1>2. op[i] \in Operation /\ op[i] # Unused /\ op[i].at = "create" /\ i \in Busy
  BY <1>1, OpAtIs DEF Create
<1>3. UNCHANGED <<entries, lapsed, mixed>> /\ wallets' = Append(wallets, NewWallet)
  BY DEF Create
<1> SUFFICES ASSUME ~mixed PROVE AloneInv'
  BY <1>3 DEF AloneInv
<1>4. wallets \in Seq(WalletRow) /\ Len(wallets) = 0
  BY <1>1, <1>2, WalletParts DEF AloneInv
<1>5. NewWallet \in WalletRow /\ Pools(NewWallet) = NoPools
  BY DEF NewWallet, WalletRow, Pools, NoPools
<1>6. Len(wallets') = 1 /\ wallets'[1] = NewWallet
  BY <1>3, <1>4, <1>5, LedgerAppended
<1>7. PICK w \in WalletRow : w = NewWallet
  BY <1>5
<1>8. Proceed(i, 1, w)
  BY <1>4, <1>7 DEF Create
<1>9. PICK o : OpBecomes(i, o) /\ (o # Unused => o.at = "write" /\ o.id = 1 /\ o.seen = w)
  <2>1. \/ OpBecomes(i, Unused)
        \/ OpBecomes(i, OpFound(op[i], 1, w))
    BY <1>1, <1>2, <1>8, ProceedIs
  <2> QED
    BY <2>1 DEF OpFound
<1>10. \A j \in Busy' : j = i /\ op'[j] = o /\ o # Unused
  BY <1>2, <1>9 DEF OpBecomes, Busy, AloneInv
<1>11. Replayed(entries') = NoPools /\ NoPools \in Pool
  BY <1>3, <1>4 DEF AloneInv, NoPools, Pool
<1>12. Covers(Replayed(entries), wallets[1])'
  BY <1>1, <1>3, <1>6, <1>11 DEF Covers, NoPools, NewWallet, WalletTypes, WalletTypeOK
<1> QED
  BY <1>3, <1>5, <1>6, <1>7, <1>9, <1>10, <1>11, <1>12 DEF AloneInv

\* What is written is covered by what the row will say.
LEMMA PoolsArePools ==
  ASSUME NEW w \in WalletRow
  PROVE  Pools(w) \in Pool /\ Pools(w).allowance = w.allowance /\ Pools(w).purchased = w.purchased
BY DEF WalletRow, Pool, Pools

\* A debit of pools that have more leaves more, and the rest of it is no larger.
LEMMA DebitCovers ==
  ASSUME NEW told \in Pool, NEW w \in WalletRow, NEW c \in Nat, NEW gone \in Nat,
         told.allowance >= w.allowance, told.purchased >= w.purchased,
         told.allowance + told.purchased <= w.allowance + w.purchased + gone
  PROVE  LET left == Split(told, Smaller(c, told.allowance + told.purchased))
             a == w.allowance - FromAllowance(w, c)
             p == w.purchased - FromPurchased(w, c)
         IN left.allowance >= a /\ left.purchased >= p
              /\ left.allowance + left.purchased <= a + p + gone
<1>1. PICK ta \in Nat, tp \in Nat, wa \in Nat, wp \in Nat :
        ta = told.allowance /\ tp = told.purchased /\ wa = w.allowance /\ wp = w.purchased
  BY DEF Pool, WalletRow
<1>2. PICK d \in Nat : d = Smaller(c, ta + tp)
  BY DEF Smaller
<1>3. /\ Split(told, d).allowance = ta - Smaller(ta, d)
      /\ Split(told, d).purchased = tp - (d - Smaller(ta, d))
  BY <1>1 DEF Split
<1>4. /\ FromAllowance(w, c) = Smaller(wa, c)
      /\ FromPurchased(w, c) = Smaller(wp, c - Smaller(wa, c))
  BY <1>1 DEF FromAllowance, FromPurchased
<1>5. ta >= wa /\ tp >= wp /\ ta + tp <= wa + wp + gone
  BY <1>1
<1>6. /\ ta - Smaller(ta, d) >= wa - Smaller(wa, c)
      /\ tp - (d - Smaller(ta, d)) >= wp - Smaller(wp, c - Smaller(wa, c))
      /\ (ta - Smaller(ta, d)) + (tp - (d - Smaller(ta, d)))
           <= (wa - Smaller(wa, c)) + (wp - Smaller(wp, c - Smaller(wa, c))) + gone
  BY <1>2, <1>5 DEF Smaller
<1> QED
  BY <1>1, <1>2, <1>3, <1>4, <1>6

LEMMA WrittenCovers ==
  ASSUME NEW i, op[i] \in Operation, NEW now \in WalletRow, Pools(op[i].seen) = Pools(now),
         NEW told \in Pool, Covers(told, now), lapsed \in Nat,
         lapsed' = IF op[i].do = "summary" THEN lapsed + op[i].seen.allowance ELSE lapsed,
         NEW then, then = Written(i, now, Included), NEW tells, tells = After(told, RowFor(op[i]))
  PROVE  /\ tells.allowance >= then.allowance /\ tells.purchased >= then.purchased
         /\ tells.allowance + tells.purchased <= then.allowance + then.purchased + lapsed'
<1>1. PICK w \in WalletRow, c \in Nat : w = op[i].seen /\ c = op[i].credits
  BY DEF Operation, WalletRow
<1>2. op[i].do \in {"summary", "charge", "credit"}
  BY DEF Operation
<1>3. /\ w.allowance = now.allowance /\ w.purchased = now.purchased
      /\ now.allowance \in Nat /\ now.purchased \in Nat
      /\ told.allowance \in Nat /\ told.purchased \in Nat
  BY <1>1, PoolsArePools DEF WalletRow, Pool
<1>4. /\ told.allowance >= now.allowance /\ told.purchased >= now.purchased
      /\ told.allowance + told.purchased <= now.allowance + now.purchased + lapsed
  BY DEF Covers
<1>5. CASE op[i].do = "summary"
  <2>1. then.allowance = Included /\ then.purchased = now.purchased
    BY <1>5 DEF Written, Reset, WalletRow
  <2>2. tells = [told EXCEPT !.allowance = @ + Included]
    BY <1>5 DEF RowFor, After
  <2>3. tells.allowance = told.allowance + Included /\ tells.purchased = told.purchased
    BY <2>2 DEF Pool
  <2>4. lapsed' = lapsed + now.allowance /\ Included \in Nat
    BY <1>1, <1>3, <1>5, WalletConstants
  <2> QED
    BY <1>3, <1>4, <2>1, <2>3, <2>4
<1>6. CASE op[i].do = "charge"
  <2>1. RowFor(op[i]) = [type |-> "debit", credits |-> c, purchase |-> "none"]
    BY <1>1, <1>6 DEF RowFor, DebitOf
  <2>2. tells = Split(told, Smaller(c, told.allowance + told.purchased))
    BY <2>1 DEF After
  <2> DEFINE less == Debited(w, c)
  <2>3. /\ less.allowance = w.allowance - FromAllowance(w, c)
        /\ less.purchased = w.purchased - FromPurchased(w, c)
    BY DEF Debited, WalletRow
  <2>4. then = [now EXCEPT !.allowance = less.allowance, !.purchased = less.purchased]
    BY <1>1, <1>6 DEF Written
  <2> HIDE DEF less
  <2>5. then.allowance = less.allowance /\ then.purchased = less.purchased
    BY <2>4 DEF WalletRow
  <2>6. lapsed' = lapsed
    BY <1>6
  <2> QED
    BY <1>3, <1>4, <2>2, <2>3, <2>5, <2>6, DebitCovers
<1>7. CASE op[i].do = "credit"
  <2>1. RowFor(op[i]) = [type |-> "purchase", credits |-> c, purchase |-> op[i].purchase]
    BY <1>1, <1>7 DEF RowFor
  <2>2. tells = [told EXCEPT !.purchased = @ + c]
    BY <2>1 DEF After
  <2>3. tells.allowance = told.allowance /\ tells.purchased = told.purchased + c
    BY <2>2 DEF Pool
  <2> DEFINE more == [w EXCEPT !.purchased = @ + c]
  <2>4. more.allowance = w.allowance /\ more.purchased = w.purchased + c
    BY DEF WalletRow
  <2>5. then = [now EXCEPT !.allowance = more.allowance, !.purchased = more.purchased]
    BY <1>1, <1>7 DEF Written
  <2> HIDE DEF more
  <2>6. then.allowance = more.allowance /\ then.purchased = more.purchased
    BY <2>5 DEF WalletRow
  <2>7. lapsed' = lapsed
    BY <1>7
  <2> QED
    BY <1>3, <1>4, <2>3, <2>4, <2>6, <2>7
<1> QED
  BY <1>2, <1>5, <1>6, <1>7

LEMMA WritePoolsAlone ==
  ASSUME WalletInv, AloneInv, NEW i \in Invocations, NEW n \in {0, Included}, WritePools(i, n)
  PROVE  AloneInv'
<1>1. WalletTypes /\ lapsed \in Nat
  BY DEF WalletInv, WalletTypes, WalletTypeOK
<1> SUFFICES ASSUME ~mixed' PROVE AloneInv'
  BY DEF AloneInv
<1>2. ~mixed
  BY DEF WritePools
<1>3. op[i] \in Operation /\ op[i] # Unused /\ op[i].at = "write" /\ i \in Busy
  BY <1>1, OpAtIs DEF WritePools
<1>4. \A j \in Busy : j = i
  BY <1>2, <1>3 DEF AloneInv
<1>5. Len(wallets) = 1 /\ wallets \in Seq(WalletRow)
  <2>1. Len(wallets) \in Nat /\ Len(wallets) <= 1 /\ Len(wallets) # 0
    BY <1>1, <1>2, <1>3, WalletParts DEF AloneInv
  <2>2. Len(wallets) = 1
    <3>1. PICK k \in Nat : k = Len(wallets)
      BY <2>1
    <3>2. k <= 1 /\ k # 0
      BY <2>1, <3>1
    <3>3. k = 1
      BY <3>2
    <3> QED
      BY <3>1, <3>3
  <2> QED
    BY <1>1, <2>2, WalletParts
<1>6. /\ op[i].id = 1 /\ Pools(op[i].seen) = Pools(wallets[1])
      /\ Covers(Replayed(entries), wallets[1]) /\ Replayed(entries) \in Pool
  BY <1>2, <1>3, <1>4, <1>5 DEF AloneInv
<1>7. /\ Len(wallets') = 1 /\ entries' = entries
      /\ wallets'[1] = Written(i, wallets[1], n)
      /\ lapsed' = IF op[i].do = "summary" THEN lapsed + op[i].seen.allowance ELSE lapsed
  <2>1. PICK at : at = op[i].id
    OBVIOUS
  <2>2. 1 \in 1 .. Len(wallets)
    BY <1>5
  <2> QED
    BY <1>1, <1>5, <1>6, <2>1, <2>2, WritePoolsDoes
<1>8. PICK now \in WalletRow : now = wallets[1]
  <2>1. 1 \in 1 .. Len(wallets) /\ wallets \in Seq(WalletRow)
    BY <1>5
  <2>2. wallets[1] \in WalletRow
    BY <2>1
  <2> QED
    BY <2>2
<1>9. CASE op[i].do = "summary" /\ n = 0
  <2>1. OpBecomes(i, Unused)
    BY <1>1, <1>9, OpAssigned DEF WritePools, Finish
  <2>2. Busy' = {}
    BY <1>4, <2>1 DEF OpBecomes, Busy
  <2>3. PICK w \in WalletRow : w = op[i].seen
    BY <1>3 DEF Operation, WalletRow
  <2>4. w.allowance = now.allowance /\ now.allowance \in Nat /\ now.purchased \in Nat
    BY <1>6, <1>8, <2>3, PoolsArePools DEF WalletRow
  <2>5. wallets'[1].allowance = 0 /\ wallets'[1].purchased = now.purchased
    BY <1>7, <1>8, <1>9 DEF Written, Reset, WalletRow
  <2>6. lapsed' = lapsed + now.allowance
    BY <1>7, <1>9, <2>3, <2>4
  <2>7. PICK told \in Pool : told = Replayed(entries)
    BY <1>6
  <2>8. told.allowance \in Nat /\ told.purchased \in Nat
    BY DEF Pool
  <2>9. /\ told.allowance >= now.allowance /\ told.purchased >= now.purchased
        /\ told.allowance + told.purchased <= now.allowance + now.purchased + lapsed
    BY <1>6, <1>8, <2>7 DEF Covers
  <2>10. /\ told.allowance >= wallets'[1].allowance /\ told.purchased >= wallets'[1].purchased
         /\ told.allowance + told.purchased
              <= wallets'[1].allowance + wallets'[1].purchased + lapsed'
    BY <1>1, <2>4, <2>5, <2>6, <2>8, <2>9
  <2>11. Covers(Replayed(entries), wallets[1])'
    BY <1>7, <2>7, <2>10 DEF Covers
  <2> QED
    BY <1>6, <1>7, <2>2, <2>11 DEF AloneInv
<1>10. CASE ~(op[i].do = "summary" /\ n = 0)
  <2>1. OpBecomes(i, OpMoved(op[i], "entry"))
    <3>1. op' = [op EXCEPT ![i].at = "entry"]
      BY <1>10 DEF WritePools
    <3> QED
      BY <1>1, <1>3, <3>1, OpMoves
  <2>2. n = Included
    BY <1>10 DEF WritePools
  <2>3. PICK o : o = OpMoved(op[i], "entry")
    OBVIOUS
  <2>4. /\ o \in Operation /\ o.at = "entry" /\ RowFor(o) = RowFor(op[i])
        /\ op'[i] = o /\ o # Unused
        /\ \A j \in Busy' : j = i
    <3>1. o \in Operation /\ o.at = "entry" /\ o # Unused
      BY <1>3, <2>3 DEF OpMoved, Operation, Unused
    <3>2. RowFor(o) = RowFor(op[i])
      BY <2>3 DEF OpMoved, RowFor, DebitOf
    <3> QED
      BY <1>4, <2>1, <2>3, <3>1, <3>2 DEF OpBecomes, Busy
  <2>5. PICK told \in Pool : told = Replayed(entries)
    BY <1>6
  <2>6. PICK tells : tells = After(told, RowFor(op[i]))
    OBVIOUS
  <2>7. PICK then : then = Written(i, now, Included)
    OBVIOUS
  <2>8. /\ tells.allowance >= then.allowance /\ tells.purchased >= then.purchased
        /\ tells.allowance + tells.purchased <= then.allowance + then.purchased + lapsed'
    BY <1>1, <1>3, <1>6, <1>7, <1>8, <2>5, <2>6, <2>7, WrittenCovers
  <2>9. Covers(After(Replayed(entries), RowFor(op[i])), wallets[1])'
    <3>1. wallets'[1] = then
      BY <1>7, <1>8, <2>2, <2>7
    <3>2. After(Replayed(entries'), RowFor(op'[i])) = tells
      BY <1>7, <2>4, <2>5, <2>6
    <3> QED
      BY <2>4, <2>8, <3>1, <3>2 DEF Covers, RowFor, DebitOf
  <2>10. i \in Busy'
    BY <2>4 DEF Busy
  <2> QED
    BY <1>6, <1>7, <2>4, <2>9, <2>10 DEF AloneInv
<1> QED
  BY <1>9, <1>10

LEMMA WriteEntryAlone ==
  ASSUME WalletInv, AloneInv, NEW i \in Invocations, WriteEntry(i)
  PROVE  AloneInv'
<1>1. WalletTypes /\ PackInv
  BY DEF WalletInv
<1>2. UNCHANGED <<wallets, lapsed, mixed>>
  BY DEF WriteEntry
<1> SUFFICES ASSUME ~mixed PROVE AloneInv'
  BY <1>2 DEF AloneInv
<1>3. op[i] \in Operation /\ op[i] # Unused /\ op[i].at = "entry" /\ i \in Busy
  BY <1>1, OpAtIs DEF WriteEntry
<1>4. \A j \in Busy : j = i
  BY <1>3 DEF AloneInv
<1>5. Len(wallets) = 1 /\ entries \in Seq(Entry)
  <2>1. Len(wallets) \in Nat /\ Len(wallets) <= 1 /\ Len(wallets) # 0
    BY <1>1, <1>3, WalletParts DEF AloneInv
  <2>2. Len(wallets) = 1
    <3>1. PICK k \in Nat : k = Len(wallets)
      BY <2>1
    <3>2. k <= 1 /\ k # 0
      BY <2>1, <3>1
    <3>3. k = 1
      BY <3>2
    <3> QED
      BY <3>1, <3>3
  <2> QED
    BY <1>1, <2>2, WalletParts
<1>6. Covers(After(Replayed(entries), RowFor(op[i])), wallets[1]) /\ Replayed(entries) \in Pool
  BY <1>3, <1>5 DEF AloneInv
<1>7. PICK e \in Entry : e = RowFor(op[i]) /\ entries' = Append(entries, e)
  <2>1. op[i].do \in {"summary", "charge", "credit"} /\ op[i].credits \in Nat
        /\ op[i].purchase \in Purchases \cup {"none"}
    BY <1>3 DEF Operation
  <2>2. RowFor(op[i]) \in Entry
    <3>1. CASE op[i].do = "summary"
      BY <2>1, <3>1, WalletConstants DEF RowFor, Entry
    <3>2. CASE op[i].do = "charge"
      BY <2>1, <3>2 DEF RowFor, DebitOf, Entry
    <3>3. CASE op[i].do = "credit"
      BY <2>1, <3>3 DEF RowFor, Entry
    <3> QED
      BY <2>1, <3>1, <3>2, <3>3
  <2>3. entries' = Append(entries, RowFor(op[i]))
    BY DEF WriteEntry, RowFor
  <2> QED
    BY <2>2, <2>3
<1>8. Replayed(entries') = After(Replayed(entries), e)
  <2>1. PICK log \in Seq(Entry) : log = entries
    BY <1>5
  <2>2. Replayed(Append(log, e)) = After(Replayed(log), e)
    BY ReplayedGrows
  <2> QED
    BY <1>7, <2>1, <2>2
<1>9. OpBecomes(i, Unused)
  BY <1>1, OpAssigned DEF WriteEntry, Finish
<1>10. Busy' = {}
  BY <1>4, <1>9 DEF OpBecomes, Busy
<1>11. Covers(Replayed(entries), wallets[1])'
  BY <1>2, <1>6, <1>7, <1>8 DEF Covers
<1>12. Replayed(entries') \in Pool
  BY <1>6, <1>8, AfterPool
<1> QED
  BY <1>2, <1>5, <1>10, <1>11, <1>12 DEF AloneInv

LEMMA FirstIn ==
  ASSUME NEW S, NEW s \in Seq(S), 1 \in 1 .. Len(s)
  PROVE  s[1] \in S
OBVIOUS

LEMMA NewMonthAlone ==
  ASSUME WalletInv, AloneInv, NewMonth
  PROVE  AloneInv'
<1>1. wallets \in Seq(WalletRow)
  BY WalletParts DEF WalletInv
<1>2. /\ wallets' = [n \in DOMAIN wallets |-> [wallets[n] EXCEPT !.fresh = FALSE]]
      /\ UNCHANGED <<entries, op, lapsed, mixed>>
  BY DEF NewMonth
<1>3. Len(wallets') = Len(wallets)
  <2>1. PICK k \in Nat : k = Len(wallets) /\ DOMAIN wallets = 1 .. k
    BY <1>1
  <2>2. DOMAIN wallets' = 1 .. k
    BY <1>2, <2>1
  <2>3. Len(wallets') = k
    BY <1>2, <2>1, <2>2
  <2> QED
    BY <2>1, <2>3
<1>4. Len(wallets) = 1 => Pools(wallets'[1]) = Pools(wallets[1])
  <2> SUFFICES ASSUME Len(wallets) = 1 PROVE Pools(wallets'[1]) = Pools(wallets[1])
    OBVIOUS
  <2>1. 1 \in 1 .. Len(wallets) /\ wallets \in Seq(WalletRow)
    BY <1>1
  <2>2. wallets[1] \in WalletRow /\ 1 \in DOMAIN wallets
    <3>1. wallets[1] \in WalletRow
      BY <2>1, FirstIn
    <3>2. DOMAIN wallets = 1 .. Len(wallets)
      BY <2>1
    <3> QED
      BY <2>1, <3>1, <3>2
  <2>3. wallets'[1] = [wallets[1] EXCEPT !.fresh = FALSE]
    BY <1>2, <2>2
  <2> QED
    BY <2>2, <2>3 DEF Pools, WalletRow
<1>5. Replayed(entries') = Replayed(entries) /\ Busy' = Busy
  BY <1>2 DEF Busy
<1>6. ASSUME Len(wallets) = 1, NEW told
      PROVE  Covers(told, wallets[1]) => told.allowance >= wallets'[1].allowance
               /\ told.purchased >= wallets'[1].purchased
               /\ told.allowance + told.purchased
                    <= wallets'[1].allowance + wallets'[1].purchased + lapsed'
  BY <1>2, <1>4, <1>6 DEF Covers, Pools
<1> QED
  BY <1>2, <1>3, <1>4, <1>5, <1>6 DEF AloneInv, Covers

LEMMA AloneStays ==
  ASSUME AloneInv, UNCHANGED <<wallets, entries, op, lapsed, mixed>>
  PROVE  AloneInv'
<1>1. Replayed(entries') = Replayed(entries) /\ Busy' = Busy
  BY DEF Busy
<1> QED
  BY <1>1 DEF AloneInv, Covers

LEMMA AloneKeeps ==
  ASSUME WalletInv, AloneInv, [WalletNext]_walletVars
  PROVE  AloneInv'
<1>1. ASSUME NEW i \in Invocations, ReadSummary(i) PROVE AloneInv'
  BY <1>1, BeginAlone DEF ReadSummary
<1>2. ASSUME NEW i \in Invocations, NEW cost \in Costs, Charge(i, cost) PROVE AloneInv'
  BY <1>2, BeginAlone, WalletConstants DEF Charge
<1>3. ASSUME NEW i \in Invocations, NEW p \in Purchases, Deliver(i, p) PROVE AloneInv'
  BY <1>3, BeginAlone, WalletConstants DEF Deliver
<1>4. ASSUME NEW i \in Invocations, WalletStep(i) PROVE AloneInv'
  BY <1>4, CheckAlone, FindAlone, CreateAlone, WriteEntryAlone, WritePoolsAlone DEF WalletStep
<1>5. ASSUME NEW p \in Purchases, Pay(p) PROVE AloneInv'
  BY <1>5, AloneStays DEF Pay
<1>6. CASE UNCHANGED walletVars
  BY <1>6, AloneStays DEF walletVars
<1> QED
  BY <1>1, <1>2, <1>3, <1>4, <1>5, <1>6, BreaksAlone, NewMonthAlone DEF WalletNext

LEMMA AloneStarts ==
  ASSUME WalletInit
  PROVE  AloneInv
<1>1. wallets = <<>> /\ entries = <<>> /\ Busy = {}
  BY DEF WalletInit, Busy
<1>2. Len(wallets) = 0
  BY <1>1
<1>3. Replayed(entries) = NoPools /\ NoPools \in Pool
  BY <1>1, ReplayedEmpty DEF NoPools, Pool
<1> QED
  BY <1>1, <1>2, <1>3 DEF AloneInv

\* One call after the other, none ended between the pools and its row: the ledger never
\* tells less than the wallet, in no pool, and in all no more than by the allowance that
\* resets wrote over without a row, whatever the charges, packs and resets were
\* (debitWallet, creditWallet, ensurePlanAllowance, deriveBalance).
THEOREM LedgerCoversAlways == WalletSpec => []LedgerCoversTheWallet
<1>1. WalletInit => WalletInv /\ AloneInv
  BY WalletStarts, AloneStarts
<1>2. (WalletInv /\ AloneInv) /\ [WalletNext]_walletVars => (WalletInv /\ AloneInv)'
  BY WalletKeeps, AloneKeeps
<1>3. ASSUME WalletInv, AloneInv PROVE LedgerCoversTheWallet
  <2> SUFFICES ASSUME ~mixed, Busy = {}, wallets # <<>>
               PROVE  Covers(Replayed(entries), Head(wallets))
    BY DEF LedgerCoversTheWallet
  <2>1. wallets \in Seq(WalletRow)
    BY <1>3, WalletParts DEF WalletInv
  <2>2. Len(wallets) \in Nat /\ Len(wallets) # 0 /\ Head(wallets) = wallets[1]
    BY <2>1
  <2>3. Len(wallets) <= 1
    BY <1>3 DEF AloneInv
  <2>4. PICK n \in Nat : n = Len(wallets)
    BY <2>2
  <2>5. n = 1
    BY <2>2, <2>3, <2>4
  <2> QED
    BY <1>3, <2>2, <2>4, <2>5 DEF AloneInv
<1> QED
  BY <1>1, <1>2, <1>3, PTL DEF WalletSpec
=============================================================================
