--------------------------- MODULE ChangeRequests ---------------------------
(***************************************************************************)
(* A resident's changes to their own household, made when a reviewer       *)
(* approves (core/server/api/org/change-requests, change-requests.ts).     *)
(* A step is one Directus request.  The pets' and vehicles' columns and    *)
(* the notifications are left out; what a change does to a record is kept  *)
(* as far as who owns it and whether it has ended.                         *)
(***************************************************************************)
EXTENDS Naturals, FiniteSets

CONSTANTS
    Residents,       \* hoa_members; a contact or mailing change is of such a row
    Things,          \* hoa_vehicles and hoa_pets
    Nothing,         \* not there
    Changes,         \* rows of hoa_member_change_requests that may be made (bound)
    Reviews,         \* invocations of decide.post.ts
    MaxEdits,        \* bound: what managers change directly
    MaxStops         \* bound: reviews that stop short

ChangeActions == {"create", "update", "delete"}
ChangeRows == [status : {"asked", "pending", "approved", "rejected"}, member : Residents,
               action : ChangeActions, target : Residents \cup Things \cup {Nothing}]

ASSUME ChangeConstants ==
    /\ Nothing \notin Residents \cup Things \cup Changes \cup ChangeRows
    /\ Residents \cap Things = {}
    /\ MaxEdits \in Nat /\ MaxStops \in Nat

VARIABLES
    owner,      \* member_id of each vehicle and pet
    ended,      \* those archived with an end_date
    change,     \* each row: its status, whose, what is to be done to what; `asked` is a
                \* handler that has checked the ownership and not yet made the row
    review,     \* each reviewer's invocation: the row it read as pending, the verdict,
                \* and what it writes next
    edits,      \* direct edits so far
    stops,      \* reviews stopped so far
    made,       \* (history) how often each change was made
    doubled,    \* (history) changes that two invocations reviewed at once
    cut         \* (history) changes made by an invocation that did not record it

household == <<owner, ended, edits>>
changeVars == <<household, change, review, stops, made, doubled, cut>>

-----------------------------------------------------------------------------
(* Asking *)

Asked(m, action, t) == [status |-> "asked", member |-> m, action |-> action, target |-> t]

\* A contact or mailing change is an update of the member; a new thing has no target;
\* of an existing one the ownership is proved first.
MayAsk(m, action, t) ==
    \/ action = "update" /\ t = m
    \/ action = "create" /\ t = Nothing
    \/ action \in {"update", "delete"} /\ t \in Things /\ owner[t] = m

Asks(q, m, action, t) ==
    /\ change[q] = Nothing
    /\ MayAsk(m, action, t)
    /\ change' = [change EXCEPT ![q] = Asked(m, action, t)]
    /\ UNCHANGED <<household, review, stops, made, doubled, cut>>

Files(q) ==
    /\ change[q] # Nothing /\ change[q].status = "asked"
    /\ change' = [change EXCEPT ![q].status = "pending"]
    /\ UNCHANGED <<household, review, stops, made, doubled, cut>>

-----------------------------------------------------------------------------
(* Deciding *)

Unassigned == [at |-> "idle", of |-> Nothing, verdict |-> "none"]
Reviewing(v, q) == review[v].of = q

\* bug: a decided request may be decided again (MadeOnce).
Filed(q) == change[q] # Nothing /\ change[q].status # "asked"
\* decide.post.ts refuses what is not pending with 409.
Pending(q) == change[q] # Nothing /\ change[q].status = "pending"

\* An approval is applied to the live record, then marked; a rejection only marked.
FirstWrite(verdict) == IF verdict = "approved" THEN "apply" ELSE "mark"

StartsReview(v, q, verdict) ==
    /\ review[v] = Unassigned
    /\ Pending(q)
    /\ review' = [review EXCEPT ![v] = [at |-> FirstWrite(verdict), of |-> q, verdict |-> verdict]]
    /\ doubled' = IF \E w \in Reviews : Reviewing(w, q) THEN doubled \cup {q} ELSE doubled
    /\ UNCHANGED <<household, change, stops, made, cut>>

\* applyChangeRequest: a new vehicle or pet, new values in a row, or its archiving.
Creates(m) == \E t \in Things :
    owner[t] = Nothing /\ owner' = [owner EXCEPT ![t] = m] /\ UNCHANGED ended
\* bug: the end_date is not written (ApprovedIsMade).
LeavesCurrent(t) == UNCHANGED <<owner, ended>>
Archives(t) == ended' = ended \cup {t} /\ UNCHANGED owner
Makes(c) ==
    \/ c.action = "create" /\ Creates(c.member)
    \/ c.action = "update" /\ UNCHANGED <<owner, ended>>
    \/ c.action = "delete" /\ Archives(c.target)

Applies(v) ==
    /\ review[v].at = "apply"
    /\ Makes(change[review[v].of])
    /\ made' = [made EXCEPT ![review[v].of] = @ + 1]
    /\ review' = [review EXCEPT ![v].at = "mark"]
    /\ UNCHANGED <<edits, change, stops, doubled, cut>>

Marks(v) ==
    /\ review[v].at = "mark"
    /\ change' = [change EXCEPT ![review[v].of].status = review[v].verdict]
    /\ review' = [review EXCEPT ![v] = Unassigned]
    /\ UNCHANGED <<household, stops, made, doubled, cut>>

\* A request fails and the handler answers 500, or the function is frozen.
StopsReview(v) ==
    /\ review[v] # Unassigned
    /\ stops < MaxStops /\ stops' = stops + 1
    /\ cut' = IF review[v].at = "mark" /\ review[v].verdict = "approved"
              THEN cut \cup {review[v].of} ELSE cut
    /\ review' = [review EXCEPT ![v] = Unassigned]
    /\ UNCHANGED <<household, change, made, doubled>>

-----------------------------------------------------------------------------
(* What managers do directly (useUnitRecords.ts) *)

Edits ==
    /\ edits < MaxEdits /\ edits' = edits + 1
    /\ UNCHANGED <<change, review, stops, made, doubled, cut>>

\* A new vehicle or pet, or another responsible resident for one (PetForm.vue).
GivesTo(t, m) ==
    /\ Edits
    /\ owner' = [owner EXCEPT ![t] = m]
    /\ UNCHANGED ended

EndsRecord(t) ==
    /\ Edits
    /\ owner[t] # Nothing
    /\ ended' = ended \cup {t}
    /\ UNCHANGED owner

-----------------------------------------------------------------------------
ChangesInit ==
    /\ owner \in [Things -> Residents \cup {Nothing}]
    /\ ended = {} /\ edits = 0 /\ stops = 0
    /\ change = [q \in Changes |-> Nothing]
    /\ review = [v \in Reviews |-> Unassigned]
    /\ made = [q \in Changes |-> 0]
    /\ doubled = {} /\ cut = {}

ChangesNext ==
    \/ \E q \in Changes :
          \/ \E m \in Residents, action \in ChangeActions,
                t \in Residents \cup Things \cup {Nothing} : Asks(q, m, action, t)
          \/ Files(q)
          \/ \E v \in Reviews, verdict \in {"approved", "rejected"} : StartsReview(v, q, verdict)
    \/ \E v \in Reviews : Applies(v) \/ Marks(v) \/ StopsReview(v)
    \/ \E t \in Things : EndsRecord(t) \/ \E m \in Residents : GivesTo(t, m)

ChangesSpec == ChangesInit /\ [][ChangesNext]_changeVars

-----------------------------------------------------------------------------
(* Properties *)

ChangesTypeOK ==
    /\ owner \in [Things -> Residents \cup {Nothing}] /\ ended \subseteq Things
    /\ \A q \in Changes : change[q] = Nothing \/ change[q] \in ChangeRows
    /\ \A v \in Reviews : review[v] = Unassigned \/ review[v] \in
          [at : {"apply", "mark"}, of : Changes, verdict : {"approved", "rejected"}]
    /\ edits \in 0..MaxEdits /\ stops \in 0..MaxStops
    /\ made \in [Changes -> Nat] /\ doubled \subseteq Changes /\ cut \subseteq Changes

\* A change has been made once if it reads approved (or is about to), and otherwise not
\* at all, unless two reviewers doubled at it or one made it and could not say so
\* (decide.post.ts:34, 38-47).
Approving(q) == \E v \in Reviews :
    Reviewing(v, q) /\ review[v].at = "mark" /\ review[v].verdict = "approved"
MadeOnce == \A q \in Changes \ (doubled \cup cut) :
    made[q] = IF change[q] # Nothing /\ (change[q].status = "approved" \/ Approving(q)) THEN 1 ELSE 0

\* What reads approved has been made, and what was to be removed has ended, whoever doubled
\* and whatever stopped: the record is written before the row (decide.post.ts:38-47).
ApprovedIsMade == \A q \in Changes :
    change[q] # Nothing /\ change[q].status = "approved" =>
        /\ made[q] >= 1
        /\ change[q].action = "delete" => change[q].target \in ended
=============================================================================
