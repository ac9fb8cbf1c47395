----------------------------- MODULE Transition -----------------------------
(***************************************************************************)
(* A community changes its management company.  planTransition             *)
(* (core/shared/transition/plan.ts) decides the steps from a snapshot      *)
(* (transition-snapshot.ts) and executeTransitionPlan                      *)
(* (transition-execute.ts) writes them one by one, stopping at the first   *)
(* that fails and undoing nothing.  Its callers are                        *)
(* org/transition/execute.post.ts and billing-account/detach-org.post.ts;  *)
(* attach-org.post.ts is the way back.  A step is one write; the snapshot  *)
(* is one step.  Names, board titles, warnings and dates are left out.     *)
(***************************************************************************)
EXTENDS DataExport, FiniteSets

CONSTANTS
    Members,      \* hoa_members of the community
    Staff,        \* those whose user is on the agency's roster
    Accounts,     \* those with a user at all
    FirstRole,    \* the role each begins with
    Ours,         \* the community
    Handovers,    \* function invocations
    Nobody,
    MaxHandovers  \* bound: transitions begun, and attachments

Kinds == {"hoa_admin", "property_manager", "member"}
ASSUME TransitionConstants ==
    /\ Staff \subseteq Members /\ Accounts \subseteq Members
    /\ FirstRole \in [Members -> Kinds]
    /\ \E m \in Accounts : FirstRole[m] = "hoa_admin"
    /\ Ours \in Communities /\ Nobody \notin Members
    /\ MaxHandovers \in Nat

VARIABLES
    role, active, grants,  \* hoa_members: role, status, manager_permissions
    vendor,                \* the management company's vendor row, if there is one
    billing,               \* by the agency's account, by itself, or expired
    grace,                 \* grace_ends_at is set
    seat,                  \* the agency's subscription counts the community
    handover,              \* each invocation: the steps left of its plan, and whom
                           \* they are about
    audits,                \* entries in the audit log
    begun,
    overlapped,            \* (history) two transitions were under way at once
    unreachable            \* (history) a transition left nobody with an account in charge

transitionVars == <<role, active, grants, vendor, billing, grace, seat, handover,
                    audits, begun, overlapped, unreachable>>
people == <<role, active, grants>>
books == <<vendor, billing, grace, seat>>

Administrators == {m \in active : role[m] = "hoa_admin"}

-----------------------------------------------------------------------------
(* The plan *)

\* The order of the steps.  The seats are synced within detach_billing, and by
\* detach-org.post.ts at its end; offer_export looks before it queues.
PromoteLate ==     \* (mutant: the successor is promoted after the manager is out)
    [revoke_grants |-> 1, deactivate_member |-> 2, promote_admin |-> 3, end_vendor |-> 4,
     detach_billing |-> 5, sync_seats |-> 6, open_grace |-> 7, offer_export |-> 8,
     create_export |-> 9, write_audit |-> 10, resync_seats |-> 11]
Rank ==
    [promote_admin |-> 1, revoke_grants |-> 2, deactivate_member |-> 3, end_vendor |-> 4,
     detach_billing |-> 5, sync_seats |-> 6, open_grace |-> 7, offer_export |-> 8,
     create_export |-> 9, write_audit |-> 10, resync_seats |-> 11]
StepKinds == DOMAIN Rank

\* Nobody is known as the agency's staff once the community has no account.
AgencyStaff == IF billing = "agency" THEN Staff ELSE {}

EligibleSuccessors(out) ==
    {m \in active \ (out \cup AgencyStaff) : role[m] # "property_manager"}
Remaining(out) == Administrators \ out

IsNeeded(k, successor, out, wantsExport) ==
    \/ k = "promote_admin" /\ successor # Nobody
    \/ k = "revoke_grants" /\ out \cap grants # {}
    \/ k = "deactivate_member" /\ out # {}
    \/ k = "end_vendor" /\ out # {} /\ vendor = "current"
    \/ k \in {"detach_billing", "sync_seats", "open_grace"} /\ billing = "agency"
    \/ k \in {"offer_export", "create_export"} /\ wantsExport /\ out # {}

PlannedSteps(successor, out, wantsExport) ==
    LET steps == {k \in StepKinds : IsNeeded(k, successor, out, wantsExport)}
    IN  IF steps = {} THEN {} ELSE steps \cup {"write_audit"}

\* canExecute: none of the blockers.
CanExecute(successor, out, steps) ==
    /\ IF successor = Nobody THEN Remaining(out) # {}
       ELSE successor \in EligibleSuccessors(out)
    /\ steps # {}

NoPlan == [todo |-> {}, successor |-> Nobody, revoke |-> {}, leave |-> {}]
Underway(h) == handover[h].todo # {}

-----------------------------------------------------------------------------
(* The callers *)

\* checkAdminAccess: an administrator of the community, or of the platform, so that
\* there is always somebody who may.
BeginHandover(h, successor, out, wantsExport, afterwards) ==
    LET steps == PlannedSteps(successor, out, wantsExport)
    IN  /\ ~Underway(h) /\ begun < MaxHandovers
        /\ CanExecute(successor, out, steps)
        /\ handover' = [handover EXCEPT ![h] =
               [todo |-> steps \cup afterwards, successor |-> successor,
                revoke |-> out \cap grants, leave |-> out]]
        /\ begun' = begun + 1
        /\ overlapped' = (overlapped \/ \E g \in Handovers : Underway(g))
        /\ unreachable' = (unreachable
                           \/ Accounts \cap (Remaining(out) \cup {successor}) = {})
        /\ UNCHANGED <<people, books, audits, exportVars>>

\* Whoever is named leaves (resolveOutgoingIds); by default every active manager and
\* everyone of the agency, which is one of these sets.
Transitions(h) ==
    \E successor \in Members \cup {Nobody}, out \in SUBSET Members, wantsExport \in BOOLEAN :
        BeginHandover(h, successor, out, wantsExport, {})

\* detach-org.post.ts: a billing change, nobody leaves.
DetachOrg(h) ==
    billing = "agency" /\ BeginHandover(h, Nobody, {}, FALSE, {"resync_seats"})

\* attach-org.post.ts; the seat count may fail to follow.
AttachOrg ==
    /\ begun < MaxHandovers /\ begun' = begun + 1
    /\ billing' = "agency" /\ seat' \in {seat, TRUE}
    /\ UNCHANGED <<people, vendor, grace, handover, audits, overlapped, unreachable,
                   exportVars>>

-----------------------------------------------------------------------------
(* The executor *)

Turn(h, k) ==
    k \in handover[h].todo /\ \A j \in handover[h].todo : Rank[k] <= Rank[j]
Finished(h, ks) == handover' = [handover EXCEPT ![h].todo = @ \ ks]
Untold == UNCHANGED <<begun, overlapped, unreachable>>

PromoteAdmin(h) ==
    /\ Turn(h, "promote_admin")
    /\ role' = [role EXCEPT ![handover[h].successor] = "hoa_admin"]
    /\ Finished(h, {"promote_admin"})
    /\ Untold /\ UNCHANGED <<active, grants, books, audits, exportVars>>

RevokeGrants(h) ==
    /\ Turn(h, "revoke_grants")
    /\ \E m \in handover[h].revoke :
         /\ grants' = grants \ {m}
         /\ handover' = [handover EXCEPT ![h].revoke = @ \ {m},
                ![h].todo = IF handover[h].revoke = {m} THEN @ \ {"revoke_grants"} ELSE @]
    /\ Untold /\ UNCHANGED <<role, active, books, audits, exportVars>>

DeactivateMember(h) ==
    /\ Turn(h, "deactivate_member")
    /\ \E m \in handover[h].leave :
         /\ active' = active \ {m}
         /\ handover' = [handover EXCEPT ![h].leave = @ \ {m},
                ![h].todo = IF handover[h].leave = {m} THEN @ \ {"deactivate_member"} ELSE @]
    /\ Untold /\ UNCHANGED <<role, grants, books, audits, exportVars>>

EndVendor(h) ==
    /\ Turn(h, "end_vendor")
    /\ vendor' = "ended"
    /\ Finished(h, {"end_vendor"})
    /\ Untold /\ UNCHANGED <<people, billing, grace, seat, audits, exportVars>>

DetachBilling(h) ==
    /\ Turn(h, "detach_billing")
    /\ billing' = "expired"
    /\ Finished(h, {"detach_billing"})
    /\ Untold /\ UNCHANGED <<people, vendor, grace, seat, audits, exportVars>>

SyncSeats(h) ==
    /\ seat' = (billing = "agency")
    /\ \E k \in {"sync_seats", "resync_seats"} : Turn(h, k) /\ Finished(h, {k})
    /\ Untold /\ UNCHANGED <<people, vendor, billing, grace, audits, exportVars>>

OpenGrace(h) ==
    /\ Turn(h, "open_grace")
    /\ grace' = TRUE
    /\ Finished(h, {"open_grace"})
    /\ Untold /\ UNCHANGED <<people, vendor, billing, seat, audits, exportVars>>

\* Skipped while an export is in flight; nothing keeps one from starting meanwhile.
OfferExport(h) ==
    /\ Turn(h, "offer_export")
    /\ Finished(h, {"offer_export"} \cup IF InFlight(Ours) THEN {"create_export"} ELSE {})
    /\ Untold /\ UNCHANGED <<people, books, audits, exportVars>>

CreateExport(h) ==
    /\ Turn(h, "create_export") /\ Room
    /\ jobs' = Append(jobs, Queued(Ours))
    /\ Finished(h, {"create_export"})
    /\ Untold /\ UNCHANGED <<people, books, audits, archives, asked, builder, exportFaults>>

WriteAudit(h) ==
    /\ Turn(h, "write_audit")
    /\ audits' = audits + 1
    /\ Finished(h, {"write_audit"})
    /\ Untold /\ UNCHANGED <<people, books, exportVars>>

\* A write fails, or the function is killed: whatever was done stays done.  (A write
\* that fails after it took effect is that step, and a stop at the next.)
Stops(h) ==
    /\ Underway(h)
    /\ handover' = [handover EXCEPT ![h] = NoPlan]
    /\ Untold /\ UNCHANGED <<people, books, audits, exportVars>>

TransitionInit ==
    /\ role = FirstRole /\ active = Members
    /\ grants = {m \in Members : FirstRole[m] = "property_manager"}
    /\ vendor \in {"none", "current"}
    /\ billing \in {"agency", "own"} /\ grace = FALSE
    /\ seat = (billing = "agency")
    /\ handover = [h \in Handovers |-> NoPlan]
    /\ audits = 0 /\ begun = 0
    /\ overlapped = FALSE /\ unreachable = FALSE

TransitionNext ==
    \/ AttachOrg
    \/ \E h \in Handovers :
         \/ Transitions(h) \/ DetachOrg(h) \/ Stops(h)
         \/ PromoteAdmin(h) \/ RevokeGrants(h) \/ DeactivateMember(h) \/ EndVendor(h)
         \/ DetachBilling(h) \/ SyncSeats(h) \/ OpenGrace(h)
         \/ OfferExport(h) \/ CreateExport(h) \/ WriteAudit(h)

\* The worker, and whoever else queues exports, go on meanwhile.
TransitionSpec ==
    /\ ExportInit /\ TransitionInit
    /\ [][TransitionNext \/ (ExportNext /\ UNCHANGED transitionVars)]_<<exportVars, transitionVars>>

-----------------------------------------------------------------------------
(* Properties *)

TransitionTypeOK ==
    /\ role \in [Members -> Kinds] /\ active \subseteq Members /\ grants \subseteq Members
    /\ vendor \in {"none", "current", "ended"}
    /\ billing \in {"agency", "own", "expired"} /\ grace \in BOOLEAN /\ seat \in BOOLEAN
    /\ handover \in [Handovers -> [todo : SUBSET StepKinds, successor : Members \cup {Nobody},
                                   revoke : SUBSET Members, leave : SUBSET Members]]
    /\ audits \in Nat /\ begun \in 0..MaxHandovers
    /\ overlapped \in BOOLEAN /\ unreachable \in BOOLEAN

\* After every single write, wherever a transition stops and however it is tried
\* again, somebody who can sign in is an administrator; "at no point is there a state
\* with nobody able to run the account".  Not so when two transitions overlap, each
\* counting on whom the other removes, or when the plan itself counts on a member
\* without an account (planTransition, executeTransitionPlan).
SomeoneRunsIt ==
    ~overlapped /\ ~unreachable => Accounts \cap Administrators # {}

\* "every prefix of this sequence is a safe state": where a transition has stopped,
\* the community is not locked out (isEntitledFrom).
Entitled == billing # "expired" \/ grace
EveryPrefixIsSafe == (\A h \in Handovers : ~Underway(h)) => Entitled
=============================================================================
