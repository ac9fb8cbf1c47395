----------------------------- MODULE EmailDelete -----------------------------
(***************************************************************************)
(* Deleting an email (core/server/api/email/[id].delete.ts) among the      *)
(* functions of EmailSends: the status is checked, then the permission,    *)
(* then the rows go and then the email.  Nothing is modelled of an email   *)
(* that is gone: every function on it fails at its next request.           *)
(***************************************************************************)
EXTENDS EmailSends

VARIABLES
    erasing,   \* what the delete route does next: "no", "rows" or "email"
    gone       \* the hoa_emails row is deleted

deleteVars == <<erasing, gone>>
allVars == <<vars, deleteVars>>

DeleteInit == Init /\ erasing = "no" /\ gone = FALSE

\* It reads the email and refuses whatever is not a draft.
StartsDelete ==
    /\ erasing = "no" /\ email.status = "draft"
    /\ erasing' = "rows"
    /\ UNCHANGED <<vars, gone>>

\* All recipients of the email, whatever their occurrence ("shouldn't be any").
DeletesRows ==
    /\ erasing = "rows"
    /\ rows' = [k \in Keys |-> {}] /\ open' = [k \in Keys |-> {}]
    /\ erasing' = "email"
    /\ UNCHANGED <<email, lease, mails, pc, runVars, now, sends, faults, gone>>

\* The email, and by its foreign key the lease.
DeletesEmail ==
    /\ erasing = "email"
    /\ gone' = TRUE /\ erasing' = "no" /\ lease' = NoRun
    /\ UNCHANGED <<email, dataVars, pc, runVars, now, sends, faults>>

\* A request fails, or the function is frozen.
DeleteStops ==
    /\ erasing # "no" /\ Mishap
    /\ erasing' = "no"
    /\ UNCHANGED <<email, lease, dataVars, pc, runVars, now, sends, gone>>

DeleteNext ==
    /\ ~gone
    /\ \/ Next /\ UNCHANGED deleteVars
       \/ StartsDelete \/ DeletesRows \/ DeletesEmail \/ DeleteStops

DeleteSpec == DeleteInit /\ [][DeleteNext]_allVars

-----------------------------------------------------------------------------
\* "Only draft emails can be deleted. Sent emails are kept for records."
\* ([id].delete.ts:50): a deleted email was never mailed to anybody.
SentEmailsAreKept == gone => \A k \in Keys : ~AnyMailed(k)
=============================================================================
