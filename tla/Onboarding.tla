----------------------------- MODULE Onboarding -----------------------------
(***************************************************************************)
(* How a person gets into a community's portal: an invitation, accepted    *)
(* (invite-member, resend-, cancel- and accept-invitation), a join request *)
(* (request-join, approve-, reject-join-request), or an administrator who  *)
(* connects an account by hand (connect-user-to-member).  A step is one    *)
(* Directus request; whatever the handlers of core/server/api/hoa check,   *)
(* they checked a request earlier.  Roles, grants, residency, units, the   *)
(* member count and the mails are left out.                                *)
(***************************************************************************)
EXTENDS Integers, Sequences

CONSTANTS
    Addresses,       \* email addresses; a Directus user has one, and it is unique
    NoLogin,         \* a member who never signed up
    Visits,          \* function invocations
    MaxRoster, MaxInvitations, MaxJoins, \* bounds: rows of each collection
    MaxArrivals      \* bound: requests made

ASSUME OnboardingConstants ==
    /\ NoLogin \notin Addresses
    /\ MaxRoster \in Nat /\ MaxInvitations \in Nat /\ MaxJoins \in Nat
    /\ MaxArrivals \in Nat

VARIABLES
    roster,       \* hoa_members, by date_created: email, status, user
    invitations,  \* hoa_invitations: email, status, whether still before expires_at
    joins,        \* hoa_join_requests: whose, status
    logins,       \* directus_users, by address
    visit,        \* each invocation: where it is, for whom, the row it is about, and the
                  \* member found
    arrivals,     \* requests made so far
    byHand        \* (history) addresses an administrator's approval or connection touched

onboardingVars == <<roster, invitations, joins, logins, visit, arrivals, byHand>>
community == <<roster, invitations, joins, logins, byHand>>

Member(p, status, user) == [email |-> p, status |-> status, user |-> user]

Away == [at |-> "away", who |-> NoLogin, of |-> 0, row |-> 0]
Arrives(v, at, p, i) ==
    /\ visit[v] = Away /\ arrivals < MaxArrivals
    /\ visit' = [visit EXCEPT ![v] = [at |-> at, who |-> p, of |-> i, row |-> 0]]
    /\ arrivals' = arrivals + 1
MovesTo(v, at) == visit' = [visit EXCEPT ![v].at = at] /\ UNCHANGED arrivals
Leaves(v) == visit' = [visit EXCEPT ![v] = Away] /\ UNCHANGED arrivals

-----------------------------------------------------------------------------
(* Invitations *)

RowsOf(p) == {m \in DOMAIN roster : roster[m].email = p}

\* inviteGateFor: nobody's row, or an active one, and none with an account.
GateOpen(p) ==
    /\ \A m \in RowsOf(p) : roster[m].user = NoLogin
    /\ RowsOf(p) = {} \/ \E m \in RowsOf(p) : roster[m].status = "active"

InviteStarts(v, p) ==
    GateOpen(p) /\ Arrives(v, "looking", p, 0) /\ UNCHANGED community

InviteLooks(v) ==
    LET pending == {i \in DOMAIN invitations :
                      /\ invitations[i].email = visit[v].who
                      /\ invitations[i].status = "pending" /\ invitations[i].fresh}
    IN  /\ visit[v].at = "looking"
        /\ IF pending = {} THEN MovesTo(v, "inviting") ELSE Leaves(v)
        /\ UNCHANGED community

InviteCreates(v) ==
    /\ visit[v].at = "inviting" /\ Len(invitations) < MaxInvitations
    /\ invitations' = Append(invitations,
           [email |-> visit[v].who, status |-> "pending", fresh |-> TRUE])
    /\ Leaves(v) /\ UNCHANGED <<roster, joins, logins, byHand>>

\* resend-invitation and cancel-invitation: a check, and a write of what was checked.
ResendStarts(v, i) ==
    /\ invitations[i].status \in {"pending", "expired"}
    /\ Arrives(v, "resending", NoLogin, i) /\ UNCHANGED community
CancelStarts(v, i) ==
    /\ invitations[i].status = "pending"
    /\ Arrives(v, "canceling", NoLogin, i) /\ UNCHANGED community

\* A write by id, whatever the invitation has become meanwhile.
WritesInvitation(v, at, status, fresh) ==
    LET i == visit[v].of
    IN  /\ visit[v].at = at
        /\ invitations' = [invitations EXCEPT ![i].status = status, ![i].fresh = fresh]
        /\ Leaves(v) /\ UNCHANGED <<roster, joins, logins, byHand>>
Resends(v) == WritesInvitation(v, "resending", "pending", TRUE)
Cancels(v) == WritesInvitation(v, "canceling", "canceled", invitations[visit[v].of].fresh)
Expires(v) == WritesInvitation(v, "expiring", "expired", FALSE)

-----------------------------------------------------------------------------
(* Acceptance *)

AcceptStarts(v, i) ==
    /\ invitations[i].status = "pending"
    /\ Arrives(v, IF invitations[i].fresh THEN "signingUp" ELSE "expiring",
               invitations[i].email, i)
    /\ UNCHANGED community

MakesLoginOrTakes(v) ==  \* (mutant: an address in use is taken for the invitee's)
    /\ visit[v].at = "signingUp"
    /\ MovesTo(v, "finding")
    /\ logins' = logins \cup {visit[v].who}
    /\ UNCHANGED <<roster, invitations, joins, byHand>>

\* The look for an existing user and createUser, which refuses an address in use.
MakesLogin(v) ==
    /\ visit[v].at = "signingUp"
    /\ IF visit[v].who \in logins THEN Leaves(v) ELSE MovesTo(v, "finding")
    /\ logins' = logins \cup {visit[v].who}
    /\ UNCHANGED <<roster, invitations, joins, byHand>>

\* The oldest of invitableMembers: active, and without an account.
FindsMember(v) ==
    LET invitable == {m \in RowsOf(visit[v].who) :
                        roster[m].status = "active" /\ roster[m].user = NoLogin}
    IN  /\ visit[v].at = "finding"
        /\ \E m \in invitable \cup {0} :
             /\ IF m = 0 THEN invitable = {} ELSE \A n \in invitable : m <= n
             /\ visit' = [visit EXCEPT ![v].at = "seating", ![v].row = m]
        /\ UNCHANGED <<community, arrivals>>

\* The member found is given the account, or a new one is created.
Seats(v) ==
    LET p == visit[v].who
        m == visit[v].row
    IN  /\ visit[v].at = "seating"
        /\ IF m # 0 THEN roster' = [roster EXCEPT ![m].user = p]
           ELSE /\ Len(roster) < MaxRoster
                /\ roster' = Append(roster, Member(p, "active", p))
        /\ MovesTo(v, "marking")
        /\ UNCHANGED <<invitations, joins, logins, byHand>>

Accepts(v) == WritesInvitation(v, "marking", "accepted", invitations[visit[v].of].fresh)

-----------------------------------------------------------------------------
(* Join requests and connections *)

JoinStarts(v, p) ==
    /\ p \in logins
    /\ \A m \in DOMAIN roster : roster[m].user = p => roster[m].status # "active"
    /\ Arrives(v, "asking", p, 0) /\ UNCHANGED community

JoinLooks(v) ==
    /\ visit[v].at = "asking"
    /\ IF \E j \in DOMAIN joins : joins[j] = [by |-> visit[v].who, status |-> "pending"]
       THEN Leaves(v) ELSE MovesTo(v, "joining")
    /\ UNCHANGED community

JoinCreates(v) ==
    /\ visit[v].at = "joining" /\ Len(joins) < MaxJoins
    /\ joins' = Append(joins, [by |-> visit[v].who, status |-> "pending"])
    /\ Leaves(v) /\ UNCHANGED <<roster, invitations, logins, byHand>>

DecideStarts(v, j) ==
    /\ joins[j].status = "pending"
    /\ \E at \in {"approving", "rejecting"} : Arrives(v, at, joins[j].by, j)
    /\ UNCHANGED community

\* A new member, whoever is on the roster already.
ApproveSeats(v) ==
    /\ visit[v].at = "approving" /\ Len(roster) < MaxRoster
    /\ roster' = Append(roster, Member(visit[v].who, "active", visit[v].who))
    /\ byHand' = byHand \cup {visit[v].who}
    /\ MovesTo(v, "approved") /\ UNCHANGED <<invitations, joins, logins>>

Decides(v) ==
    /\ visit[v].at \in {"approved", "rejecting"}
    /\ joins' = [joins EXCEPT ![visit[v].of].status =
                    IF visit[v].at = "approved" THEN "approved" ELSE "rejected"]
    /\ Leaves(v) /\ UNCHANGED <<roster, invitations, logins, byHand>>

\* The administrator picks any member without an account, and any account.
ConnectStarts(v, m, p) ==
    /\ roster[m].user = NoLogin /\ p \in logins
    /\ Arrives(v, "connecting", p, m) /\ UNCHANGED community

Connects(v) ==
    LET m == visit[v].of
    IN  /\ visit[v].at = "connecting"
        /\ roster' = [roster EXCEPT ![m].user = visit[v].who]
        /\ byHand' = byHand \cup {visit[v].who, roster[m].email}
        /\ Leaves(v) /\ UNCHANGED <<invitations, joins, logins>>

-----------------------------------------------------------------------------
(* The surroundings *)

\* A request fails, or the function is killed: what was done stays done.
GivesUp(v) == visit[v] # Away /\ Leaves(v) /\ UNCHANGED community

\* The members page and imports: new members, archived and restored ones.
Enrolls(p) ==
    /\ Len(roster) < MaxRoster
    /\ roster' = Append(roster, Member(p, "active", NoLogin))
    /\ UNCHANGED <<invitations, joins, logins, visit, arrivals, byHand>>
SetsStatus(m) ==
    /\ \E status \in {"active", "archived"} \ {roster[m].status} :
         roster' = [roster EXCEPT ![m].status = status]
    /\ UNCHANGED <<invitations, joins, logins, visit, arrivals, byHand>>

RunsOut(i) ==
    /\ invitations[i].fresh
    /\ invitations' = [invitations EXCEPT ![i].fresh = FALSE]
    /\ UNCHANGED <<roster, joins, logins, visit, arrivals, byHand>>

OnboardingInit ==
    /\ roster = <<>> /\ invitations = <<>> /\ joins = <<>>
    /\ logins \in SUBSET Addresses
    /\ visit = [v \in Visits |-> Away]
    /\ arrivals = 0 /\ byHand = {}

Inviting(v) ==
    \/ \E p \in Addresses : InviteStarts(v, p)
    \/ InviteLooks(v) \/ InviteCreates(v)
    \/ \E i \in DOMAIN invitations : ResendStarts(v, i) \/ CancelStarts(v, i)
    \/ Resends(v) \/ Cancels(v)
Accepting(v) ==
    \/ \E i \in DOMAIN invitations : AcceptStarts(v, i)
    \/ Expires(v) \/ MakesLogin(v) \/ FindsMember(v) \/ Seats(v) \/ Accepts(v)
Joining(v) ==
    \/ \E p \in Addresses : JoinStarts(v, p)
    \/ JoinLooks(v) \/ JoinCreates(v)
    \/ \E j \in DOMAIN joins : DecideStarts(v, j)
    \/ ApproveSeats(v) \/ Decides(v)
Connecting(v) ==
    \/ \E m \in DOMAIN roster, p \in Addresses : ConnectStarts(v, m, p)
    \/ Connects(v)

OnboardingNext ==
    \/ \E v \in Visits :
         Inviting(v) \/ Accepting(v) \/ Joining(v) \/ Connecting(v) \/ GivesUp(v)
    \/ \E p \in Addresses : Enrolls(p)
    \/ \E m \in DOMAIN roster : SetsStatus(m)
    \/ \E i \in DOMAIN invitations : RunsOut(i)

OnboardingSpec == OnboardingInit /\ [][OnboardingNext]_onboardingVars

-----------------------------------------------------------------------------
(* Properties *)

VisitTypes ==
    [at : {"away", "looking", "inviting", "resending", "canceling", "expiring", "signingUp",
           "finding", "seating", "marking", "asking", "joining", "approving", "approved",
           "rejecting", "connecting"},
     who : Addresses \cup {NoLogin}, of : Nat, row : Nat]

OnboardingTypeOK ==
    /\ roster \in Seq([email : Addresses, status : {"active", "archived"},
                       user : Addresses \cup {NoLogin}])
    /\ invitations \in Seq([email : Addresses, fresh : BOOLEAN,
                            status : {"pending", "accepted", "canceled", "expired"}])
    /\ joins \in Seq([by : Addresses, status : {"pending", "approved", "rejected"}])
    /\ logins \subseteq Addresses /\ byHand \subseteq Addresses
    /\ visit \in [Visits -> VisitTypes] /\ arrivals \in 0..MaxArrivals

\* "ADOPTING an existing row if there is one, rather than creating a second member for
\* the same person": however many invitations an address has, and however they are
\* accepted, resent, canceled and interrupted, its account holds at most one member, and
\* one if an invitation reads accepted (accept-invitation.post.ts); unless an
\* administrator connected an account or approved a request besides, which look at
\* neither the address nor the account.
InvitedHaveOneSeat ==
    \A p \in Addresses \ byHand :
        /\ \A m, n \in DOMAIN roster : roster[m].user = p /\ roster[n].user = p => m = n
        /\ \A i \in DOMAIN invitations :
             invitations[i].email = p /\ invitations[i].status = "accepted"
             => \E m \in DOMAIN roster : roster[m].user = p
=============================================================================
