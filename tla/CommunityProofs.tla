-------------------------- MODULE CommunityProofs --------------------------
(***************************************************************************)
(* People.  Whatever the members, the plans, the failures and the retries, *)
(* a change of manager leaves somebody in charge after every single write. *)
(* And whatever the addresses, the requests made and where they stop,      *)
(* whoever came by an invitation has one member, and has one once it is    *)
(* accepted.  What a resident asks to change is changed once, when it is   *)
(* approved, and it is their own.                                          *)
(***************************************************************************)
EXTENDS AssistantProofs, MCOffice

-----------------------------------------------------------------------------
(* A change of manager *)

\* Who keeps the account through a transition: active, not to leave, and an
\* administrator, or the successor before the promotion.
Keeps(h, m) ==
    /\ m \in active /\ m \notin handover[h].leave
    /\ role[m] = "hoa_admin" \/ (m = handover[h].successor /\ "promote_admin" \in handover[h].todo)

\* Of the members and the invocations, what the argument needs to know.
Plans == [todo : SUBSET StepKinds, successor : Members \cup {Nobody},
          revoke : SUBSET Members, leave : SUBSET Members]
PeopleInv ==
    /\ role \in [Members -> Kinds] /\ active \subseteq Members
    /\ handover \in [Handovers -> Plans]
    /\ overlapped \in BOOLEAN /\ unreachable \in BOOLEAN

OneAtATime ==
    ~overlapped => \A g, h \in Handovers : Underway(g) /\ Underway(h) => g = h

KeeperInv ==
    ~overlapped /\ ~unreachable =>
        /\ Accounts \cap Administrators # {}
        /\ \A h \in Handovers : Underway(h) => \E m \in Accounts : Keeps(h, m)

HandoverInv == PeopleInv /\ OneAtATime /\ KeeperInv

LEMMA HandoverInit == TransitionInit => HandoverInv
<1> SUFFICES ASSUME TransitionInit PROVE HandoverInv
  OBVIOUS
<1> USE TransitionConstants
<1>1. PeopleInv
  BY DEF TransitionInit, PeopleInv, Plans, NoPlan
<1>2. \A h \in Handovers : ~Underway(h)
  BY DEF TransitionInit, Underway, NoPlan
<1>3. Accounts \cap Administrators # {}
  BY DEF TransitionInit, Administrators
<1>4. QED
  BY <1>1, <1>2, <1>3 DEF HandoverInv, OneAtATime, KeeperInv

\* Steps of a transition that touch no role and no membership, and only take steps
\* off a plan other than the promotion.
LEMMA QuietStep ==
    ASSUME HandoverInv, NEW h \in Handovers, Underway(h),
           UNCHANGED <<role, active, overlapped, unreachable>>,
           NEW plan \in Plans, handover' = [handover EXCEPT ![h] = plan],
           plan.successor = handover[h].successor, plan.leave = handover[h].leave,
           plan.todo \subseteq handover[h].todo,
           "promote_admin" \in handover[h].todo => "promote_admin" \in plan.todo
    PROVE  HandoverInv'
<1>1. PeopleInv'
  BY DEF HandoverInv, PeopleInv
<1>2. \A g \in Handovers : Underway(g)' => Underway(g)
  BY DEF HandoverInv, PeopleInv, Underway
<1>3. OneAtATime'
  BY <1>2 DEF HandoverInv, OneAtATime
<1>4. KeeperInv'
  <2> SUFFICES ASSUME ~overlapped, ~unreachable
               PROVE  /\ Accounts \cap Administrators' # {}
                      /\ \A g \in Handovers : Underway(g)' => \E m \in Accounts : Keeps(g, m)'
    BY DEF KeeperInv
  <2>1. Accounts \cap Administrators' # {}
    BY DEF HandoverInv, KeeperInv, Administrators
  <2>2. ASSUME NEW g \in Handovers, Underway(g)'
        PROVE  \E m \in Accounts : Keeps(g, m)'
    <3>1. PICK m \in Accounts : Keeps(g, m)
      BY <1>2, <2>2 DEF HandoverInv, KeeperInv
    <3>2. Keeps(g, m)'
      BY <3>1 DEF Keeps, HandoverInv, PeopleInv
    <3>3. QED
      BY <3>2
  <2>3. QED
    BY <2>1, <2>2
<1>5. QED
  BY <1>1, <1>3, <1>4 DEF HandoverInv

\* A plan is made only with somebody to keep the account.
LEMMA BeginKeeps ==
    ASSUME HandoverInv, NEW h \in Handovers, NEW successor \in Members \cup {Nobody},
           NEW out \in SUBSET Members, NEW wantsExport \in BOOLEAN,
           NEW afterwards \in SUBSET {"resync_seats"},
           BeginHandover(h, successor, out, wantsExport, afterwards)
    PROVE  HandoverInv'
<1> DEFINE steps == PlannedSteps(successor, out, wantsExport)
           plan == [todo |-> steps \cup afterwards, successor |-> successor,
                    revoke |-> out \cap grants, leave |-> out]
<1>1. /\ ~Underway(h)
      /\ CanExecute(successor, out, steps)
      /\ handover' = [handover EXCEPT ![h] = plan]
      /\ overlapped' = (overlapped \/ \E g \in Handovers : Underway(g))
      /\ unreachable' = (unreachable
                         \/ Accounts \cap (Remaining(out) \cup {successor}) = {})
      /\ UNCHANGED <<role, active>>
  BY DEF BeginHandover, people
<1>2. /\ steps \in SUBSET StepKinds
      /\ successor # Nobody => "promote_admin" \in steps
  <2>1. {"promote_admin", "write_audit"} \subseteq StepKinds
    BY DEF StepKinds, Rank
  <2>2. QED
    BY <2>1 DEF PlannedSteps, IsNeeded
<1> HIDE DEF steps
<1>3. plan \in Plans
  BY <1>2 DEF Plans, StepKinds, Rank
<1>4. /\ handover'[h] = plan
      /\ \A g \in Handovers : g # h => handover'[g] = handover[g]
  BY <1>1 DEF HandoverInv, PeopleInv
<1>5. PeopleInv'
  <2>1. handover' \in [Handovers -> Plans]
    BY <1>1, <1>3 DEF HandoverInv, PeopleInv
  <2>2. overlapped' \in BOOLEAN /\ unreachable' \in BOOLEAN
    BY <1>1, Zenon DEF HandoverInv, PeopleInv
  <2>3. QED
    BY <1>1, <2>1, <2>2 DEF HandoverInv, PeopleInv
<1>6. ~overlapped' => ~overlapped /\ \A g \in Handovers : g # h => ~Underway(g)'
  <2>1. ~overlapped' => ~overlapped /\ \A g \in Handovers : ~Underway(g)
    BY <1>1
  <2>2. QED
    BY <1>4, <2>1 DEF Underway
<1>7. OneAtATime'
  BY <1>6 DEF OneAtATime
<1>8. KeeperInv'
  <2> SUFFICES ASSUME ~overlapped', ~unreachable'
               PROVE  /\ Accounts \cap Administrators' # {}
                      /\ \A g \in Handovers : Underway(g)' => \E m \in Accounts : Keeps(g, m)'
    BY DEF KeeperInv
  <2>1. ~overlapped /\ ~unreachable
    BY <1>1
  <2>2. Accounts \cap Administrators' # {}
    BY <1>1, <2>1 DEF HandoverInv, KeeperInv, Administrators
  <2>3. PICK m \in Accounts : m \in Remaining(out) \cup {successor}
    BY <1>1
  <2>4. /\ m \in active /\ m \notin out
        /\ role[m] = "hoa_admin" \/ (m = successor /\ "promote_admin" \in steps)
    <3>1. CASE m \in Remaining(out)
      BY <3>1 DEF Remaining, Administrators
    <3>2. CASE m = successor
      <4>1. successor # Nobody
        BY <3>2, TransitionConstants
      <4>2. successor \in EligibleSuccessors(out)
        BY <1>1, <4>1 DEF CanExecute
      <4>3. QED
        BY <1>2, <3>2, <4>1, <4>2 DEF EligibleSuccessors
    <3>3. QED
      BY <2>3, <3>1, <3>2
  <2>5. Keeps(h, m)'
    BY <1>1, <1>4, <2>4 DEF Keeps
  <2>6. QED
    BY <1>6, <2>2, <2>5
<1>9. QED
  BY <1>5, <1>7, <1>8 DEF HandoverInv

\* The steps by which people change: the promotion and the departures.
LEMMA PromoteKeeps ==
    ASSUME HandoverInv, NEW h \in Handovers, PromoteAdmin(h)
    PROVE  HandoverInv'
<1> DEFINE plan == [handover[h] EXCEPT !.todo = handover[h].todo \ {"promote_admin"}]
<1>1. /\ "promote_admin" \in handover[h].todo
      /\ role' = [role EXCEPT ![handover[h].successor] = "hoa_admin"]
      /\ handover' = [handover EXCEPT ![h] = plan]
      /\ UNCHANGED <<active, overlapped, unreachable>>
  BY DEF PromoteAdmin, Turn, Finished, Untold, HandoverInv, PeopleInv, Plans
<1>2. /\ plan \in Plans /\ plan.leave = handover[h].leave
      /\ handover'[h] = plan
      /\ \A g \in Handovers : g # h => handover'[g] = handover[g]
  BY <1>1 DEF HandoverInv, PeopleInv, Plans
<1> HIDE DEF plan
<1>3. PeopleInv'
  BY <1>1, <1>2 DEF HandoverInv, PeopleInv, Kinds
<1>4. \A g \in Handovers : Underway(g)' => Underway(g)
  BY <1>1, <1>2 DEF Underway
<1>5. OneAtATime'
  BY <1>1, <1>4 DEF HandoverInv, OneAtATime
<1>6. \A m \in Members :
          /\ role[m] = "hoa_admin" => role'[m] = "hoa_admin"
          /\ m = handover[h].successor => role'[m] = "hoa_admin"
  BY <1>1 DEF HandoverInv, PeopleInv
<1>7. KeeperInv'
  <2> SUFFICES ASSUME ~overlapped, ~unreachable
               PROVE  /\ Accounts \cap Administrators' # {}
                      /\ \A g \in Handovers : Underway(g)' => \E m \in Accounts : Keeps(g, m)'
    BY <1>1 DEF KeeperInv
  <2>1. Accounts \cap Administrators' # {}
    BY <1>1, <1>6, TransitionConstants DEF HandoverInv, KeeperInv, Administrators
  <2>2. ASSUME NEW g \in Handovers, Underway(g)'
        PROVE  \E m \in Accounts : Keeps(g, m)'
    <3>1. PICK m \in Accounts : Keeps(g, m)
      BY <1>4, <2>2 DEF HandoverInv, KeeperInv
    <3>2. m \in Members
      BY <3>1, TransitionConstants
    <3>3. CASE g = h
      BY <1>1, <1>2, <1>6, <3>1, <3>2, <3>3 DEF Keeps
    <3>4. CASE g # h
      BY <1>1, <1>2, <1>6, <3>1, <3>2, <3>4 DEF Keeps
    <3>5. QED
      BY <3>3, <3>4
  <2>3. QED
    BY <2>1, <2>2
<1>8. QED
  BY <1>3, <1>5, <1>7 DEF HandoverInv

LEMMA DepartureKeeps ==
    ASSUME HandoverInv, NEW h \in Handovers, DeactivateMember(h)
    PROVE  HandoverInv'
<1>1. PICK gone \in handover[h].leave :
        /\ active' = active \ {gone}
        /\ handover' = [handover EXCEPT ![h].leave = @ \ {gone},
               ![h].todo = IF handover[h].leave = {gone} THEN @ \ {"deactivate_member"} ELSE @]
  BY DEF DeactivateMember
<1>2. /\ Turn(h, "deactivate_member")
      /\ UNCHANGED <<role, overlapped, unreachable>>
  BY DEF DeactivateMember, Untold
<1>3. "promote_admin" \notin handover[h].todo /\ Underway(h)
  BY <1>2 DEF Turn, Rank, Underway
<1>4. /\ handover'[h] \in Plans /\ handover'[h].leave \subseteq handover[h].leave
      /\ handover' \in [Handovers -> Plans]
      /\ \A g \in Handovers : g # h => handover'[g] = handover[g]
  <2> DEFINE plan == [handover[h] EXCEPT !.leave = handover[h].leave \ {gone},
                         !.todo = IF handover[h].leave = {gone}
                                  THEN handover[h].todo \ {"deactivate_member"}
                                  ELSE handover[h].todo]
  <2>1. handover' = [handover EXCEPT ![h] = plan]
    BY <1>1 DEF HandoverInv, PeopleInv, Plans
  <2>2. plan \in Plans /\ plan.leave \subseteq handover[h].leave
    BY DEF HandoverInv, PeopleInv, Plans
  <2> HIDE DEF plan
  <2>3. QED
    BY <2>1, <2>2 DEF HandoverInv, PeopleInv
<1>5. PeopleInv'
  BY <1>1, <1>2, <1>4 DEF HandoverInv, PeopleInv
<1>6. \A g \in Handovers : Underway(g)' => Underway(g)
  BY <1>3, <1>4 DEF Underway
<1>7. OneAtATime'
  BY <1>2, <1>6 DEF HandoverInv, OneAtATime
<1>8. KeeperInv'
  <2> SUFFICES ASSUME ~overlapped, ~unreachable
               PROVE  /\ Accounts \cap Administrators' # {}
                      /\ \A g \in Handovers : Underway(g)' => \E m \in Accounts : Keeps(g, m)'
    BY <1>2 DEF KeeperInv
  <2>1. PICK m \in Accounts : Keeps(h, m)
    BY <1>3 DEF HandoverInv, KeeperInv
  <2>2. m \in active' /\ m \notin handover'[h].leave /\ role'[m] = "hoa_admin"
    BY <1>1, <1>2, <1>3, <1>4, <2>1 DEF Keeps
  <2>3. \A g \in Handovers : Underway(g)' => g = h
    BY <1>3, <1>6 DEF HandoverInv, OneAtATime
  <2>4. QED
    BY <2>2, <2>3 DEF Keeps, Administrators
<1>9. QED
  BY <1>5, <1>7, <1>8 DEF HandoverInv

\* A transition that stops forgets its plan; all it wrote stays.
LEMMA StopKeeps ==
    ASSUME HandoverInv, NEW h \in Handovers, Stops(h)
    PROVE  HandoverInv'
<1>1. /\ Underway(h)
      /\ handover' = [handover EXCEPT ![h] = NoPlan]
      /\ UNCHANGED <<role, active, overlapped, unreachable>>
  BY DEF Stops, Untold, people
<1>2. NoPlan \in Plans /\ NoPlan.todo = {}
  BY DEF NoPlan, Plans
<1>3. /\ handover'[h] = NoPlan
      /\ \A g \in Handovers : g # h => handover'[g] = handover[g]
  BY <1>1 DEF HandoverInv, PeopleInv
<1>4. PeopleInv'
  BY <1>1, <1>2 DEF HandoverInv, PeopleInv
<1>5. \A g \in Handovers : Underway(g)' => Underway(g) /\ handover'[g] = handover[g]
  BY <1>2, <1>3 DEF Underway
<1>6. OneAtATime'
  BY <1>1, <1>5 DEF HandoverInv, OneAtATime
<1>7. KeeperInv'
  BY <1>1, <1>5 DEF HandoverInv, KeeperInv, Keeps, Administrators
<1>8. QED
  BY <1>4, <1>6, <1>7 DEF HandoverInv

\* The writes about vendors, grants, billing, exports and the audit log.
BookStep(h) ==
    \/ RevokeGrants(h) \/ EndVendor(h) \/ DetachBilling(h) \/ SyncSeats(h)
    \/ OpenGrace(h) \/ OfferExport(h) \/ CreateExport(h) \/ WriteAudit(h)

LEMMA BookKeeps ==
    ASSUME HandoverInv, NEW h \in Handovers, BookStep(h)
    PROVE  HandoverInv'
<1>1. ASSUME NEW ks, "promote_admin" \notin ks, Finished(h, ks), Underway(h),
             UNCHANGED <<role, active, overlapped, unreachable>>
      PROVE  HandoverInv'
  <2> DEFINE plan == [handover[h] EXCEPT !.todo = handover[h].todo \ ks]
  <2>1. handover' = [handover EXCEPT ![h] = plan]
    BY <1>1 DEF Finished, HandoverInv, PeopleInv, Plans
  <2>2. /\ plan \in Plans /\ plan.successor = handover[h].successor
        /\ plan.leave = handover[h].leave /\ plan.todo = handover[h].todo \ ks
    BY DEF HandoverInv, PeopleInv, Plans
  <2> HIDE DEF plan
  <2>3. QED
    BY <1>1, <2>1, <2>2, QuietStep
<1>2. CASE RevokeGrants(h)
  <2>1. PICK m \in handover[h].revoke :
          handover' = [handover EXCEPT ![h].revoke = @ \ {m},
              ![h].todo = IF handover[h].revoke = {m} THEN @ \ {"revoke_grants"} ELSE @]
    BY <1>2 DEF RevokeGrants
  <2>2. Underway(h) /\ UNCHANGED <<role, active, overlapped, unreachable>>
    BY <1>2 DEF RevokeGrants, Turn, Underway, Untold
  <2> DEFINE plan == [handover[h] EXCEPT !.revoke = handover[h].revoke \ {m},
                         !.todo = IF handover[h].revoke = {m}
                                  THEN handover[h].todo \ {"revoke_grants"}
                                  ELSE handover[h].todo]
  <2>3. handover' = [handover EXCEPT ![h] = plan]
    BY <2>1 DEF HandoverInv, PeopleInv, Plans
  <2>4. /\ plan \in Plans /\ plan.successor = handover[h].successor
        /\ plan.leave = handover[h].leave /\ plan.todo \subseteq handover[h].todo
        /\ "promote_admin" \in handover[h].todo => "promote_admin" \in plan.todo
    BY DEF HandoverInv, PeopleInv, Plans
  <2> HIDE DEF plan
  <2>5. QED
    BY <2>2, <2>3, <2>4, QuietStep
<1>3. CASE EndVendor(h)
  BY <1>1, <1>3 DEF EndVendor, Turn, Underway, Untold, people
<1>4. CASE DetachBilling(h)
  BY <1>1, <1>4 DEF DetachBilling, Turn, Underway, Untold, people
<1>5. CASE SyncSeats(h)
  <2>1. PICK k \in {"sync_seats", "resync_seats"} : Turn(h, k) /\ Finished(h, {k})
    BY <1>5 DEF SyncSeats
  <2>2. QED
    BY <1>1, <1>5, <2>1 DEF SyncSeats, Turn, Underway, Untold, people
<1>6. CASE OpenGrace(h)
  BY <1>1, <1>6 DEF OpenGrace, Turn, Underway, Untold, people
<1>7. CASE OfferExport(h)
  BY <1>1, <1>7 DEF OfferExport, Turn, Underway, Untold, people
<1>8. CASE CreateExport(h)
  BY <1>1, <1>8 DEF CreateExport, Turn, Underway, Untold, people
<1>9. CASE WriteAudit(h)
  BY <1>1, <1>9 DEF WriteAudit, Turn, Underway, Untold, people
<1>10. QED
  BY <1>2, <1>3, <1>4, <1>5, <1>6, <1>7, <1>8, <1>9 DEF BookStep

\* Steps that leave the people and every plan as they are.
LEMMA ElsewhereKeeps ==
    ASSUME HandoverInv, UNCHANGED <<role, active, handover, overlapped, unreachable>>
    PROVE  HandoverInv'
BY DEF HandoverInv, PeopleInv, OneAtATime, KeeperInv, Underway, Keeps, Administrators

\* After every write of every transition, wherever it stops and however often it is
\* tried again, somebody who can sign in is an administrator of the community, as
\* long as transitions do not overlap and no plan counts on a member without an
\* account (planTransition's blockers and order, executeTransitionPlan).
THEOREM SomebodyAlwaysRunsIt == TransitionSpec => []SomeoneRunsIt
<1> DEFINE Step == TransitionNext \/ (ExportNext /\ UNCHANGED transitionVars)
           both == <<exportVars, transitionVars>>
<1>1. ExportInit /\ TransitionInit => HandoverInv
  BY HandoverInit
<1>2. HandoverInv /\ [Step]_both => HandoverInv'
  <2> SUFFICES ASSUME HandoverInv, [Step]_both PROVE HandoverInv'
    OBVIOUS
  <2>1. CASE UNCHANGED both
    BY <2>1, ElsewhereKeeps DEF transitionVars
  <2>2. CASE ExportNext /\ UNCHANGED transitionVars
    BY <2>2, ElsewhereKeeps DEF transitionVars
  <2>3. CASE AttachOrg
    BY <2>3, ElsewhereKeeps DEF AttachOrg, people
  <2>4. ASSUME NEW h \in Handovers, Transitions(h) PROVE HandoverInv'
    BY <2>4, BeginKeeps DEF Transitions
  <2>5. ASSUME NEW h \in Handovers, DetachOrg(h) PROVE HandoverInv'
    BY <2>5, BeginKeeps DEF DetachOrg
  <2>6. QED
    BY <2>1, <2>2, <2>3, <2>4, <2>5, StopKeeps, PromoteKeeps, DepartureKeeps, BookKeeps
    DEF TransitionNext, BookStep
<1>3. HandoverInv => SomeoneRunsIt
  BY DEF HandoverInv, KeeperInv, SomeoneRunsIt
<1>4. QED
  BY <1>1, <1>2, <1>3, PTL DEF TransitionSpec

-----------------------------------------------------------------------------
(* The exports and their worker *)

JobStatuses == {"queued", "running", "ready", "failed", "expired"}
Builders(places) ==
    [at : Stages, rows : SUBSET places, job : places \cup {0}, built : 0..MaxJobs]

\* A run builds only a job that it claimed, and not more than it may.
BuildsClaimed ==
    builder.at \in {"open", "build", "ready", "giveUp"} =>
        builder.job \in DOMAIN jobs /\ builder.built < MaxJobs
ExportInv == ExportTypeOK /\ BuildsClaimed

LEMMA ExportParts ==
  ASSUME ExportTypeOK
  PROVE  /\ jobs \in Seq(Job) /\ Len(jobs) \in Nat /\ DOMAIN jobs = 1..Len(jobs)
         /\ \A x \in DOMAIN jobs : jobs[x] \in Job
         /\ builder \in Builders(DOMAIN jobs)
  BY DEF ExportTypeOK, Builders

LEMMA WithStatusTyped ==
  ASSUME ExportTypeOK, NEW x, NEW s \in JobStatuses
  PROVE  WithStatus(x, s) \in Seq(Job) /\ Len(WithStatus(x, s)) = Len(jobs)
         /\ DOMAIN WithStatus(x, s) = DOMAIN jobs
<1> DEFINE wanted == [[jobs[x] EXCEPT !.status = s] EXCEPT !.old = FALSE]
<1>1. x \in DOMAIN jobs => wanted \in Job
  <2> SUFFICES ASSUME x \in DOMAIN jobs PROVE wanted \in Job
    OBVIOUS
  <2>1. jobs[x] \in Job
    BY ExportParts
  <2>2. [jobs[x] EXCEPT !.status = s] \in Job
    BY <2>1 DEF Job, JobStatuses
  <2> QED
    BY <2>2 DEF Job
<1>2. WithStatus(x, s) = [jobs EXCEPT ![x] = wanted]
  BY ExportParts DEF WithStatus, Job
<1> HIDE DEF wanted
<1>3. WithStatus(x, s) \in [1..Len(jobs) -> Job]
  <2>1. jobs \in [1..Len(jobs) -> Job]
    BY ExportParts
  <2> QED
    BY <1>1, <1>2, <2>1
<1>4. Len(jobs) \in Nat
  BY ExportParts
<1> HIDE DEF WithStatus
<1>5. WithStatus(x, s) \in Seq(Job) /\ DOMAIN WithStatus(x, s) = 1..Len(jobs)
  BY <1>3, <1>4
<1>6. Len(WithStatus(x, s)) = Len(jobs)
  BY <1>4, <1>5
<1> QED
  BY <1>5, <1>6, ExportParts

LEMMA QueuedTyped ==
  ASSUME ExportTypeOK, NEW c \in Communities, Room
  PROVE  /\ Append(jobs, Queued(c)) \in Seq(Job)
         /\ Len(Append(jobs, Queued(c))) <= MaxExports
         /\ DOMAIN jobs \subseteq DOMAIN Append(jobs, Queued(c))
<1>1. Queued(c) \in Job
  BY DEF Queued, Job
<1>2. Len(jobs) + 1 <= MaxExports
  BY ExportParts, ExportBounds DEF Room
<1> HIDE DEF Queued
<1> QED
  BY <1>1, <1>2, ExportParts

LEMMA BuilderParts ==
  ASSUME NEW places, NEW b \in Builders(places)
  PROVE  /\ \A stage \in Stages : [b EXCEPT !.at = stage] \in Builders(places)
         /\ \A rows \in SUBSET places : [b EXCEPT !.rows = rows] \in Builders(places)
         /\ \A x \in places : [b EXCEPT !.job = x] \in Builders(places)
         /\ \A n \in 0..MaxJobs : [b EXCEPT !.built = n] \in Builders(places)
         /\ b.at \in Stages /\ b.rows \subseteq places /\ b.job \in places \cup {0}
         /\ b.built \in 0..MaxJobs
  BY DEF Builders

\* A step of the worker, by what it does to the rows and to the run.
LEMMA ExportStepTyped ==
  ASSUME ExportTypeOK,
         jobs' \in Seq(Job), Len(jobs') <= MaxExports, DOMAIN jobs \subseteq DOMAIN jobs',
         archives' \subseteq DOMAIN jobs', asked' \in [Communities -> 0..MaxAsks],
         exportFaults' \in 0..MaxExportFaults,
         NEW b \in Builders(DOMAIN jobs'), builder' = b,
         b.at \in {"open", "build", "ready", "giveUp"} => b.job \in DOMAIN jobs' /\ b.built < MaxJobs
  PROVE  ExportInv'
  BY DEF ExportInv, ExportTypeOK, BuildsClaimed, Builders

LEMMA ExportSame ==
  ASSUME ExportInv, UNCHANGED exportVars
  PROVE  ExportInv'
  BY DEF ExportInv, ExportTypeOK, BuildsClaimed, exportVars

LEMMA FaultTyped ==
  ASSUME ExportTypeOK, Fault \/ Fine
  PROVE  exportFaults' \in 0..MaxExportFaults
  BY ExportBounds DEF ExportTypeOK, Fault, Fine

LEMMA WriteTyped ==
  ASSUME ExportTypeOK, NEW x, NEW s \in JobStatuses, Write(x, s)
  PROVE  /\ jobs' \in Seq(Job) /\ Len(jobs') <= MaxExports /\ DOMAIN jobs' = DOMAIN jobs
         /\ exportFaults' \in 0..MaxExportFaults
<1>1. jobs' \in {jobs, WithStatus(x, s)} /\ (Fault \/ Fine)
  BY DEF Write
<1>2. Len(jobs) <= MaxExports
  BY DEF ExportTypeOK
<1> HIDE DEF WithStatus
<1> QED
  BY <1>1, <1>2, WithStatusTyped, FaultTyped, ExportParts

LEMMA RequestTyped ==
  ASSUME ExportInv, NEW c \in Communities, AskExport(c) \/ QueueExport(c)
  PROVE  ExportInv'
<1>0. ExportTypeOK
  BY DEF ExportInv
<1>1. asked' \in [Communities -> 0..MaxAsks]
  <2>1. asked \in [Communities -> 0..MaxAsks] /\ asked[c] \in 0..MaxAsks /\ MaxAsks \in Nat
    BY <1>0, ExportBounds DEF ExportTypeOK
  <2>2. PICK n \in 0..MaxAsks : asked' = [asked EXCEPT ![c] = n]
    BY <2>1 DEF AskExport, QueueExport
  <2> QED
    BY <2>1, <2>2
<1>2. /\ jobs' \in Seq(Job) /\ Len(jobs') <= MaxExports /\ DOMAIN jobs \subseteq DOMAIN jobs'
  <2>1. jobs' = jobs \/ (Room /\ jobs' = Append(jobs, Queued(c)))
    BY DEF AskExport, QueueExport
  <2> QED
    BY <1>0, <2>1, QueuedTyped DEF ExportTypeOK
<1>3. UNCHANGED <<archives, builder, exportFaults>>
  BY DEF AskExport, QueueExport
<1> QED
  BY <1>1, <1>2, <1>3 DEF ExportInv, ExportTypeOK, BuildsClaimed

LEMMA ListTyped ==
  ASSUME ExportTypeOK, NEW stage \in Stages, NEW rows \in SUBSET DOMAIN jobs, Listed(stage, rows)
  PROVE  \E b \in Builders(DOMAIN jobs) : builder' = b /\ b.at = stage
<1>1. builder \in Builders(DOMAIN jobs)
  BY ExportParts
<1> DEFINE b == [[builder EXCEPT !.at = stage] EXCEPT !.rows = rows]
<1>2. builder' = b
  BY DEF Listed
<1>3. b \in Builders(DOMAIN jobs)
  BY <1>1, BuilderParts
<1>4. b.at = stage
  BY <1>1 DEF Builders
<1> QED
  BY <1>2, <1>3, <1>4

LEMMA GoOnTyped ==
  ASSUME ExportTypeOK, NEW stage \in Stages, GoOn(stage)
  PROVE  \E b \in Builders(DOMAIN jobs) :
           builder' = b /\ b.at = stage /\ b.job = builder.job /\ b.built = builder.built
<1>1. builder \in Builders(DOMAIN jobs)
  BY ExportParts
<1> DEFINE b == [builder EXCEPT !.at = stage]
<1>2. builder' = b /\ b \in Builders(DOMAIN jobs)
  BY <1>1, BuilderParts DEF GoOn
<1>3. b.at = stage /\ b.job = builder.job /\ b.built = builder.built
  BY <1>1 DEF Builders
<1> QED
  BY <1>2, <1>3

LEMMA AsleepTyped ==
  ASSUME NEW places
  PROVE  Asleep \in Builders(places) /\ Asleep.at = "asleep"
<1>1. 0 \in 0..MaxJobs
  BY ExportBounds
<1> QED
  BY <1>1 DEF Asleep, Builders, Stages

LEMMA NextJobTyped ==
  ASSUME ExportInv, builder.at \in {"open", "build", "ready", "giveUp"}, NextJob
  PROVE  \E b \in Builders(DOMAIN jobs) : builder' = b /\ b.at = "claim"
<1>1. builder \in Builders(DOMAIN jobs) /\ builder.built < MaxJobs
  BY ExportParts DEF ExportInv, BuildsClaimed
<1> DEFINE b == [[builder EXCEPT !.at = "claim"] EXCEPT !.built = builder.built + 1]
<1>2. builder' = b
  BY <1>1 DEF NextJob, Builders
<1>3. builder.built + 1 \in 0..MaxJobs
  BY <1>1, ExportBounds DEF Builders
<1>4. b \in Builders(DOMAIN jobs)
  BY <1>1, <1>3, BuilderParts DEF Stages
<1>5. b.at = "claim"
  BY <1>1 DEF Builders
<1> QED
  BY <1>2, <1>4, <1>5

\* There is an oldest of the queued rows.
LEMMA OldestQueued ==
  ASSUME ExportTypeOK, Having("queued") # {}
  PROVE  (CHOOSE x \in Having("queued") : \A y \in Having("queued") : x <= y) \in DOMAIN jobs
<1>1. Having("queued") \in SUBSET Nat /\ Having("queued") \subseteq DOMAIN jobs
  BY ExportParts DEF Having
<1>2. \E x \in Having("queued") : \A y \in Having("queued") : x <= y
  BY <1>1, LeastNumber
<1> QED
  BY <1>1, <1>2

LEMMA WorkerTyped ==
  ASSUME ExportInv, WorkerStarts \/ WorkerStep \/ WorkerKilled
  PROVE  ExportInv'
<1>0. /\ ExportTypeOK /\ Len(jobs) <= MaxExports /\ archives \subseteq DOMAIN jobs
      /\ jobs \in Seq(Job) /\ asked \in [Communities -> 0..MaxAsks]
      /\ exportFaults \in 0..MaxExportFaults /\ builder \in Builders(DOMAIN jobs)
  BY ExportParts DEF ExportInv, ExportTypeOK
<1>h. \A s : Having(s) \subseteq DOMAIN jobs
  BY DEF Having
<1>r. \A x : builder.rows \ {x} \subseteq DOMAIN jobs
  BY <1>0 DEF Builders
<1>s. {"asleep", "purge", "expire", "mark", "fail", "claim", "open", "build", "ready", "giveUp"} \subseteq Stages
  BY DEF Stages
<1>1. CASE WorkerStarts
  <2>1. PICK b \in Builders(DOMAIN jobs) : builder' = b /\ b.at = "purge"
    BY <1>0, <1>1, <1>s, GoOnTyped DEF WorkerStarts
  <2> QED
    BY <1>0, <1>1, <2>1, ExportStepTyped DEF WorkerStarts
<1>2. CASE ListExpired
  <2>1. PICK b \in Builders(DOMAIN jobs) : builder' = b /\ b.at = "expire"
    BY <1>0, <1>2, <1>h, <1>s, ListTyped DEF ListExpired
  <2> QED
    BY <1>0, <1>2, <2>1, ExportStepTyped DEF ListExpired
<1>3. ASSUME NEW x \in builder.rows, DeleteArchive(x) PROVE ExportInv'
  <2> DEFINE b == [[builder EXCEPT !.at = "mark"] EXCEPT !.job = x]
  <2>1. builder' = b
    BY <1>3 DEF DeleteArchive
  <2>2. x \in DOMAIN jobs
    BY <1>0 DEF Builders
  <2>3. b \in Builders(DOMAIN jobs)
    BY <1>0, <1>s, <2>2, BuilderParts
  <2>4. b.at = "mark"
    BY <1>0 DEF Builders
  <2>5. archives' \subseteq DOMAIN jobs /\ exportFaults' \in 0..MaxExportFaults /\ UNCHANGED <<jobs, asked>>
    BY <1>0, <1>3, FaultTyped DEF DeleteArchive
  <2> HIDE DEF b
  <2> QED
    BY <1>0, <2>1, <2>3, <2>4, <2>5, ExportStepTyped
<1>4. CASE MarkExpired
  <2>1. PICK b \in Builders(DOMAIN jobs) : builder' = b /\ b.at = "expire"
    BY <1>0, <1>4, <1>r, <1>s, ListTyped DEF MarkExpired, Without
  <2>2. /\ jobs' \in Seq(Job) /\ Len(jobs') <= MaxExports /\ DOMAIN jobs' = DOMAIN jobs
        /\ exportFaults' \in 0..MaxExportFaults
    BY <1>0, <1>4, WriteTyped DEF MarkExpired, JobStatuses
  <2>3. UNCHANGED <<archives, asked>>
    BY <1>4 DEF MarkExpired
  <2> QED
    BY <1>0, <2>1, <2>2, <2>3, ExportStepTyped
<1>5. CASE ListStale
  <2>1. PICK b \in Builders(DOMAIN jobs) : builder' = b /\ b.at = "fail"
    BY <1>0, <1>5, <1>h, <1>s, ListTyped DEF ListStale, StaleJobs
  <2> QED
    BY <1>0, <1>5, <2>1, ExportStepTyped DEF ListStale
<1>6. ASSUME NEW x \in builder.rows, FailStale(x) PROVE ExportInv'
  <2>1. PICK b \in Builders(DOMAIN jobs) : builder' = b /\ b.at = "fail"
    BY <1>0, <1>6, <1>r, <1>s, ListTyped DEF FailStale, Without
  <2>2. /\ jobs' \in Seq(Job) /\ Len(jobs') <= MaxExports /\ DOMAIN jobs' = DOMAIN jobs
        /\ exportFaults' \in 0..MaxExportFaults
    BY <1>0, <1>6, WriteTyped DEF FailStale, JobStatuses
  <2>3. UNCHANGED <<archives, asked>>
    BY <1>6 DEF FailStale
  <2> QED
    BY <1>0, <2>1, <2>2, <2>3, ExportStepTyped
<1>7. CASE ClaimNext
  <2> DEFINE oldest == CHOOSE x \in Having("queued") : \A y \in Having("queued") : x <= y
  <2>1. UNCHANGED <<archives, asked>>
    BY <1>7 DEF ClaimNext
  <2>2. CASE builder.built = MaxJobs \/ Having("queued") = {}
    <3>1. builder' = Asleep /\ UNCHANGED <<jobs, exportFaults>>
      BY <1>7, <2>2 DEF ClaimNext
    <3> QED
      BY <1>0, <2>1, <3>1, AsleepTyped, ExportStepTyped
  <2>3. CASE ~(builder.built = MaxJobs \/ Having("queued") = {})
    <3>1. oldest \in DOMAIN jobs
      BY <1>0, <2>3, OldestQueued
    <3>2. \/ /\ jobs' = WithStatus(oldest, "running") /\ Fine
             /\ builder' = [builder EXCEPT !.at = "open", !.job = oldest]
          \/ /\ Fault /\ builder' = Asleep
             /\ jobs' \in {jobs, WithStatus(oldest, "running")}
      BY <1>7, <2>3 DEF ClaimNext
    <3> HIDE DEF oldest
    <3>3. /\ jobs' \in Seq(Job) /\ Len(jobs') <= MaxExports /\ DOMAIN jobs' = DOMAIN jobs
          /\ exportFaults' \in 0..MaxExportFaults
      <4>1. jobs' \in {jobs, WithStatus(oldest, "running")} /\ (Fault \/ Fine)
        BY <3>2
      <4> HIDE DEF WithStatus
      <4> QED
        BY <1>0, <4>1, WithStatusTyped, FaultTyped DEF JobStatuses
    <3> DEFINE b == [[builder EXCEPT !.at = "open"] EXCEPT !.job = oldest]
    <3>4. b \in Builders(DOMAIN jobs)
      BY <1>0, <1>s, <3>1, BuilderParts
    <3>5. b.job = oldest /\ b.built = builder.built
      BY <1>0 DEF Builders
    <3>6. builder.built < MaxJobs
      BY <1>0, <2>3, ExportBounds DEF Builders
    <3>7. builder' \in {b, Asleep}
      BY <3>2
    <3> HIDE DEF b
    <3> QED
      BY <1>0, <2>1, <3>1, <3>3, <3>4, <3>5, <3>6, <3>7, AsleepTyped, ExportStepTyped
  <2> QED
    BY <2>2, <2>3
<1>8. CASE ReadCommunity
  <2>1. /\ GoOn("build") \/ builder' = Asleep
        /\ exportFaults' \in 0..MaxExportFaults /\ UNCHANGED <<jobs, archives, asked>>
    BY <1>0, <1>8, FaultTyped DEF ReadCommunity
  <2>2. builder.job \in DOMAIN jobs /\ builder.built < MaxJobs
    BY <1>8 DEF ReadCommunity, AtStage, ExportInv, BuildsClaimed
  <2>3. PICK b \in Builders(DOMAIN jobs) :
          /\ builder' = b
          /\ b.at = "asleep" \/ (b.job = builder.job /\ b.built = builder.built)
    BY <1>0, <1>s, <2>1, GoOnTyped, AsleepTyped
  <2> QED
    BY <1>0, <2>1, <2>2, <2>3, ExportStepTyped
<1>9. CASE BuildArchive
  <2>1. /\ GoOn("ready") \/ GoOn("giveUp")
        /\ archives' \in {archives, archives \cup {builder.job}}
        /\ exportFaults' \in 0..MaxExportFaults /\ UNCHANGED <<jobs, asked>>
    BY <1>0, <1>9, FaultTyped DEF BuildArchive
  <2>2. builder.job \in DOMAIN jobs /\ builder.built < MaxJobs
    BY <1>9 DEF BuildArchive, AtStage, ExportInv, BuildsClaimed
  <2>3. PICK b \in Builders(DOMAIN jobs) :
          builder' = b /\ b.job = builder.job /\ b.built = builder.built
    BY <1>0, <1>s, <2>1, GoOnTyped
  <2> QED
    BY <1>0, <2>1, <2>2, <2>3, ExportStepTyped
<1>10. CASE MarkReady
  <2>1. /\ jobs' \in {jobs, WithStatus(builder.job, "ready")} /\ (Fault \/ Fine)
        /\ UNCHANGED <<archives, asked>> /\ (NextJob \/ GoOn("giveUp"))
    BY <1>10 DEF MarkReady
  <2>2. /\ jobs' \in Seq(Job) /\ Len(jobs') <= MaxExports /\ DOMAIN jobs' = DOMAIN jobs
        /\ exportFaults' \in 0..MaxExportFaults
    <3> HIDE DEF WithStatus
    <3> QED
      BY <1>0, <2>1, WithStatusTyped, FaultTyped DEF JobStatuses
  <2>3. builder.at = "ready" /\ builder.job \in DOMAIN jobs /\ builder.built < MaxJobs
    BY <1>10 DEF MarkReady, AtStage, ExportInv, BuildsClaimed
  <2>4. PICK b \in Builders(DOMAIN jobs) :
          /\ builder' = b
          /\ b.at = "claim" \/ (b.job = builder.job /\ b.built = builder.built)
    BY <1>0, <1>s, <2>1, <2>3, GoOnTyped, NextJobTyped
  <2> QED
    BY <1>0, <2>1, <2>2, <2>3, <2>4, ExportStepTyped
<1>11. CASE GiveUp
  <2>1. PICK b \in Builders(DOMAIN jobs) : builder' = b /\ b.at = "claim"
    BY <1>11, NextJobTyped DEF GiveUp, AtStage
  <2>2. /\ jobs' \in Seq(Job) /\ Len(jobs') <= MaxExports /\ DOMAIN jobs' = DOMAIN jobs
        /\ exportFaults' \in 0..MaxExportFaults
    BY <1>0, <1>11, WriteTyped DEF GiveUp, JobStatuses
  <2>3. UNCHANGED <<archives, asked>>
    BY <1>11 DEF GiveUp
  <2> QED
    BY <1>0, <2>1, <2>2, <2>3, ExportStepTyped
<1>12. CASE WorkerKilled
  <2>1. builder' = Asleep /\ UNCHANGED <<jobs, archives, asked>> /\ exportFaults' \in 0..MaxExportFaults
    BY <1>0, <1>12, FaultTyped DEF WorkerKilled
  <2> QED
    BY <1>0, <2>1, AsleepTyped, ExportStepTyped
<1> QED
  BY <1>1, <1>2, <1>3, <1>4, <1>5, <1>6, <1>7, <1>8, <1>9, <1>10, <1>11, <1>12 DEF WorkerStep

LEMMA AgesTyped ==
  ASSUME ExportInv, NEW x \in DOMAIN jobs, TimePasses(x)
  PROVE  ExportInv'
<1>0. ExportTypeOK /\ jobs \in [1..Len(jobs) -> Job] /\ Len(jobs) \in Nat
  BY ExportParts DEF ExportInv
<1> DEFINE wanted == [jobs[x] EXCEPT !.old = TRUE]
<1>1. wanted \in Job
  BY <1>0 DEF Job
<1>2. jobs' = [jobs EXCEPT ![x] = wanted]
  BY DEF TimePasses
<1> HIDE DEF wanted
<1>3. jobs' \in [1..Len(jobs) -> Job]
  BY <1>0, <1>1, <1>2
<1>4. jobs' \in Seq(Job) /\ DOMAIN jobs' = DOMAIN jobs
  BY <1>0, <1>3
<1>5. Len(jobs') = Len(jobs)
  BY <1>0, <1>3, <1>4
<1> QED
  BY <1>4, <1>5 DEF TimePasses, ExportInv, ExportTypeOK, BuildsClaimed

LEMMA ExportsKeep == ExportInv /\ [ExportNext]_exportVars => ExportInv'
<1> SUFFICES ASSUME ExportInv, [ExportNext]_exportVars PROVE ExportInv'
  OBVIOUS
<1> QED
  BY ExportSame, RequestTyped, WorkerTyped, AgesTyped DEF ExportNext

LEMMA ExportStart == ExportInit => ExportInv
<1> SUFFICES ASSUME ExportInit PROVE ExportInv
  OBVIOUS
<1>1. Asleep \in Builders({}) /\ Asleep.at = "asleep"
  BY AsleepTyped
<1>2. jobs = << >> /\ DOMAIN jobs = {} /\ Len(jobs) = 0 /\ jobs \in Seq(Job)
  BY DEF ExportInit
<1>3. 0 \in 0..MaxAsks /\ 0 \in 0..MaxExportFaults /\ 0 <= MaxExports
  BY ExportBounds
<1> QED
  BY <1>1, <1>2, <1>3 DEF ExportInit, ExportInv, ExportTypeOK, BuildsClaimed, Builders

\* What a transition does to the exports: it queues one, or nothing.
LEMMA HandoverExports ==
  ASSUME ExportInv, TransitionNext
  PROVE  ExportInv'
<1>1. CASE UNCHANGED exportVars
  BY <1>1, ExportSame
<1>2. ASSUME NEW h \in Handovers, CreateExport(h) PROVE ExportInv'
  <2>1. ExportTypeOK /\ Room /\ jobs' = Append(jobs, Queued(Ours))
        /\ UNCHANGED <<archives, asked, builder, exportFaults>>
    BY <1>2 DEF CreateExport, ExportInv
  <2>2. jobs' \in Seq(Job) /\ Len(jobs') <= MaxExports /\ DOMAIN jobs \subseteq DOMAIN jobs'
    BY <2>1, QueuedTyped, TransitionConstants
  <2> QED
    BY <2>1, <2>2 DEF ExportInv, ExportTypeOK, BuildsClaimed
<1>3. ASSUME NEW h \in Handovers, Transitions(h) \/ DetachOrg(h) PROVE UNCHANGED exportVars
  BY <1>3 DEF Transitions, DetachOrg, BeginHandover
<1>4. ASSUME NEW h \in Handovers,
             \/ PromoteAdmin(h) \/ RevokeGrants(h) \/ DeactivateMember(h) \/ EndVendor(h)
             \/ DetachBilling(h) \/ SyncSeats(h) \/ OpenGrace(h)
             \/ OfferExport(h) \/ WriteAudit(h) \/ Stops(h)
      PROVE  UNCHANGED exportVars
  BY <1>4 DEF PromoteAdmin, RevokeGrants, DeactivateMember, EndVendor, DetachBilling, SyncSeats,
              OpenGrace, OfferExport, WriteAudit, Stops
<1>5. AttachOrg => UNCHANGED exportVars
  BY DEF AttachOrg
<1> QED
  BY <1>1, <1>2, <1>3, <1>4, <1>5 DEF TransitionNext

-----------------------------------------------------------------------------
(* The types of a transition *)

\* An administrator is promoted only where the plan names one.
PromotesSomebody ==
    \A h \in Handovers : "promote_admin" \in handover[h].todo => handover[h].successor \in Members
HandoverTypes == TransitionTypeOK /\ PromotesSomebody

LEMMA HandoverParts ==
  ASSUME HandoverTypes
  PROVE  /\ role \in [Members -> Kinds] /\ active \subseteq Members /\ grants \subseteq Members
         /\ vendor \in {"none", "current", "ended"}
         /\ billing \in {"agency", "own", "expired"} /\ grace \in BOOLEAN /\ seat \in BOOLEAN
         /\ handover \in [Handovers -> Plans]
         /\ audits \in Nat /\ begun \in 0..MaxHandovers
         /\ overlapped \in BOOLEAN /\ unreachable \in BOOLEAN
  BY DEF HandoverTypes, TransitionTypeOK, Plans

\* A step on a plan that takes steps off it.
LEMMA PlanTyped ==
  ASSUME HandoverTypes, NEW h \in Handovers, NEW plan \in Plans,
         "promote_admin" \in plan.todo => plan.successor \in Members,
         handover' = [handover EXCEPT ![h] = plan]
  PROVE  handover' \in [Handovers -> Plans] /\ PromotesSomebody'
<1>1. handover \in [Handovers -> Plans]
  BY HandoverParts
<1>2. handover'[h] = plan /\ \A g \in Handovers : g # h => handover'[g] = handover[g]
  BY <1>1
<1> QED
  BY <1>1, <1>2 DEF HandoverTypes, PromotesSomebody

LEMMA FinishedTyped ==
  ASSUME HandoverTypes, NEW h \in Handovers, NEW ks, Finished(h, ks)
  PROVE  handover' \in [Handovers -> Plans] /\ PromotesSomebody'
<1>1. handover \in [Handovers -> Plans]
  BY HandoverParts
<1> DEFINE plan == [handover[h] EXCEPT !.todo = handover[h].todo \ ks]
<1>2. handover' = [handover EXCEPT ![h] = plan]
  BY <1>1 DEF Finished, Plans
<1>3. plan \in Plans /\ plan.todo \subseteq handover[h].todo /\ plan.successor = handover[h].successor
  BY <1>1 DEF Plans
<1> HIDE DEF plan
<1> QED
  BY <1>2, <1>3, PlanTyped DEF HandoverTypes, PromotesSomebody

LEMMA BeginTyped ==
  ASSUME HandoverTypes, NEW h \in Handovers, NEW successor \in Members \cup {Nobody},
         NEW out \in SUBSET Members, NEW wantsExport \in BOOLEAN,
         NEW afterwards \in SUBSET {"resync_seats"},
         BeginHandover(h, successor, out, wantsExport, afterwards)
  PROVE  HandoverTypes'
<1> DEFINE steps == PlannedSteps(successor, out, wantsExport)
           plan == [todo |-> steps \cup afterwards, successor |-> successor,
                    revoke |-> out \cap grants, leave |-> out]
<1>1. /\ handover' = [handover EXCEPT ![h] = plan]
      /\ begun' = begun + 1 /\ begun < MaxHandovers
      /\ overlapped' = (overlapped \/ \E g \in Handovers : Underway(g))
      /\ unreachable' = (unreachable \/ Accounts \cap (Remaining(out) \cup {successor}) = {})
      /\ UNCHANGED <<people, books, audits>>
  BY DEF BeginHandover
<1>2. /\ steps \in SUBSET StepKinds
      /\ "promote_admin" \in steps => successor # Nobody
  BY DEF PlannedSteps, IsNeeded, StepKinds, Rank
<1> HIDE DEF steps
<1>3. plan \in Plans
  BY <1>2 DEF Plans, StepKinds, Rank
<1>4. "promote_admin" \in plan.todo => plan.successor \in Members
  BY <1>2
<1> HIDE DEF plan
<1>5. handover' \in [Handovers -> Plans] /\ PromotesSomebody'
  BY <1>1, <1>3, <1>4, PlanTyped
<1>6. overlapped' \in BOOLEAN /\ unreachable' \in BOOLEAN
  BY <1>1, HandoverParts, Zenon
<1>7. begun' \in 0..MaxHandovers
  BY <1>1, HandoverParts, TransitionConstants
<1> QED
  BY <1>1, <1>5, <1>6, <1>7, HandoverParts DEF HandoverTypes, TransitionTypeOK, Plans, people, books

LEMMA ExecuteTyped ==
  ASSUME HandoverTypes, NEW h \in Handovers,
         \/ PromoteAdmin(h) \/ RevokeGrants(h) \/ DeactivateMember(h) \/ EndVendor(h)
         \/ DetachBilling(h) \/ SyncSeats(h) \/ OpenGrace(h)
         \/ OfferExport(h) \/ CreateExport(h) \/ WriteAudit(h) \/ Stops(h)
  PROVE  HandoverTypes'
<1>0. handover \in [Handovers -> Plans] /\ handover[h] \in Plans
  BY HandoverParts
<1>1. UNCHANGED <<begun, overlapped, unreachable>>
  BY DEF PromoteAdmin, RevokeGrants, DeactivateMember, EndVendor, DetachBilling, SyncSeats,
         OpenGrace, OfferExport, CreateExport, WriteAudit, Stops, Untold
<1>2. ASSUME NEW ks, Finished(h, ks),
             role' \in [Members -> Kinds], active' \subseteq Members, grants' \subseteq Members,
             vendor' \in {"none", "current", "ended"},
             billing' \in {"agency", "own", "expired"}, grace' \in BOOLEAN, seat' \in BOOLEAN,
             audits' \in Nat
      PROVE  HandoverTypes'
  <2>1. handover' \in [Handovers -> Plans] /\ PromotesSomebody'
    BY <1>2, FinishedTyped
  <2> QED
    BY <1>1, <1>2, <2>1, HandoverParts DEF HandoverTypes, TransitionTypeOK, Plans
<1> USE HandoverParts DEF people, books
<1>3. CASE PromoteAdmin(h)
  <2>1. handover[h].successor \in Members
    BY <1>3 DEF PromoteAdmin, Turn, HandoverTypes, PromotesSomebody
  <2>2. role' \in [Members -> Kinds]
    BY <1>3, <2>1 DEF PromoteAdmin, Kinds
  <2> QED
    BY <1>2, <1>3, <2>2 DEF PromoteAdmin
<1>4. ASSUME RevokeGrants(h) \/ DeactivateMember(h)
      PROVE  HandoverTypes'
  <2>1. PICK plan \in Plans :
          /\ handover' = [handover EXCEPT ![h] = plan]
          /\ plan.todo \subseteq handover[h].todo /\ plan.successor = handover[h].successor
    <3>1. CASE RevokeGrants(h)
      <4>1. PICK m \in handover[h].revoke :
              handover' = [handover EXCEPT ![h].revoke = @ \ {m},
                  ![h].todo = IF handover[h].revoke = {m} THEN @ \ {"revoke_grants"} ELSE @]
        BY <3>1 DEF RevokeGrants
      <4> DEFINE plan == [handover[h] EXCEPT !.revoke = handover[h].revoke \ {m},
                             !.todo = IF handover[h].revoke = {m}
                                      THEN handover[h].todo \ {"revoke_grants"}
                                      ELSE handover[h].todo]
      <4>2. handover' = [handover EXCEPT ![h] = plan]
        BY <1>0, <4>1 DEF Plans
      <4>3. /\ plan \in Plans /\ plan.successor = handover[h].successor
            /\ plan.todo \subseteq handover[h].todo
        BY <1>0 DEF Plans
      <4> HIDE DEF plan
      <4> QED
        BY <4>2, <4>3
    <3>2. CASE DeactivateMember(h)
      <4>1. PICK m \in handover[h].leave :
              handover' = [handover EXCEPT ![h].leave = @ \ {m},
                  ![h].todo = IF handover[h].leave = {m} THEN @ \ {"deactivate_member"} ELSE @]
        BY <3>2 DEF DeactivateMember
      <4> DEFINE plan == [handover[h] EXCEPT !.leave = handover[h].leave \ {m},
                             !.todo = IF handover[h].leave = {m}
                                      THEN handover[h].todo \ {"deactivate_member"}
                                      ELSE handover[h].todo]
      <4>2. handover' = [handover EXCEPT ![h] = plan]
        BY <1>0, <4>1 DEF Plans
      <4>3. /\ plan \in Plans /\ plan.successor = handover[h].successor
            /\ plan.todo \subseteq handover[h].todo
        BY <1>0 DEF Plans
      <4> HIDE DEF plan
      <4> QED
        BY <4>2, <4>3
    <3> QED
      BY <1>4, <3>1, <3>2
  <2>2. handover' \in [Handovers -> Plans] /\ PromotesSomebody'
    BY <2>1, PlanTyped DEF HandoverTypes, PromotesSomebody
  <2>3. grants' \subseteq Members /\ active' \subseteq Members /\ UNCHANGED <<role, books, audits>>
    BY <1>4 DEF RevokeGrants, DeactivateMember
  <2> QED
    BY <1>1, <2>2, <2>3 DEF HandoverTypes, TransitionTypeOK, Plans
<1>5. CASE EndVendor(h)
  BY <1>2, <1>5 DEF EndVendor
<1>6. CASE DetachBilling(h)
  BY <1>2, <1>6 DEF DetachBilling
<1>7. CASE SyncSeats(h)
  <2>1. PICK k \in {"sync_seats", "resync_seats"} : Finished(h, {k})
    BY <1>7 DEF SyncSeats
  <2>2. seat' \in BOOLEAN
    BY <1>7 DEF SyncSeats
  <2> QED
    BY <1>2, <1>7, <2>1, <2>2 DEF SyncSeats
<1>8. CASE OpenGrace(h)
  BY <1>2, <1>8 DEF OpenGrace
<1>9. CASE OfferExport(h)
  <2>1. \E ks : Finished(h, ks)
    BY <1>9 DEF OfferExport
  <2> QED
    BY <1>2, <1>9, <2>1 DEF OfferExport
<1>10. CASE CreateExport(h)
  BY <1>2, <1>10 DEF CreateExport
<1>11. CASE WriteAudit(h)
  BY <1>2, <1>11 DEF WriteAudit
<1>12. CASE Stops(h)
  <2>1. NoPlan \in Plans /\ NoPlan.todo = {}
    BY DEF NoPlan, Plans
  <2>2. handover' \in [Handovers -> Plans] /\ PromotesSomebody'
    BY <1>12, <2>1, PlanTyped DEF Stops
  <2> QED
    BY <1>1, <1>12, <2>2 DEF Stops, HandoverTypes, TransitionTypeOK, Plans
<1> QED
  BY <1>3, <1>4, <1>5, <1>6, <1>7, <1>8, <1>9, <1>10, <1>11, <1>12

LEMMA HandoverTypesStart == TransitionInit => HandoverTypes
<1> SUFFICES ASSUME TransitionInit PROVE HandoverTypes
  OBVIOUS
<1>1. NoPlan \in Plans /\ NoPlan.todo = {}
  BY DEF NoPlan, Plans
<1>2. handover \in [Handovers -> Plans] /\ PromotesSomebody
  BY <1>1 DEF TransitionInit, PromotesSomebody
<1>3. 0 \in 0..MaxHandovers /\ role \in [Members -> Kinds]
  BY TransitionConstants DEF TransitionInit
<1> QED
  BY <1>2, <1>3 DEF TransitionInit, HandoverTypes, TransitionTypeOK, Plans

LEMMA HandoverTypesKeep == HandoverTypes /\ TransitionNext => HandoverTypes'
<1> SUFFICES ASSUME HandoverTypes, TransitionNext PROVE HandoverTypes'
  OBVIOUS
<1>1. CASE AttachOrg
  <2>1. billing' = "agency" /\ UNCHANGED <<people, vendor, grace, handover, audits, overlapped, unreachable>>
    BY <1>1 DEF AttachOrg
  <2>2. begun' \in 0..MaxHandovers
    <3>1. begun < MaxHandovers /\ begun' = begun + 1
      BY <1>1 DEF AttachOrg
    <3> QED
      BY <3>1, HandoverParts, TransitionConstants
  <2>3. seat' \in BOOLEAN
    BY <1>1, HandoverParts, Zenon DEF AttachOrg
  <2> QED
    BY <2>1, <2>2, <2>3, HandoverParts DEF HandoverTypes, TransitionTypeOK, PromotesSomebody, people, Plans
<1>2. ASSUME NEW h \in Handovers, Transitions(h) PROVE HandoverTypes'
  BY <1>2, BeginTyped DEF Transitions
<1>3. ASSUME NEW h \in Handovers, DetachOrg(h) PROVE HandoverTypes'
  BY <1>3, BeginTyped DEF DetachOrg
<1> QED
  BY <1>1, <1>2, <1>3, ExecuteTyped DEF TransitionNext

\* Whatever transitions, requests and worker do to the exports and the roster, both
\* are well typed: the worker builds only jobs it claimed, a plan promotes only
\* members, and bounds are kept.
THEOREM TransitionTyped == TransitionSpec => [](ExportTypeOK /\ TransitionTypeOK)
<1> DEFINE Inv == ExportInv /\ HandoverTypes
           Step == TransitionNext \/ (ExportNext /\ UNCHANGED transitionVars)
           both == <<exportVars, transitionVars>>
<1>1. ExportInit /\ TransitionInit => Inv
  BY ExportStart, HandoverTypesStart
<1>2. Inv /\ [Step]_both => Inv'
  <2> SUFFICES ASSUME Inv, [Step]_both PROVE Inv'
    OBVIOUS
  <2>1. ASSUME UNCHANGED transitionVars PROVE HandoverTypes'
    BY <2>1 DEF transitionVars, HandoverTypes, TransitionTypeOK, PromotesSomebody
  <2> QED
    BY <2>1, ExportsKeep, ExportSame, HandoverExports, HandoverTypesKeep
<1>3. Inv => ExportTypeOK /\ TransitionTypeOK
  BY DEF ExportInv, HandoverTypes
<1> QED
  BY <1>1, <1>2, <1>3, PTL DEF TransitionSpec

-----------------------------------------------------------------------------
(* Invitations and join requests *)

MemberRow == [email : Addresses, status : {"active", "archived"}, user : Addresses \cup {NoLogin}]
Invitation == [email : Addresses, fresh : BOOLEAN,
               status : {"pending", "accepted", "canceled", "expired"}]
JoinRequest == [by : Addresses, status : {"pending", "approved", "rejected"}]

Acceptance == {"signingUp", "finding", "seating", "marking"}
WithLogin == {"finding", "seating"}  \* the account is made, and the member is not

\* What a request under way remembers still exists, and is its person's.
RemembersRows(v) ==
    /\ visit[v].at \notin {"away", "resending", "canceling", "expiring"}
         => visit[v].who \in Addresses
    /\ visit[v].at \in Acceptance \cup {"resending", "canceling", "expiring"}
         => visit[v].of \in DOMAIN invitations
    /\ visit[v].at \in Acceptance => invitations[visit[v].of].email = visit[v].who
    /\ visit[v].at = "seating" /\ visit[v].row # 0
         => visit[v].row \in DOMAIN roster /\ roster[visit[v].row].email = visit[v].who
    /\ visit[v].at = "connecting" => visit[v].of \in DOMAIN roster
    /\ visit[v].at \in {"approving", "approved", "rejecting"} => visit[v].of \in DOMAIN joins

TypeInv == OnboardingTypeOK /\ \A v \in Visits : RemembersRows(v)

\* A member whose account is not its address's was connected by hand.
OwnAddress ==
    \A m \in DOMAIN roster : roster[m].user \notin byHand \cup {NoLogin}
                             => roster[m].user = roster[m].email

Seated(p) == \E m \in DOMAIN roster : roster[m].user = p

\* One seat for an account, or one acceptance that is about to give it one.
OneSeatOf(p) ==
    /\ Seated(p) => p \in logins
    /\ \A m, n \in DOMAIN roster : roster[m].user = p /\ roster[n].user = p => m = n
    /\ \A v \in Visits : visit[v].at \in WithLogin /\ visit[v].who = p
                         => p \in logins /\ ~Seated(p)
    /\ \A v, w \in Visits :
         {visit[v].at, visit[w].at} \subseteq WithLogin /\ visit[v].who = p /\ visit[w].who = p
         => v = w
    /\ \A v \in Visits : visit[v].at = "marking" /\ visit[v].who = p => Seated(p)
    /\ \A i \in DOMAIN invitations :
         invitations[i].email = p /\ invitations[i].status = "accepted" => Seated(p)

SeatInv == \A p \in Addresses \ byHand : OneSeatOf(p)

OnboardingInv == TypeInv /\ OwnAddress /\ SeatInv

-----------------------------------------------------------------------------
(* Rows that are added and changed *)

LEMMA Appended ==
    ASSUME NEW S, NEW s \in Seq(S), NEW e \in S
    PROVE  /\ Append(s, e) \in Seq(S)
           /\ DOMAIN Append(s, e) = DOMAIN s \cup {Len(s) + 1}
           /\ Len(s) + 1 \notin DOMAIN s
           /\ \A i \in DOMAIN s : Append(s, e)[i] = s[i]
           /\ Append(s, e)[Len(s) + 1] = e
  OBVIOUS

LEMMA Changed ==
    ASSUME NEW S, NEW s \in Seq(S), NEW i \in DOMAIN s, NEW e \in S
    PROVE  /\ [s EXCEPT ![i] = e] \in Seq(S)
           /\ DOMAIN [s EXCEPT ![i] = e] = DOMAIN s
           /\ \A j \in DOMAIN s : [s EXCEPT ![i] = e][j] = IF j = i THEN e ELSE s[j]
  OBVIOUS

-----------------------------------------------------------------------------
(* Types, and what a request remembers *)

\* No step takes a row away or changes whose it is.
Kept ==
    /\ DOMAIN roster \subseteq DOMAIN roster'
    /\ \A m \in DOMAIN roster : roster'[m].email = roster[m].email
    /\ DOMAIN invitations \subseteq DOMAIN invitations'
    /\ \A i \in DOMAIN invitations : invitations'[i].email = invitations[i].email
    /\ DOMAIN joins \subseteq DOMAIN joins'

CollectionsTyped ==
    /\ roster \in Seq(MemberRow) /\ invitations \in Seq(Invitation) /\ joins \in Seq(JoinRequest)
    /\ logins \subseteq Addresses /\ byHand \subseteq Addresses

LEMMA TypesOf == TypeInv => CollectionsTyped /\ visit \in [Visits -> VisitTypes]
                            /\ arrivals \in 0..MaxArrivals
  BY DEF TypeInv, OnboardingTypeOK, CollectionsTyped, MemberRow, Invitation, JoinRequest

LEMMA ElementsTyped ==
    ASSUME TypeInv
    PROVE  /\ \A m \in DOMAIN roster : m \in Nat \ {0} /\ roster[m] \in MemberRow
           /\ \A i \in DOMAIN invitations : i \in Nat /\ invitations[i] \in Invitation
           /\ \A j \in DOMAIN joins : j \in Nat /\ joins[j] \in JoinRequest
  BY TypesOf DEF CollectionsTyped

\* One request moves; what the others remember is still there.
LEMMA OneMoves ==
    ASSUME TypeInv, NEW v \in Visits, NEW c \in VisitTypes,
           visit' = [visit EXCEPT ![v] = c], Kept,
           CollectionsTyped', (arrivals \in 0..MaxArrivals)', RemembersRows(v)'
    PROVE  TypeInv'
<1>1. visit' \in [Visits -> VisitTypes]
  BY TypesOf
<1>2. OnboardingTypeOK'
  BY <1>1 DEF OnboardingTypeOK, CollectionsTyped, MemberRow, Invitation, JoinRequest
<1>3. ASSUME NEW w \in Visits, w # v
      PROVE  RemembersRows(w)'
  <2>1. visit'[w] = visit[w] /\ RemembersRows(w)
    BY <1>3, TypesOf DEF TypeInv
  <2>2. QED
    BY <2>1 DEF RemembersRows, Kept, Acceptance
<1>4. QED
  BY <1>2, <1>3 DEF TypeInv

\* None moves.
LEMMA NoneMoves ==
    ASSUME TypeInv, UNCHANGED <<visit, arrivals>>, Kept, CollectionsTyped'
    PROVE  TypeInv'
<1>1. OnboardingTypeOK'
  BY TypesOf DEF OnboardingTypeOK, CollectionsTyped, MemberRow, Invitation, JoinRequest
<1>2. \A w \in Visits : RemembersRows(w)'
  BY DEF TypeInv, RemembersRows, Kept, Acceptance
<1>3. QED
  BY <1>1, <1>2 DEF TypeInv

LEMMA SameCommunity ==
    ASSUME TypeInv, UNCHANGED community
    PROVE  Kept /\ CollectionsTyped'
  BY TypesOf DEF community, Kept, CollectionsTyped

\* A request leaves, whatever it changed before.
LEMMA OneLeaves ==
    ASSUME TypeInv, NEW v \in Visits, Leaves(v), Kept, CollectionsTyped'
    PROVE  TypeInv'
<1>1. Away \in VisitTypes
  BY DEF Away, VisitTypes
<1>2. visit' = [visit EXCEPT ![v] = Away] /\ (arrivals \in 0..MaxArrivals)'
  BY TypesOf DEF Leaves
<1>3. visit'[v] = Away
  BY <1>2, TypesOf
<1>4. RemembersRows(v)'
  BY <1>3 DEF RemembersRows, Away, Acceptance
<1>5. QED
  BY <1>1, <1>2, <1>4, OneMoves

\* A request arrives with the row it read.
LEMMA OneArrives ==
    ASSUME TypeInv, UNCHANGED community, NEW v \in Visits, NEW at, NEW p, NEW i,
           Arrives(v, at, p, i), [at |-> at, who |-> p, of |-> i, row |-> 0] \in VisitTypes,
           at \notin {"away", "resending", "canceling", "expiring"} => p \in Addresses,
           at \in Acceptance \cup {"resending", "canceling", "expiring"} => i \in DOMAIN invitations,
           at \in Acceptance => invitations[i].email = p,
           at = "connecting" => i \in DOMAIN roster,
           at \in {"approving", "approved", "rejecting"} => i \in DOMAIN joins
    PROVE  TypeInv'
<1> DEFINE c == [at |-> at, who |-> p, of |-> i, row |-> 0]
<1>1. visit' = [visit EXCEPT ![v] = c] /\ (arrivals \in 0..MaxArrivals)'
  BY TypesOf, OnboardingConstants DEF Arrives
<1>2. visit'[v] = c
  BY <1>1, TypesOf
<1>3. c.at = at /\ c.who = p /\ c.of = i /\ c.row = 0
  OBVIOUS
<1>4. RemembersRows(v)'
  BY <1>2, <1>3 DEF RemembersRows, community
<1>5. QED
  BY <1>1, <1>4, SameCommunity, OneMoves

\* A request goes on to a place that asks for nothing it does not remember already.
LEMMA OneGoesOn ==
    ASSUME TypeInv, NEW v \in Visits, NEW at, MovesTo(v, at), Kept, CollectionsTyped',
           [visit[v] EXCEPT !.at = at] \in VisitTypes, at # "seating",
           visit[v].at \notin {"away", "resending", "canceling", "expiring"},
           at \notin {"resending", "canceling", "expiring", "connecting", "approving", "rejecting"},
           at \in Acceptance => visit[v].at \in Acceptance,
           at = "approved" => visit[v].at = "approving"
    PROVE  TypeInv'
<1> DEFINE c == [visit[v] EXCEPT !.at = at]
<1>1. visit' = [visit EXCEPT ![v] = c] /\ (arrivals \in 0..MaxArrivals)'
  BY TypesOf DEF MovesTo
<1>2. visit'[v] = c /\ visit[v] \in VisitTypes
  BY <1>1, TypesOf
<1>3. c.at = at /\ c.who = visit[v].who /\ c.of = visit[v].of
  BY <1>2 DEF VisitTypes
<1>4. RemembersRows(v)
  BY DEF TypeInv
<1>5. RemembersRows(v)'
  BY <1>2, <1>3, <1>4 DEF RemembersRows, Kept, Acceptance
<1>6. QED
  BY <1>1, <1>5, OneMoves

\* The writes: one more row, or one row changed but for whose it is.
LEMMA RosterWritten ==
    ASSUME TypeInv, UNCHANGED <<invitations, joins>>, logins' \subseteq Addresses,
           byHand' \subseteq Addresses,
           \/ \E e \in MemberRow : roster' = Append(roster, e)
           \/ \E m \in DOMAIN roster, e \in MemberRow :
                e.email = roster[m].email /\ roster' = [roster EXCEPT ![m] = e]
    PROVE  Kept /\ CollectionsTyped'
<1>1. CASE \E e \in MemberRow : roster' = Append(roster, e)
  BY <1>1, TypesOf, Appended DEF Kept, CollectionsTyped
<1>2. CASE \E m \in DOMAIN roster, e \in MemberRow :
             e.email = roster[m].email /\ roster' = [roster EXCEPT ![m] = e]
  <2>1. PICK m \in DOMAIN roster, e \in MemberRow :
          e.email = roster[m].email /\ roster' = [roster EXCEPT ![m] = e]
    BY <1>2
  <2>2. /\ roster' \in Seq(MemberRow) /\ DOMAIN roster' = DOMAIN roster
        /\ \A j \in DOMAIN roster : roster'[j] = IF j = m THEN e ELSE roster[j]
    BY <2>1, TypesOf, Changed DEF CollectionsTyped
  <2>3. QED
    BY <2>1, <2>2, TypesOf DEF Kept, CollectionsTyped
<1>3. QED
  BY <1>1, <1>2

LEMMA InvitationWritten ==
    ASSUME TypeInv, NEW v \in Visits, NEW at, NEW status, NEW fresh,
           WritesInvitation(v, at, status, fresh), fresh \in BOOLEAN,
           status \in {"pending", "accepted", "canceled", "expired"},
           visit[v].of \in DOMAIN invitations
    PROVE  /\ TypeInv'
           /\ DOMAIN invitations' = DOMAIN invitations
           /\ invitations'[visit[v].of].status = status
           /\ \A j \in DOMAIN invitations :
                /\ invitations'[j].email = invitations[j].email
                /\ j # visit[v].of => invitations'[j] = invitations[j]
<1> DEFINE i == visit[v].of
           e == [invitations[i] EXCEPT !.status = status, !.fresh = fresh]
<1>1. invitations[i] \in Invitation /\ invitations \in Seq(Invitation)
  BY TypesOf DEF CollectionsTyped
<1>2. e \in Invitation /\ e.email = invitations[i].email /\ e.status = status
  BY <1>1 DEF Invitation
<1>3. invitations' = [invitations EXCEPT ![i] = e]
  BY <1>1 DEF WritesInvitation
<1>4. /\ invitations' \in Seq(Invitation) /\ DOMAIN invitations' = DOMAIN invitations
      /\ \A j \in DOMAIN invitations : invitations'[j] = IF j = i THEN e ELSE invitations[j]
  <2> HIDE DEF e
  <2> QED BY <1>1, <1>2, <1>3, Changed
<1>5. \A j \in DOMAIN invitations : invitations'[j].email = invitations[j].email
  <2> HIDE DEF e
  <2> QED BY <1>2, <1>4
<1>6. Kept /\ CollectionsTyped'
  BY <1>4, <1>5, TypesOf DEF Kept, CollectionsTyped, WritesInvitation
<1>7. TypeInv'
  BY <1>6, OneLeaves DEF WritesInvitation
<1>8. QED
  <2> HIDE DEF e
  <2> QED BY <1>2, <1>4, <1>5, <1>7

-----------------------------------------------------------------------------
(* Seats *)

\* Steps that give nobody an account and no account a seat.
LEMMA Calm ==
    ASSUME OnboardingInv, UNCHANGED <<roster, logins, byHand>>,
           \A w \in Visits : visit'[w].at \in WithLogin
                             => visit[w].at \in WithLogin /\ visit'[w].who = visit[w].who,
           \A w \in Visits : visit'[w].at = "marking"
                             => visit[w].at = "marking" /\ visit'[w].who = visit[w].who,
           \A i \in DOMAIN invitations' : invitations'[i].status = "accepted"
               => /\ i \in DOMAIN invitations /\ invitations[i].status = "accepted"
                  /\ invitations'[i].email = invitations[i].email
    PROVE  OwnAddress' /\ SeatInv'
<1>1. OwnAddress'
  BY DEF OnboardingInv, OwnAddress
<1>2. ASSUME NEW p \in Addresses, p \notin byHand
      PROVE  OneSeatOf(p)'
  <2>1. OneSeatOf(p)
    BY <1>2 DEF OnboardingInv, SeatInv
  <2>2. Seated(p)' <=> Seated(p)
    BY DEF Seated
  <2>3. /\ Seated(p)' => p \in logins'
        /\ \A m, n \in DOMAIN roster' : roster'[m].user = p /\ roster'[n].user = p => m = n
    BY <2>1, <2>2 DEF OneSeatOf
  <2>4. \A v \in Visits : visit'[v].at \in WithLogin /\ visit'[v].who = p
                          => p \in logins' /\ ~Seated(p)'
    BY <2>1, <2>2 DEF OneSeatOf
  <2>5. \A v, w \in Visits :
          {visit'[v].at, visit'[w].at} \subseteq WithLogin /\ visit'[v].who = p /\ visit'[w].who = p
          => v = w
    BY <2>1 DEF OneSeatOf
  <2>6. \A v \in Visits : visit'[v].at = "marking" /\ visit'[v].who = p => Seated(p)'
    BY <2>1, <2>2 DEF OneSeatOf
  <2>7. \A i \in DOMAIN invitations' :
          invitations'[i].email = p /\ invitations'[i].status = "accepted" => Seated(p)'
    BY <2>1, <2>2 DEF OneSeatOf
  <2>8. QED
    BY <2>3, <2>4, <2>5, <2>6, <2>7 DEF OneSeatOf
<1>3. SeatInv'
  BY <1>2 DEF SeatInv
<1>4. QED
  BY <1>1, <1>3

\* A request moves to a place where it holds no account, or leaves.
LEMMA CalmMove ==
    ASSUME OnboardingInv, UNCHANGED <<roster, logins, byHand, invitations>>,
           NEW v \in Visits, NEW c \in VisitTypes, visit' = [visit EXCEPT ![v] = c],
           c.at \in WithLogin => visit[v].at \in WithLogin /\ c.who = visit[v].who,
           c.at # "marking"
    PROVE  OwnAddress' /\ SeatInv'
<1>1. \A w \in Visits : visit'[w] = IF w = v THEN c ELSE visit[w]
  BY TypesOf DEF OnboardingInv
<1>2. QED
  BY <1>1, Calm

LEMMA CalmLeave ==
    ASSUME OnboardingInv, UNCHANGED <<roster, logins, byHand>>, NEW v \in Visits, Leaves(v),
           \A i \in DOMAIN invitations' : invitations'[i].status = "accepted"
               => /\ i \in DOMAIN invitations /\ invitations[i].status = "accepted"
                  /\ invitations'[i].email = invitations[i].email
    PROVE  OwnAddress' /\ SeatInv'
<1>1. \A w \in Visits : visit'[w] = IF w = v THEN Away ELSE visit[w]
  BY TypesOf DEF OnboardingInv, Leaves
<1>2. Away.at \notin WithLogin /\ Away.at # "marking"
  BY DEF Away, WithLogin
<1>3. QED
  BY <1>1, <1>2, Calm

-----------------------------------------------------------------------------
(* The steps *)

LEMMA InvitingKeeps ==
    ASSUME OnboardingInv, NEW v \in Visits, Inviting(v)
    PROVE  OnboardingInv'
<1> USE DEF OnboardingInv
<1>0. visit[v] \in VisitTypes /\ RemembersRows(v)
  BY TypesOf DEF TypeInv
<1>1. ASSUME NEW p \in Addresses, InviteStarts(v, p)
      PROVE  OnboardingInv'
  <2> DEFINE c == [at |-> "looking", who |-> p, of |-> 0, row |-> 0]
  <2>1. c \in VisitTypes
    BY DEF VisitTypes
  <2>2. TypeInv'
    BY <1>1, <2>1, OneArrives DEF InviteStarts, Acceptance
  <2>3. OwnAddress' /\ SeatInv'
    BY <1>1, <2>1, CalmMove DEF InviteStarts, Arrives, community, WithLogin
  <2>4. QED
    BY <2>2, <2>3
<1>2. CASE InviteLooks(v)
  <2>1. CASE MovesTo(v, "inviting")
    <3> DEFINE c == [visit[v] EXCEPT !.at = "inviting"]
    <3>1. c \in VisitTypes /\ c.at = "inviting" /\ visit' = [visit EXCEPT ![v] = c]
      BY <1>0, <2>1 DEF VisitTypes, MovesTo
    <3>2. TypeInv'
      BY <1>2, <2>1, <3>1, SameCommunity, OneGoesOn DEF InviteLooks, Acceptance
    <3>3. OwnAddress' /\ SeatInv'
      <4> HIDE DEF c
      <4> QED BY <1>2, <3>1, CalmMove DEF InviteLooks, community, WithLogin
    <3>4. QED
      BY <3>2, <3>3
  <2>2. CASE Leaves(v)
    BY <1>2, <2>2, SameCommunity, OneLeaves, CalmLeave DEF InviteLooks, community
  <2>3. QED
    BY <1>2, <2>1, <2>2 DEF InviteLooks
<1>3. CASE InviteCreates(v)
  <2> DEFINE e == [email |-> visit[v].who, status |-> "pending", fresh |-> TRUE]
  <2>1. e \in Invitation /\ invitations \in Seq(Invitation)
    BY <1>0, <1>3, TypesOf DEF RemembersRows, InviteCreates, Invitation, CollectionsTyped
  <2>2. /\ invitations' \in Seq(Invitation)
        /\ DOMAIN invitations' = DOMAIN invitations \cup {Len(invitations) + 1}
        /\ \A i \in DOMAIN invitations : invitations'[i] = invitations[i]
        /\ invitations'[Len(invitations) + 1].status = "pending"
    BY <1>3, <2>1, Appended DEF InviteCreates
  <2>3. TypeInv'
    BY <1>3, <2>2, TypesOf, OneLeaves DEF InviteCreates, Kept, CollectionsTyped
  <2>4. OwnAddress' /\ SeatInv'
    BY <1>3, <2>2, CalmLeave DEF InviteCreates
  <2>5. QED
    BY <2>3, <2>4
<1>4. ASSUME NEW i \in DOMAIN invitations, NEW at \in {"resending", "canceling"},
             Arrives(v, at, NoLogin, i), UNCHANGED community
      PROVE  OnboardingInv'
  <2> DEFINE c == [at |-> at, who |-> NoLogin, of |-> i, row |-> 0]
  <2>1. c \in VisitTypes
    BY TypesOf DEF VisitTypes, CollectionsTyped
  <2>2. TypeInv'
    BY <1>4, <2>1, OneArrives DEF Acceptance
  <2>3. OwnAddress' /\ SeatInv'
    BY <1>4, <2>1, CalmMove DEF Arrives, community, WithLogin
  <2>4. QED
    BY <2>2, <2>3
<1>5. CASE Resends(v)
  <2>1. visit[v].of \in DOMAIN invitations
    BY <1>0, <1>5 DEF RemembersRows, Resends, WritesInvitation
  <2>2. TypeInv' /\ DOMAIN invitations' = DOMAIN invitations
        /\ invitations'[visit[v].of].status = "pending"
        /\ \A j \in DOMAIN invitations :
             j # visit[v].of => invitations'[j] = invitations[j]
    BY <1>5, <2>1, InvitationWritten DEF Resends
  <2>3. OwnAddress' /\ SeatInv'
    BY <1>5, <2>2, CalmLeave DEF Resends, WritesInvitation
  <2>4. QED
    BY <2>2, <2>3
<1>6. CASE Cancels(v)
  <2>1. visit[v].of \in DOMAIN invitations
    BY <1>0, <1>6 DEF RemembersRows, Cancels, WritesInvitation
  <2>2. invitations[visit[v].of].fresh \in BOOLEAN
    BY <2>1, ElementsTyped DEF Invitation
  <2>3. TypeInv' /\ DOMAIN invitations' = DOMAIN invitations
        /\ invitations'[visit[v].of].status = "canceled"
        /\ \A j \in DOMAIN invitations :
             j # visit[v].of => invitations'[j] = invitations[j]
    BY <1>6, <2>1, <2>2, InvitationWritten DEF Cancels
  <2>4. OwnAddress' /\ SeatInv'
    BY <1>6, <2>3, CalmLeave DEF Cancels, WritesInvitation
  <2>5. QED
    BY <2>3, <2>4
<1>7. QED
  BY <1>1, <1>2, <1>3, <1>4, <1>5, <1>6 DEF Inviting, ResendStarts, CancelStarts

LEMMA JoiningKeeps ==
    ASSUME OnboardingInv, NEW v \in Visits, Joining(v), ~ApproveSeats(v)
    PROVE  OnboardingInv'
<1> USE DEF OnboardingInv
<1>0. visit[v] \in VisitTypes /\ RemembersRows(v)
  BY TypesOf DEF TypeInv
<1>1. ASSUME NEW p \in Addresses, JoinStarts(v, p)
      PROVE  OnboardingInv'
  <2> DEFINE c == [at |-> "asking", who |-> p, of |-> 0, row |-> 0]
  <2>1. c \in VisitTypes
    BY DEF VisitTypes
  <2>2. TypeInv'
    BY <1>1, <2>1, OneArrives DEF JoinStarts, Acceptance
  <2>3. OwnAddress' /\ SeatInv'
    BY <1>1, <2>1, CalmMove DEF JoinStarts, Arrives, community, WithLogin
  <2>4. QED
    BY <2>2, <2>3
<1>2. CASE JoinLooks(v)
  <2>1. CASE MovesTo(v, "joining")
    <3> DEFINE c == [visit[v] EXCEPT !.at = "joining"]
    <3>1. c \in VisitTypes /\ c.at = "joining" /\ visit' = [visit EXCEPT ![v] = c]
      BY <1>0, <2>1 DEF VisitTypes, MovesTo
    <3>2. TypeInv'
      BY <1>2, <2>1, <3>1, SameCommunity, OneGoesOn DEF JoinLooks, Acceptance
    <3>3. OwnAddress' /\ SeatInv'
      <4> HIDE DEF c
      <4> QED BY <1>2, <3>1, CalmMove DEF JoinLooks, community, WithLogin
    <3>4. QED
      BY <3>2, <3>3
  <2>2. CASE Leaves(v)
    BY <1>2, <2>2, SameCommunity, OneLeaves, CalmLeave DEF JoinLooks, community
  <2>3. QED
    BY <1>2, <2>1, <2>2 DEF JoinLooks
<1>3. CASE JoinCreates(v)
  <2> DEFINE e == [by |-> visit[v].who, status |-> "pending"]
  <2>1. e \in JoinRequest /\ joins \in Seq(JoinRequest)
    BY <1>0, <1>3, TypesOf DEF RemembersRows, JoinCreates, JoinRequest, CollectionsTyped
  <2>2. joins' \in Seq(JoinRequest) /\ DOMAIN joins \subseteq DOMAIN joins'
    BY <1>3, <2>1, Appended DEF JoinCreates
  <2>3. TypeInv'
    BY <1>3, <2>2, TypesOf, OneLeaves DEF JoinCreates, Kept, CollectionsTyped
  <2>4. QED
    BY <1>3, <2>3, CalmLeave DEF JoinCreates
<1>4. ASSUME NEW j \in DOMAIN joins, DecideStarts(v, j)
      PROVE  OnboardingInv'
  <2>1. PICK at \in {"approving", "rejecting"} : Arrives(v, at, joins[j].by, j)
    BY <1>4 DEF DecideStarts
  <2> DEFINE c == [at |-> at, who |-> joins[j].by, of |-> j, row |-> 0]
  <2>2. joins[j].by \in Addresses /\ c \in VisitTypes
    BY ElementsTyped DEF VisitTypes, JoinRequest
  <2>3. TypeInv'
    BY <1>4, <2>1, <2>2, OneArrives DEF DecideStarts, Acceptance
  <2>4. OwnAddress' /\ SeatInv'
    BY <1>4, <2>1, <2>2, CalmMove DEF DecideStarts, Arrives, community, WithLogin
  <2>5. QED
    BY <2>3, <2>4
<1>5. CASE Decides(v)
  <2> DEFINE j == visit[v].of
             status == IF visit[v].at = "approved" THEN "approved" ELSE "rejected"
             e == [joins[j] EXCEPT !.status = status]
  <2>1. j \in DOMAIN joins /\ joins \in Seq(JoinRequest)
    BY <1>0, <1>5, TypesOf DEF RemembersRows, Decides, CollectionsTyped
  <2>2. e \in JoinRequest /\ joins' = [joins EXCEPT ![j] = e]
    BY <1>5, <2>1, ElementsTyped DEF JoinRequest, Decides
  <2>3. joins' \in Seq(JoinRequest) /\ DOMAIN joins' = DOMAIN joins
    <3> HIDE DEF e
    <3> QED BY <2>1, <2>2, Changed
  <2>4. TypeInv'
    BY <1>5, <2>3, TypesOf, OneLeaves DEF Decides, Kept, CollectionsTyped
  <2>5. QED
    BY <1>5, <2>4, CalmLeave DEF Decides
<1>6. QED
  BY <1>1, <1>2, <1>3, <1>4, <1>5 DEF Joining

\* The account is made only for an address that has none, so for nobody seated or
\* about to be.
LEMMA LoginKeeps ==
    ASSUME OnboardingInv, NEW v \in Visits, MakesLogin(v)
    PROVE  OnboardingInv'
<1> USE DEF OnboardingInv
<1> DEFINE p == visit[v].who
           c == [visit[v] EXCEPT !.at = "finding"]
<1>0. visit[v] \in VisitTypes /\ RemembersRows(v) /\ p \in Addresses
  BY TypesOf DEF TypeInv, MakesLogin, RemembersRows
<1>1. CASE p \in logins
  <2>1. Leaves(v) /\ logins' = logins
    BY <1>1 DEF MakesLogin
  <2>2. TypeInv'
    BY <2>1, OneLeaves, TypesOf DEF MakesLogin, Kept, CollectionsTyped
  <2>3. QED
    BY <2>1, <2>2, CalmLeave DEF MakesLogin
<1>2. CASE p \notin logins
  <2>1. c \in VisitTypes /\ c.at = "finding" /\ c.who = p
    BY <1>0 DEF VisitTypes
  <2>2. MovesTo(v, "finding") /\ visit' = [visit EXCEPT ![v] = c]
    BY <1>2 DEF MakesLogin, MovesTo
  <2>3. Kept /\ CollectionsTyped'
    BY <1>0, TypesOf DEF MakesLogin, Kept, CollectionsTyped
  <2>4. TypeInv'
    BY <2>1, <2>2, <2>3, OneGoesOn DEF MakesLogin, Acceptance
  <2>5. \A w \in Visits : visit'[w] = IF w = v THEN c ELSE visit[w]
    BY <2>2, TypesOf
  <2>6. ASSUME NEW q \in Addresses \ byHand
        PROVE  OneSeatOf(q)'
    <3>1. OneSeatOf(q) /\ (Seated(q)' <=> Seated(q))
      BY <2>6 DEF SeatInv, MakesLogin, Seated
    <3>2. q = p => ~Seated(q)
      BY <1>2, <3>1 DEF OneSeatOf
    <3>3. \A w \in Visits : visit[w].at \in WithLogin /\ visit[w].who = q => q # p
      BY <1>2, <3>1 DEF OneSeatOf
    <3> HIDE DEF c, p
    <3>4. \A w \in Visits : visit'[w].at \in WithLogin /\ visit'[w].who = q
                            => \/ w = v /\ q = p
                               \/ w # v /\ q # p /\ visit[w].at \in WithLogin /\ visit[w].who = q
      BY <2>1, <2>5, <3>3
    <3>5. \A w \in Visits : visit'[w].at \in WithLogin /\ visit'[w].who = q
                            => q \in logins' /\ ~Seated(q)'
      BY <3>1, <3>2, <3>4 DEF OneSeatOf, MakesLogin, p
    <3>6. \A w, u \in Visits :
            {visit'[w].at, visit'[u].at} \subseteq WithLogin /\ visit'[w].who = q /\ visit'[u].who = q
            => w = u
      BY <3>1, <3>4 DEF OneSeatOf
    <3>7. \A w \in Visits : visit'[w].at = "marking" /\ visit'[w].who = q => Seated(q)'
      BY <2>1, <2>5, <3>1 DEF OneSeatOf
    <3>8. QED
      BY <3>1, <3>5, <3>6, <3>7 DEF OneSeatOf, MakesLogin
  <2>7. OwnAddress' /\ SeatInv'
    BY <2>6 DEF OwnAddress, SeatInv, MakesLogin
  <2>8. QED
    BY <2>4, <2>7
<1>3. QED
  BY <1>1, <1>2

\* The seat goes to the one acceptance that may have it.
LEMMA SeatsKeep ==
    ASSUME OnboardingInv, NEW v \in Visits, Seats(v)
    PROVE  OnboardingInv'
<1> USE DEF OnboardingInv
<1> DEFINE p == visit[v].who
           m == visit[v].row
           c == [visit[v] EXCEPT !.at = "marking"]
           e == IF m # 0 THEN [roster[m] EXCEPT !.user = p] ELSE Member(p, "active", p)
           new == IF m # 0 THEN m ELSE Len(roster) + 1
<1>0. visit[v] \in VisitTypes /\ RemembersRows(v) /\ p \in Addresses
  BY TypesOf DEF TypeInv, Seats, RemembersRows
<1>1. m # 0 => m \in DOMAIN roster /\ roster[m].email = p /\ roster[m] \in MemberRow
  BY <1>0, ElementsTyped DEF Seats, RemembersRows
<1>2. e \in MemberRow /\ e.user = p /\ e.email = p
  BY <1>0, <1>1 DEF MemberRow, Member
<1>3. IF m # 0 THEN roster' = [roster EXCEPT ![m] = e] ELSE roster' = Append(roster, e)
  BY <1>1 DEF Seats
<1>4. /\ DOMAIN roster' = DOMAIN roster \cup {new} /\ roster'[new] = e
      /\ \A n \in DOMAIN roster \ {new} : roster'[n] = roster[n]
      /\ roster \in Seq(MemberRow)
  <2> HIDE DEF e
  <2>1. roster \in Seq(MemberRow)
    BY TypesOf DEF CollectionsTyped
  <2>2. CASE m # 0
    <3>1. /\ DOMAIN roster' = DOMAIN roster
          /\ \A n \in DOMAIN roster : roster'[n] = IF n = m THEN e ELSE roster[n]
      BY <1>1, <1>2, <1>3, <2>1, <2>2, Changed
    <3>2. QED
      BY <1>1, <2>1, <2>2, <3>1
  <2>3. CASE m = 0
    BY <1>2, <1>3, <2>1, <2>3, Appended
  <2>4. QED
    BY <2>1, <2>2, <2>3
<1>5. c \in VisitTypes /\ c.at = "marking" /\ c.who = p /\ visit' = [visit EXCEPT ![v] = c]
  BY <1>0 DEF VisitTypes, Seats, MovesTo
<1>6. Kept /\ CollectionsTyped'
  <2> HIDE DEF e
  <2>1. logins' \subseteq Addresses /\ byHand' \subseteq Addresses
    BY TypesOf DEF Seats, CollectionsTyped
  <2>2. QED
    BY <1>1, <1>2, <1>3, <2>1, RosterWritten DEF Seats
<1>7. TypeInv'
  BY <1>5, <1>6, OneGoesOn DEF Seats, Acceptance
<1>8. \A w \in Visits : visit'[w] = IF w = v THEN c ELSE visit[w]
  BY <1>5, TypesOf
<1>9. OwnAddress'
  <2> HIDE DEF e, new
  <2> QED BY <1>2, <1>4 DEF OwnAddress, Seats
<1>10. ASSUME NEW q \in Addresses \ byHand
       PROVE  OneSeatOf(q)'
  <2> HIDE DEF e, new, c
  <2>1. OneSeatOf(q)
    BY DEF SeatInv
  <2>2. CASE q = p
    <3>1. q \in logins /\ ~Seated(q)
      BY <2>1, <2>2 DEF OneSeatOf, Seats, WithLogin
    <3>2. \A n \in DOMAIN roster' : roster'[n].user = q <=> n = new
      BY <1>2, <1>4, <2>2, <3>1 DEF Seated
    <3>3. Seated(q)'
      BY <1>4, <3>2 DEF Seated
    <3>4. \A w \in Visits : ~(visit'[w].at \in WithLogin /\ visit'[w].who = q)
      BY <1>5, <1>8, <2>1, <2>2 DEF OneSeatOf, Seats, WithLogin
    <3>5. QED
      BY <3>1, <3>2, <3>3, <3>4 DEF OneSeatOf, Seats
  <2>3. CASE q # p
    <3>1. m # 0 => roster[m].user # q
      BY <1>1, <2>3, OnboardingConstants DEF OwnAddress
    <3>2. \A n \in DOMAIN roster' : roster'[n].user = q <=> n \in DOMAIN roster /\ roster[n].user = q
      BY <1>2, <1>4, <2>3, <3>1 DEF new
    <3>3. Seated(q)' <=> Seated(q)
      BY <1>4, <3>2 DEF Seated
    <3>4. \A w \in Visits : visit'[w].who = q => visit'[w] = visit[w]
      BY <1>5, <1>8, <2>3
    <3>5. /\ \A w \in Visits : visit'[w].at \in WithLogin /\ visit'[w].who = q
                               => q \in logins' /\ ~Seated(q)'
          /\ \A w \in Visits : visit'[w].at = "marking" /\ visit'[w].who = q => Seated(q)'
      BY <2>1, <3>3, <3>4 DEF OneSeatOf, Seats
    <3>6. \A w, u \in Visits :
            {visit'[w].at, visit'[u].at} \subseteq WithLogin /\ visit'[w].who = q /\ visit'[u].who = q
            => w = u
      BY <2>1, <3>4 DEF OneSeatOf
    <3>7. QED
      BY <2>1, <3>2, <3>3, <3>5, <3>6 DEF OneSeatOf, Seats
  <2>4. QED
    BY <2>2, <2>3
<1>11. SeatInv'
  BY <1>10 DEF SeatInv, Seats
<1>12. QED
  BY <1>7, <1>9, <1>11

\* The invitation reads accepted when its person is seated.
LEMMA AcceptsKeep ==
    ASSUME OnboardingInv, NEW v \in Visits, Accepts(v)
    PROVE  OnboardingInv'
<1> USE DEF OnboardingInv
<1> DEFINE i == visit[v].of
<1>1. /\ visit[v].at = "marking" /\ i \in DOMAIN invitations
      /\ invitations[i].email = visit[v].who
  BY DEF TypeInv, RemembersRows, Accepts, WritesInvitation, Acceptance
<1>2. invitations[i].fresh \in BOOLEAN
  BY <1>1, ElementsTyped DEF Invitation
<1>3. /\ TypeInv' /\ DOMAIN invitations' = DOMAIN invitations
      /\ \A j \in DOMAIN invitations :
           /\ invitations'[j].email = invitations[j].email
           /\ j # i => invitations'[j] = invitations[j]
  BY <1>1, <1>2, InvitationWritten DEF Accepts
<1>4. \A w \in Visits : visit'[w] = IF w = v THEN Away ELSE visit[w]
  BY TypesOf DEF Accepts, WritesInvitation, Leaves
<1>5. Away.at \notin WithLogin /\ Away.at # "marking"
  BY DEF Away, WithLogin
<1>6. UNCHANGED <<roster, logins, byHand>>
  BY DEF Accepts, WritesInvitation
<1>7. ASSUME NEW q \in Addresses \ byHand
      PROVE  OneSeatOf(q)'
  <2>1. OneSeatOf(q) /\ (Seated(q)' <=> Seated(q))
    BY <1>6 DEF SeatInv, Seated
  <2>2. invitations[i].email = q => Seated(q)
    BY <1>1, <2>1 DEF OneSeatOf
  <2>3. \A j \in DOMAIN invitations' :
          invitations'[j].email = q /\ invitations'[j].status = "accepted" => Seated(q)'
    BY <1>3, <2>1, <2>2 DEF OneSeatOf
  <2>4. \A w \in Visits : visit'[w].at \in WithLogin \cup {"marking"} => visit'[w] = visit[w]
    BY <1>4, <1>5
  <2>5. QED
    BY <1>6, <2>1, <2>3, <2>4 DEF OneSeatOf
<1>8. OwnAddress' /\ SeatInv'
  BY <1>6, <1>7 DEF OwnAddress, SeatInv
<1>9. QED
  BY <1>3, <1>8

LEMMA AcceptingKeeps ==
    ASSUME OnboardingInv, NEW v \in Visits, Accepting(v)
    PROVE  OnboardingInv'
<1> USE DEF OnboardingInv
<1>0. visit[v] \in VisitTypes /\ RemembersRows(v)
  BY TypesOf DEF TypeInv
<1>1. ASSUME NEW i \in DOMAIN invitations, AcceptStarts(v, i)
      PROVE  OnboardingInv'
  <2> DEFINE at == IF invitations[i].fresh THEN "signingUp" ELSE "expiring"
             c == [at |-> at, who |-> invitations[i].email, of |-> i, row |-> 0]
  <2>1. invitations[i].email \in Addresses /\ c \in VisitTypes
    BY ElementsTyped DEF VisitTypes, Invitation
  <2>2. TypeInv'
    BY <1>1, <2>1, OneArrives DEF AcceptStarts, Acceptance
  <2>3. OwnAddress' /\ SeatInv'
    BY <1>1, <2>1, CalmMove DEF AcceptStarts, Arrives, community, WithLogin
  <2>4. QED
    BY <2>2, <2>3
<1>2. CASE Expires(v)
  <2>1. visit[v].of \in DOMAIN invitations
    BY <1>0, <1>2 DEF RemembersRows, Expires, WritesInvitation
  <2>2. TypeInv' /\ DOMAIN invitations' = DOMAIN invitations
        /\ invitations'[visit[v].of].status = "expired"
        /\ \A j \in DOMAIN invitations :
             j # visit[v].of => invitations'[j] = invitations[j]
    BY <1>2, <2>1, InvitationWritten DEF Expires
  <2>3. OwnAddress' /\ SeatInv'
    BY <1>2, <2>2, CalmLeave DEF Expires, WritesInvitation
  <2>4. QED
    BY <2>2, <2>3
<1>3. CASE FindsMember(v)
  <2>1. PICK m \in RowsOf(visit[v].who) \cup {0} :
          visit' = [visit EXCEPT ![v].at = "seating", ![v].row = m]
    BY <1>3 DEF FindsMember
  <2> DEFINE c == [visit[v] EXCEPT !.at = "seating", !.row = m]
  <2>2. m # 0 => m \in DOMAIN roster /\ roster[m].email = visit[v].who
    BY DEF RowsOf
  <2>3. /\ c \in VisitTypes /\ c.at = "seating" /\ c.row = m
        /\ c.who = visit[v].who /\ c.of = visit[v].of
    <3>1. m \in Nat
      BY <2>2, ElementsTyped
    <3>2. QED
      BY <1>0, <3>1 DEF VisitTypes
  <2>4. visit' = [visit EXCEPT ![v] = c]
    BY <1>0, <2>1, TypesOf
  <2>5. visit'[v] = c
    BY <2>4, TypesOf
  <2>6. visit[v].at = "finding" /\ UNCHANGED <<community, arrivals>>
    BY <1>3 DEF FindsMember
  <2> HIDE DEF c
  <2>7. RemembersRows(v)'
    BY <1>0, <2>2, <2>3, <2>5, <2>6 DEF RemembersRows, Acceptance, community
  <2>8. TypeInv'
    BY <2>3, <2>4, <2>6, <2>7, SameCommunity, OneMoves, TypesOf
  <2>9. OwnAddress' /\ SeatInv'
    BY <2>3, <2>4, <2>6, CalmMove DEF community, WithLogin
  <2>10. QED
    BY <2>8, <2>9
<1>4. QED
  BY <1>1, <1>2, <1>3, LoginKeeps, SeatsKeep, AcceptsKeep DEF Accepting

\* Steps on the roster that give and take no seat of an address still untouched.
LEMMA SameSeats ==
    ASSUME OnboardingInv, UNCHANGED <<invitations, logins>>, byHand \subseteq byHand',
           \A q \in Addresses \ byHand' : \A n :
               n \in DOMAIN roster' /\ roster'[n].user = q <=> n \in DOMAIN roster /\ roster[n].user = q,
           \A w \in Visits : visit'[w].at \in WithLogin \cup {"marking"} => visit'[w] = visit[w]
    PROVE  SeatInv'
<1>1. ASSUME NEW q \in Addresses \ byHand'
      PROVE  OneSeatOf(q)'
  <2>1. OneSeatOf(q) /\ (Seated(q)' <=> Seated(q))
    BY DEF OnboardingInv, SeatInv, Seated
  <2>2. QED
    BY <2>1 DEF OneSeatOf
<1>2. QED
  BY <1>1 DEF SeatInv

\* A new member, or one changed, that keeps its own address or is marked as by hand.
LEMMA RosterKeeps ==
    ASSUME OnboardingInv, UNCHANGED <<invitations, logins, joins>>, TypeInv',
           byHand \subseteq byHand', NEW e \in MemberRow,
           e.user \in byHand' \cup {NoLogin, e.email},
           \/ /\ roster' = Append(roster, e) /\ e.user \in byHand' \cup {NoLogin}
           \/ \E m \in DOMAIN roster :
                /\ roster' = [roster EXCEPT ![m] = e] /\ e.email = roster[m].email
                /\ e.user = roster[m].user \/ {e.email, e.user} \subseteq byHand',
           \A w \in Visits : visit'[w].at \in WithLogin \cup {"marking"} => visit'[w] = visit[w]
    PROVE  OnboardingInv'
<1> USE DEF OnboardingInv
<1>1. roster \in Seq(MemberRow)
  BY TypesOf DEF CollectionsTyped
<1>2. CASE roster' = Append(roster, e) /\ e.user \in byHand' \cup {NoLogin}
  <2>1. /\ DOMAIN roster' = DOMAIN roster \cup {Len(roster) + 1}
        /\ Len(roster) + 1 \notin DOMAIN roster /\ roster'[Len(roster) + 1] = e
        /\ \A n \in DOMAIN roster : roster'[n] = roster[n]
    BY <1>1, <1>2, Appended
  <2>2. OwnAddress'
    BY <1>2, <2>1 DEF OwnAddress
  <2>3. \A q \in Addresses \ byHand' : \A n :
          n \in DOMAIN roster' /\ roster'[n].user = q <=> n \in DOMAIN roster /\ roster[n].user = q
    BY <1>2, <2>1, OnboardingConstants
  <2>4. QED
    BY <2>2, <2>3, SameSeats
<1>3. ASSUME NEW m \in DOMAIN roster,
             roster' = [roster EXCEPT ![m] = e], e.email = roster[m].email,
             e.user = roster[m].user \/ {e.email, e.user} \subseteq byHand'
      PROVE  OnboardingInv'
  <2>1. /\ DOMAIN roster' = DOMAIN roster
        /\ \A n \in DOMAIN roster : roster'[n] = IF n = m THEN e ELSE roster[n]
    BY <1>1, <1>3, Changed
  <2>2. OwnAddress'
    BY <2>1 DEF OwnAddress
  <2>3. ASSUME NEW q \in Addresses \ byHand'
        PROVE  roster'[m].user = q <=> roster[m].user = q
    <3>1. CASE e.user = roster[m].user
      BY <2>1, <3>1
    <3>2. CASE {e.email, e.user} \subseteq byHand'
      <4>1. roster[m].user # q
        BY <1>3, <2>3, <3>2, OnboardingConstants DEF OwnAddress
      <4>2. QED
        BY <2>1, <2>3, <3>2, <4>1
    <3>3. QED
      BY <1>3, <3>1, <3>2
  <2>4. \A q \in Addresses \ byHand' : \A n :
          n \in DOMAIN roster' /\ roster'[n].user = q <=> n \in DOMAIN roster /\ roster[n].user = q
    BY <2>1, <2>3
  <2>5. QED
    BY <2>2, <2>4, SameSeats
<1>4. QED
  BY <1>2, <1>3

LEMMA ApprovalKeeps ==
    ASSUME OnboardingInv, NEW v \in Visits, ApproveSeats(v)
    PROVE  OnboardingInv'
<1> USE DEF OnboardingInv
<1> DEFINE p == visit[v].who
           e == Member(p, "active", p)
           c == [visit[v] EXCEPT !.at = "approved"]
<1>1. visit[v] \in VisitTypes /\ p \in Addresses
  BY TypesOf DEF TypeInv, ApproveSeats, RemembersRows
<1>2. e \in MemberRow /\ e.user = p /\ roster' = Append(roster, e)
  BY <1>1 DEF Member, MemberRow, ApproveSeats
<1>3. c \in VisitTypes /\ c.at = "approved" /\ visit' = [visit EXCEPT ![v] = c]
  BY <1>1 DEF VisitTypes, ApproveSeats, MovesTo
<1>4. logins' \subseteq Addresses /\ byHand' \subseteq Addresses
  BY <1>1, TypesOf DEF ApproveSeats, CollectionsTyped
<1> HIDE DEF e
<1>5. Kept /\ CollectionsTyped'
  BY <1>2, <1>4, RosterWritten DEF ApproveSeats
<1>6. TypeInv'
  BY <1>3, <1>5, OneGoesOn DEF ApproveSeats, Acceptance
<1>7. \A w \in Visits : visit'[w] = IF w = v THEN c ELSE visit[w]
  BY <1>3, TypesOf
<1>8. \A w \in Visits : visit'[w].at \in WithLogin \cup {"marking"} => visit'[w] = visit[w]
  <2> HIDE DEF c
  <2> QED BY <1>3, <1>7 DEF WithLogin
<1>9. p \in byHand' /\ byHand \subseteq byHand'
  BY DEF ApproveSeats
<1>10. QED
  BY <1>2, <1>6, <1>8, <1>9, RosterKeeps DEF ApproveSeats

LEMMA ConnectingKeeps ==
    ASSUME OnboardingInv, NEW v \in Visits, Connecting(v)
    PROVE  OnboardingInv'
<1> USE DEF OnboardingInv
<1>1. ASSUME NEW m \in DOMAIN roster, NEW p \in Addresses, ConnectStarts(v, m, p)
      PROVE  OnboardingInv'
  <2> DEFINE c == [at |-> "connecting", who |-> p, of |-> m, row |-> 0]
  <2>1. c \in VisitTypes
    BY ElementsTyped DEF VisitTypes
  <2>2. TypeInv'
    BY <1>1, <2>1, OneArrives DEF ConnectStarts, Acceptance
  <2>3. OwnAddress' /\ SeatInv'
    BY <1>1, <2>1, CalmMove DEF ConnectStarts, Arrives, community, WithLogin
  <2>4. QED
    BY <2>2, <2>3
<1>2. CASE Connects(v)
  <2> DEFINE p == visit[v].who
             m == visit[v].of
             e == [roster[m] EXCEPT !.user = p]
  <2>1. p \in Addresses /\ m \in DOMAIN roster /\ roster[m] \in MemberRow
    BY <1>2, ElementsTyped DEF TypeInv, Connects, RemembersRows
  <2>2. e \in MemberRow /\ e.user = p /\ e.email = roster[m].email
    BY <2>1 DEF MemberRow
  <2>3. /\ roster' = [roster EXCEPT ![m] = e] /\ {e.email, e.user} \subseteq byHand'
        /\ byHand \subseteq byHand' /\ UNCHANGED <<invitations, joins, logins>> /\ Leaves(v)
    BY <1>2, <2>1, <2>2 DEF Connects
  <2>4. logins' \subseteq Addresses /\ byHand' \subseteq Addresses
    BY <1>2, <2>1, TypesOf DEF Connects, CollectionsTyped, MemberRow
  <2> HIDE DEF e
  <2>5. TypeInv'
    BY <2>1, <2>2, <2>3, <2>4, RosterWritten, OneLeaves
  <2>6. \A w \in Visits : visit'[w].at \in WithLogin \cup {"marking"} => visit'[w] = visit[w]
    BY <2>3, TypesOf DEF Leaves, Away, WithLogin
  <2>7. QED
    BY <2>1, <2>2, <2>3, <2>5, <2>6, RosterKeeps
<1>3. QED
  BY <1>1, <1>2 DEF Connecting

LEMMA SurroundingsKeep ==
    ASSUME OnboardingInv,
           \/ \E v \in Visits : GivesUp(v)
           \/ \E p \in Addresses : Enrolls(p)
           \/ \E m \in DOMAIN roster : SetsStatus(m)
           \/ \E i \in DOMAIN invitations : RunsOut(i)
    PROVE  OnboardingInv'
<1> USE DEF OnboardingInv
<1>1. ASSUME NEW v \in Visits, GivesUp(v)
      PROVE  OnboardingInv'
  BY <1>1, SameCommunity, OneLeaves, CalmLeave DEF GivesUp, community
<1>2. ASSUME NEW p \in Addresses, Enrolls(p)
      PROVE  OnboardingInv'
  <2> DEFINE e == Member(p, "active", NoLogin)
  <2>1. e \in MemberRow /\ e.user = NoLogin /\ roster' = Append(roster, e)
    BY <1>2 DEF Member, MemberRow, Enrolls
  <2> HIDE DEF e
  <2>2. TypeInv'
    BY <1>2, <2>1, TypesOf, RosterWritten, NoneMoves DEF Enrolls, CollectionsTyped
  <2>3. QED
    BY <1>2, <2>1, <2>2, RosterKeeps DEF Enrolls
<1>3. ASSUME NEW m \in DOMAIN roster, SetsStatus(m)
      PROVE  OnboardingInv'
  <2>1. PICK status \in {"active", "archived"} : roster' = [roster EXCEPT ![m].status = status]
    BY <1>3 DEF SetsStatus
  <2> DEFINE e == [roster[m] EXCEPT !.status = status]
  <2>2. /\ e \in MemberRow /\ e.user = roster[m].user /\ e.email = roster[m].email
        /\ roster' = [roster EXCEPT ![m] = e]
    BY <2>1, ElementsTyped DEF MemberRow
  <2> HIDE DEF e
  <2>3. TypeInv'
    BY <1>3, <2>2, TypesOf, RosterWritten, NoneMoves DEF SetsStatus, CollectionsTyped
  <2>4. e.user \in byHand' \cup {NoLogin, e.email}
    BY <1>3, <2>2 DEF OwnAddress, SetsStatus
  <2>5. QED
    BY <1>3, <2>2, <2>3, <2>4, RosterKeeps DEF SetsStatus
<1>4. ASSUME NEW i \in DOMAIN invitations, RunsOut(i)
      PROVE  OnboardingInv'
  <2> DEFINE e == [invitations[i] EXCEPT !.fresh = FALSE]
  <2>1. /\ e \in Invitation /\ e.email = invitations[i].email
        /\ e.status = invitations[i].status /\ invitations' = [invitations EXCEPT ![i] = e]
    BY <1>4, ElementsTyped DEF Invitation, RunsOut
  <2> HIDE DEF e
  <2>2. /\ invitations' \in Seq(Invitation) /\ DOMAIN invitations' = DOMAIN invitations
        /\ \A j \in DOMAIN invitations : invitations'[j] = IF j = i THEN e ELSE invitations[j]
    BY <2>1, TypesOf, Changed DEF CollectionsTyped
  <2>3. TypeInv'
    BY <1>4, <2>1, <2>2, TypesOf, NoneMoves DEF RunsOut, Kept, CollectionsTyped
  <2>4. OwnAddress' /\ SeatInv'
    BY <1>4, <2>1, <2>2, Calm DEF RunsOut
  <2>5. QED
    BY <2>3, <2>4
<1>5. QED
  BY <1>1, <1>2, <1>3, <1>4

-----------------------------------------------------------------------------
(* The theorem *)

LEMMA OnboardingStart == OnboardingInit => OnboardingInv
<1> SUFFICES ASSUME OnboardingInit PROVE OnboardingInv
  OBVIOUS
<1>1. \A v \in Visits : visit[v] = Away
  BY DEF OnboardingInit
<1>2. \A v \in Visits : RemembersRows(v)
  BY <1>1 DEF RemembersRows, Away, Acceptance
<1>3. DOMAIN roster = {} /\ DOMAIN invitations = {}
  BY DEF OnboardingInit
<1>4. OnboardingTypeOK
  BY OnboardingConstants DEF OnboardingInit, OnboardingTypeOK, VisitTypes, Away
<1>5. OwnAddress /\ SeatInv
  BY <1>1, <1>3 DEF OwnAddress, SeatInv, OneSeatOf, Seated, Away, WithLogin
<1>6. QED
  BY <1>2, <1>4, <1>5 DEF OnboardingInv, TypeInv

LEMMA OnboardingStep == OnboardingInv /\ [OnboardingNext]_onboardingVars => OnboardingInv'
<1> SUFFICES ASSUME OnboardingInv, [OnboardingNext]_onboardingVars PROVE OnboardingInv'
  OBVIOUS
<1>1. ASSUME NEW v \in Visits, Joining(v)
      PROVE  OnboardingInv'
  BY <1>1, JoiningKeeps, ApprovalKeeps
<1>2. CASE UNCHANGED onboardingVars
  <2>1. TypeInv'
    BY <1>2, TypesOf, NoneMoves DEF onboardingVars, OnboardingInv, Kept, CollectionsTyped
  <2>2. OwnAddress' /\ SeatInv'
    BY <1>2, Calm DEF onboardingVars
  <2>3. QED
    BY <2>1, <2>2 DEF OnboardingInv
<1>3. QED
  BY <1>1, <1>2, InvitingKeeps, AcceptingKeeps, ConnectingKeeps, SurroundingsKeep
     DEF OnboardingNext

\* However invitations of an address are sent, resent, canceled, accepted and
\* interrupted, its account holds at most one member, and one if an invitation reads
\* accepted (accept-invitation.post.ts).
THEOREM OneSeatForTheInvited == OnboardingSpec => []InvitedHaveOneSeat
<1>1. OnboardingInv => InvitedHaveOneSeat
  BY DEF OnboardingInv, SeatInv, OneSeatOf, InvitedHaveOneSeat, Seated
<1>2. QED
  BY <1>1, OnboardingStart, OnboardingStep, PTL DEF OnboardingSpec

\* Rosters, invitations, requests to join and the functions on them are well typed.
THEOREM OnboardingTyped == OnboardingSpec => []OnboardingTypeOK
<1>1. OnboardingInv => OnboardingTypeOK
  BY DEF OnboardingInv, TypeInv
<1>2. QED
  BY <1>1, OnboardingStart, OnboardingStep, PTL DEF OnboardingSpec

-----------------------------------------------------------------------------
(* The residents' changes *)

ChangeTypes ==
    /\ owner \in [Things -> Residents \cup {Nothing}] /\ ended \subseteq Things
    /\ change = [q \in Changes |-> change[q]]
    /\ \A q \in Changes : change[q] = Nothing \/ change[q] \in ChangeRows
    /\ review = [v \in Reviews |-> review[v]]
    /\ \A v \in Reviews : review[v] = Unassigned \/ review[v] \in
          [at : {"apply", "mark"}, of : Changes, verdict : {"approved", "rejected"}]
    /\ edits \in 0..MaxEdits /\ stops \in 0..MaxStops
    /\ made \in [Changes -> Nat] /\ doubled \subseteq Changes /\ cut \subseteq Changes

\* An approval that is to be recorded has been made; what is under review was filed,
\* and, unless two reviewers met at it, there is one reviewer and it is still pending.
Done(q) == made[q] >= 1 /\ (change[q].action = "delete" => change[q].target \in ended)
ReviewInv == \A v \in Reviews : review[v] # Unassigned =>
    /\ Filed(review[v].of)
    /\ review[v].at = "apply" => review[v].verdict = "approved"
    /\ review[v].at = "mark" /\ review[v].verdict = "approved" => Done(review[v].of)
    /\ review[v].of \notin doubled =>
          /\ Pending(review[v].of)
          /\ \A w \in Reviews : Reviewing(w, review[v].of) => w = v

\* Only a vehicle or a pet is asked to be removed.
DeletesThings == \A q \in Changes :
    change[q] # Nothing /\ change[q].action = "delete" => change[q].target \in Things

ChangesInv ==
    ChangeTypes /\ ReviewInv /\ ApprovedIsMade /\ MadeOnce /\ DeletesThings

LEMMA TypesOfChanges == ChangeTypes => ChangesTypeOK
BY DEF ChangeTypes, ChangesTypeOK

LEMMA ChangesInitially == ChangesInit => ChangesInv
<1> SUFFICES ASSUME ChangesInit PROVE ChangesInv
  OBVIOUS
<1>1. ChangeTypes
  BY ChangeConstants DEF ChangesInit, ChangeTypes
<1>2. ReviewInv /\ ApprovedIsMade /\ MadeOnce /\ DeletesThings
  BY DEF ChangesInit, ReviewInv, ApprovedIsMade, MadeOnce, DeletesThings
<1> QED
  BY <1>1, <1>2 DEF ChangesInv

\* Asking and filing touch one row that nobody reviews.
LEMMA AsksKeeps ==
    ASSUME ChangesInv, NEW q \in Changes, NEW m \in Residents, NEW action \in ChangeActions,
           NEW t \in Residents \cup Things \cup {Nothing}, Asks(q, m, action, t)
    PROVE  ChangesInv'
<1>1. change[q] = Nothing /\ change' = [change EXCEPT ![q] = Asked(m, action, t)] /\ MayAsk(m, action, t)
      /\ UNCHANGED <<owner, ended, edits, review, stops, made, doubled, cut>>
  BY DEF Asks, household
<1>2. Asked(m, action, t) \in ChangeRows /\ Asked(m, action, t) # Nothing
  BY ChangeConstants DEF Asked, ChangeRows, ChangeActions
<1>3. ChangeTypes'
  BY <1>1, <1>2 DEF ChangesInv, ChangeTypes, Unassigned
<1>4. \A r \in Changes \ {q} : change'[r] = change[r]
  BY <1>1 DEF ChangesInv, ChangeTypes
<1>5. change'[q] = Asked(m, action, t) /\ change'[q].status = "asked"
  BY <1>1 DEF ChangesInv, ChangeTypes, Asked
<1>6. \A v \in Reviews : review[v] # Unassigned => review[v].of \in Changes \ {q}
  BY <1>1 DEF ChangesInv, ChangeTypes, ReviewInv, Filed
<1>7. ReviewInv'
  BY <1>1, <1>4, <1>6 DEF ChangesInv, ReviewInv, Filed, Pending, Done, Reviewing
<1>8. ApprovedIsMade'
  BY <1>1, <1>4, <1>5 DEF ChangesInv, ApprovedIsMade
<1>9. MadeOnce'
  BY <1>1, <1>4, <1>5, <1>6 DEF ChangesInv, MadeOnce, Approving, Reviewing, Unassigned
<1>10. DeletesThings'
  BY <1>1, <1>4, <1>5, ChangeConstants DEF ChangesInv, DeletesThings, MayAsk, Asked
<1> QED
  BY <1>3, <1>7, <1>8, <1>9, <1>10 DEF ChangesInv

LEMMA FilesKeeps ==
    ASSUME ChangesInv, NEW q \in Changes, Files(q)
    PROVE  ChangesInv'
<1>1. change[q] # Nothing /\ change[q].status = "asked"
      /\ change' = [change EXCEPT ![q].status = "pending"]
      /\ UNCHANGED <<owner, ended, edits, review, stops, made, doubled, cut>>
  BY DEF Files, household
<1>2. /\ change[q] \in ChangeRows
      /\ change'[q] = [change[q] EXCEPT !.status = "pending"]
      /\ \A r \in Changes \ {q} : change'[r] = change[r]
      /\ change' = [r \in Changes |-> change'[r]]
  BY <1>1 DEF ChangesInv, ChangeTypes
<1>3. /\ change'[q] \in ChangeRows /\ change'[q] # Nothing /\ change'[q].status = "pending"
      /\ change'[q].action = change[q].action /\ change'[q].member = change[q].member
      /\ change'[q].target = change[q].target
  BY <1>2, ChangeConstants DEF ChangeRows
<1>4. \A v \in Reviews : review[v] # Unassigned => review[v].of \in Changes \ {q}
  BY <1>1 DEF ChangesInv, ChangeTypes, ReviewInv, Filed
<1>5. ChangeTypes'
  BY <1>1, <1>2, <1>3 DEF ChangesInv, ChangeTypes, Unassigned
<1>6. ReviewInv'
  BY <1>1, <1>2, <1>4 DEF ChangesInv, ReviewInv, Filed, Pending, Done, Reviewing
<1>7. ApprovedIsMade'
  BY <1>1, <1>2, <1>3 DEF ChangesInv, ApprovedIsMade
<1>8. MadeOnce'
  BY <1>1, <1>2, <1>3, <1>4 DEF ChangesInv, MadeOnce, Approving, Reviewing, Unassigned
<1>9. DeletesThings'
  BY <1>1, <1>2, <1>3 DEF ChangesInv, DeletesThings
<1> QED
  BY <1>5, <1>6, <1>7, <1>8, <1>9 DEF ChangesInv

LEMMA StartsReviewKeeps ==
    ASSUME ChangesInv, NEW q \in Changes, NEW v \in Reviews, NEW verdict \in {"approved", "rejected"},
           StartsReview(v, q, verdict)
    PROVE  ChangesInv'
<1> DEFINE r == [at |-> FirstWrite(verdict), of |-> q, verdict |-> verdict]
<1>1. /\ review[v] = Unassigned /\ Pending(q)
      /\ review' = [review EXCEPT ![v] = r]
      /\ doubled' = IF \E w \in Reviews : Reviewing(w, q) THEN doubled \cup {q} ELSE doubled
      /\ UNCHANGED <<owner, ended, edits, change, stops, made, cut>>
  BY DEF StartsReview, household
<1>2. r \in [at : {"apply", "mark"}, of : Changes, verdict : {"approved", "rejected"}]
  BY DEF FirstWrite
<1>3. /\ r.of = q /\ r.verdict = verdict
      /\ r.at = "apply" => verdict = "approved"
      /\ ~(r.at = "mark" /\ verdict = "approved")
  BY DEF FirstWrite
<1> HIDE DEF r
<1>4. review'[v] = r /\ \A w \in Reviews \ {v} : review'[w] = review[w]
  BY <1>1 DEF ChangesInv, ChangeTypes
<1>5. ChangeTypes'
  BY <1>1, <1>2 DEF ChangesInv, ChangeTypes
<1>6. doubled \subseteq doubled'
  BY <1>1
<1>7. q \notin doubled' => \A w \in Reviews : review[w].of # q
  BY <1>1 DEF Reviewing
<1>8. ReviewInv'
  BY <1>1, <1>3, <1>4, <1>6, <1>7 DEF ChangesInv, ReviewInv, Filed, Pending, Done, Reviewing
<1>9. \A s \in Changes : Approving(s)' <=> Approving(s)
  BY <1>1, <1>3, <1>4, ChangeConstants DEF Approving, Reviewing, Unassigned
<1>10. ApprovedIsMade' /\ DeletesThings'
  BY <1>1 DEF ChangesInv, ApprovedIsMade, DeletesThings
<1>11. MadeOnce'
  BY <1>1, <1>6, <1>9 DEF ChangesInv, MadeOnce
<1> QED
  BY <1>5, <1>8, <1>10, <1>11 DEF ChangesInv

LEMMA AppliesKeeps ==
    ASSUME ChangesInv, NEW v \in Reviews, Applies(v)
    PROVE  ChangesInv'
<1>0. PICK q \in Changes : q = review[v].of
  BY DEF Applies, ChangesInv, ChangeTypes, Unassigned
<1>1. /\ review[v].at = "apply" /\ Makes(change[q])
      /\ made' = [made EXCEPT ![q] = @ + 1]
      /\ review' = [review EXCEPT ![v].at = "mark"]
      /\ UNCHANGED <<edits, change, stops, doubled, cut>>
  BY <1>0 DEF Applies
<1>2. /\ review[v] \in [at : {"apply", "mark"}, of : Changes, verdict : {"approved", "rejected"}]
      /\ review[v] # Unassigned /\ review[v].verdict = "approved" /\ Filed(q) /\ q \in Changes
  BY <1>0, <1>1 DEF ChangesInv, ChangeTypes, ReviewInv, Unassigned
<1>3. /\ review'[v] = [review[v] EXCEPT !.at = "mark"]
      /\ \A w \in Reviews \ {v} : review'[w] = review[w]
      /\ review' = [w \in Reviews |-> review'[w]]
  BY <1>1 DEF ChangesInv, ChangeTypes
<1>4. /\ review'[v].of = q /\ review'[v].at = "mark" /\ review'[v].verdict = "approved"
      /\ review'[v] \in [at : {"apply", "mark"}, of : Changes, verdict : {"approved", "rejected"}]
  BY <1>0, <1>2, <1>3
<1>5. change[q] \in ChangeRows
  BY <1>2 DEF ChangesInv, ChangeTypes, Filed
<1>6. /\ owner' \in [Things -> Residents \cup {Nothing}] /\ ended' \subseteq Things
      /\ ended \subseteq ended'
      /\ \A t \in Things : owner[t] # Nothing => owner'[t] = owner[t]
      /\ change[q].action = "delete" => change[q].target \in ended'
  <2>1. change[q].action = "delete" => change[q].target \in Things
    BY <1>2 DEF ChangesInv, DeletesThings, Filed
  <2>2. CASE change[q].action = "create" /\ Creates(change[q].member)
    BY <2>2, <1>5 DEF Creates, ChangesInv, ChangeTypes, ChangeRows
  <2>3. CASE change[q].action = "update" /\ UNCHANGED <<owner, ended>>
    BY <2>3 DEF ChangesInv, ChangeTypes
  <2>4. CASE change[q].action = "delete" /\ Archives(change[q].target)
    BY <2>1, <2>4 DEF Archives, ChangesInv, ChangeTypes
  <2> QED
    BY <1>1, <2>2, <2>3, <2>4 DEF Makes
<1>7. made' \in [Changes -> Nat] /\ made'[q] = made[q] + 1 /\ made'[q] >= 1
      /\ \A r \in Changes : made'[r] >= made[r] /\ (r # q => made'[r] = made[r])
  BY <1>1, <1>2 DEF ChangesInv, ChangeTypes
<1>8. \A r \in Changes : Done(r) => Done(r)'
  BY <1>1, <1>6, <1>7 DEF Done, ChangesInv, ChangeTypes
<1>9. Done(q)'
  BY <1>1, <1>6, <1>7 DEF Done
<1>10. ChangeTypes'
  BY <1>1, <1>3, <1>4, <1>6, <1>7 DEF ChangesInv, ChangeTypes
<1>11. \A w \in Reviews : review'[w] # Unassigned => review[w] # Unassigned /\ review'[w].of = review[w].of
          /\ review[w].of \in Changes
  BY <1>0, <1>2, <1>3, <1>4 DEF ChangesInv, ChangeTypes
<1>12. \A w \in Reviews, r \in Changes : Reviewing(w, r)' <=> Reviewing(w, r)
  BY <1>0, <1>3, <1>4 DEF Reviewing
<1>13. ReviewInv'
  <2> SUFFICES ASSUME NEW w \in Reviews, review'[w] # Unassigned, NEW x \in Changes, x = review'[w].of PROVE
        /\ Filed(x)'
        /\ review'[w].at = "apply" => review'[w].verdict = "approved"
        /\ review'[w].at = "mark" /\ review'[w].verdict = "approved" => Done(x)'
        /\ x \notin doubled' => Pending(x)' /\ \A u \in Reviews : Reviewing(u, x)' => u = w
    BY <1>11 DEF ReviewInv, Filed, Done, Pending, Reviewing
  <2>1. /\ Filed(x)' <=> Filed(x)
        /\ Pending(x)' <=> Pending(x)
    BY <1>1 DEF Filed, Pending
  <2>2. review[w] # Unassigned /\ x = review[w].of
    BY <1>11
  <2>3. Filed(x) /\ (x \notin doubled' => Pending(x) /\ \A u \in Reviews : Reviewing(u, x)' => u = w)
    BY <2>2, <1>1, <1>12 DEF ChangesInv, ReviewInv
  <2>4. CASE w = v
    BY <2>1, <2>2, <2>3, <2>4, <1>0, <1>4, <1>9
  <2>5. CASE w # v
    BY <2>1, <2>2, <2>3, <2>5, <1>3, <1>8 DEF ChangesInv, ReviewInv
  <2> QED
    BY <2>4, <2>5
<1>14. ApprovedIsMade'
  BY <1>1, <1>8 DEF ChangesInv, ApprovedIsMade, Done
<1>15. DeletesThings'
  BY <1>1, <1>6, ChangeConstants DEF ChangesInv, DeletesThings, ChangeTypes, ChangeRows
<1>16. MadeOnce'
  <2> SUFFICES ASSUME NEW r \in Changes, r \notin doubled \cup cut PROVE
        made'[r] = IF change'[r] # Nothing /\ (change'[r].status = "approved" \/ Approving(r)')
                   THEN 1 ELSE 0
    BY <1>1 DEF MadeOnce
  <2>1. made[r] = IF change[r] # Nothing /\ (change[r].status = "approved" \/ Approving(r)) THEN 1 ELSE 0
    BY DEF ChangesInv, MadeOnce
  <2>2. CASE r = q
    <3>1. Pending(q) /\ \A w \in Reviews : Reviewing(w, q) => w = v
      BY <1>0, <1>2, <2>2 DEF ChangesInv, ReviewInv
    <3>2. ~Approving(q) /\ change[q].status = "pending" /\ change[q] # Nothing
      BY <3>1, <1>1 DEF Approving, Pending
    <3>3. Approving(q)'
      BY <1>4 DEF Approving, Reviewing
    <3> QED
      BY <2>1, <2>2, <3>2, <3>3, <1>1, <1>7
  <2>3. CASE r # q
    <3>1. Approving(r)' <=> Approving(r)
      BY <2>3, <1>0, <1>3, <1>4 DEF Approving, Reviewing
    <3> QED
      BY <2>1, <2>3, <3>1, <1>1, <1>7
  <2> QED
    BY <2>2, <2>3
<1> QED
  BY <1>10, <1>13, <1>14, <1>15, <1>16 DEF ChangesInv

LEMMA MarksKeeps ==
    ASSUME ChangesInv, NEW v \in Reviews, Marks(v)
    PROVE  ChangesInv'
<1>0. PICK q \in Changes, s \in {"approved", "rejected"} : q = review[v].of /\ s = review[v].verdict
  BY DEF Marks, ChangesInv, ChangeTypes, Unassigned
<1>1. /\ review[v].at = "mark"
      /\ change' = [change EXCEPT ![q].status = s]
      /\ review' = [review EXCEPT ![v] = Unassigned]
      /\ UNCHANGED <<owner, ended, edits, stops, made, doubled, cut>>
  BY <1>0 DEF Marks, household
<1>2. /\ review[v] # Unassigned /\ Filed(q) /\ q \in Changes /\ s \in {"approved", "rejected"}
      /\ s = "approved" => Done(q)
      /\ q \notin doubled => Pending(q) /\ \A w \in Reviews : Reviewing(w, q) => w = v
  BY <1>0, <1>1 DEF ChangesInv, ChangeTypes, ReviewInv, Unassigned
<1>3. Reviewing(v, q) /\ (s = "approved" => Approving(q))
  BY <1>0, <1>1 DEF Reviewing, Approving
<1>4. review'[v] = Unassigned /\ \A w \in Reviews \ {v} : review'[w] = review[w]
  BY <1>1 DEF ChangesInv, ChangeTypes
<1>5. /\ change[q] \in ChangeRows
      /\ change'[q] = [change[q] EXCEPT !.status = s]
      /\ \A r \in Changes \ {q} : change'[r] = change[r]
      /\ change' = [r \in Changes |-> change'[r]]
  BY <1>1, <1>2 DEF ChangesInv, ChangeTypes, Filed
<1>6. /\ change'[q] \in ChangeRows /\ change'[q] # Nothing /\ change'[q].status = s
      /\ change'[q].action = change[q].action /\ change'[q].member = change[q].member
      /\ change'[q].target = change[q].target
  BY <1>2, <1>5, ChangeConstants DEF ChangeRows
<1>7. ChangeTypes'
  BY <1>1, <1>5, <1>6 DEF ChangesInv, ChangeTypes
<1>8. \A r \in Changes : Done(r)' <=> Done(r)
  BY <1>1, <1>5, <1>6 DEF Done
<1>9. \A r \in Changes : Filed(r) => Filed(r)'
  BY <1>2, <1>5, <1>6 DEF Filed
<1>10. ReviewInv'
  <2> SUFFICES ASSUME NEW w \in Reviews \ {v}, review[w] # Unassigned, NEW x \in Changes, x = review[w].of PROVE
        /\ Filed(x)'
        /\ review[w].at = "apply" => review[w].verdict = "approved"
        /\ review[w].at = "mark" /\ review[w].verdict = "approved" => Done(x)'
        /\ x \notin doubled => Pending(x)' /\ \A u \in Reviews : Reviewing(u, x)' => u = w
    <3>1. \A w \in Reviews : review[w] # Unassigned => review[w].of \in Changes
      BY DEF ChangesInv, ChangeTypes
    <3> QED
      BY <3>1, <1>1, <1>4 DEF ReviewInv, Filed, Done, Pending, Reviewing
  <2>1. x \notin doubled => x # q
    BY <1>2 DEF Reviewing
  <2>2. x \notin doubled => Pending(x)'
    BY <2>1, <1>5 DEF ChangesInv, ReviewInv, Pending
  <2>3. x \notin doubled => \A u \in Reviews : Reviewing(u, x)' => u = w
    BY <1>4, ChangeConstants DEF ChangesInv, ReviewInv, Reviewing, Unassigned
  <2> QED
    BY <2>2, <2>3, <1>8, <1>9 DEF ChangesInv, ReviewInv
<1>11. ApprovedIsMade'
  BY <1>1, <1>2, <1>5, <1>6, <1>8 DEF ChangesInv, ApprovedIsMade, Done
<1>12. DeletesThings'
  BY <1>1, <1>2, <1>5, <1>6 DEF ChangesInv, DeletesThings, Filed
<1>13. MadeOnce'
  <2> SUFFICES ASSUME NEW r \in Changes, r \notin doubled \cup cut PROVE
        made[r] = IF change'[r] # Nothing /\ (change'[r].status = "approved" \/ Approving(r)')
                   THEN 1 ELSE 0
    BY <1>1 DEF MadeOnce
  <2>1. made[r] = IF change[r] # Nothing /\ (change[r].status = "approved" \/ Approving(r)) THEN 1 ELSE 0
    BY DEF ChangesInv, MadeOnce
  <2>2. CASE r = q
    <3>1. change[q] # Nothing /\ change[q].status = "pending"
          /\ \A w \in Reviews : Reviewing(w, q) => w = v
      BY <1>2, <2>2 DEF Pending
    <3>2. Approving(q) => s = "approved"
      BY <3>1, <1>0 DEF Approving
    <3>3. ~Approving(q)'
      BY <3>1, <1>2, <1>4, ChangeConstants DEF Approving, Reviewing, Unassigned
    <3> QED
      BY <2>1, <2>2, <3>1, <3>2, <3>3, <1>2, <1>3, <1>6
  <2>3. CASE r # q
    <3>1. Approving(r)' <=> Approving(r)
      BY <2>3, <1>0, <1>4, ChangeConstants DEF Approving, Reviewing, Unassigned
    <3> QED
      BY <2>1, <2>3, <3>1, <1>5
  <2> QED
    BY <2>2, <2>3
<1> QED
  BY <1>7, <1>10, <1>11, <1>12, <1>13 DEF ChangesInv

LEMMA StopsReviewKeeps ==
    ASSUME ChangesInv, NEW v \in Reviews, StopsReview(v)
    PROVE  ChangesInv'
<1> DEFINE q == review[v].of
<1>1. /\ review[v] # Unassigned /\ stops < MaxStops /\ stops' = stops + 1
      /\ cut' = IF review[v].at = "mark" /\ review[v].verdict = "approved" THEN cut \cup {q} ELSE cut
      /\ review' = [review EXCEPT ![v] = Unassigned]
      /\ UNCHANGED <<owner, ended, edits, change, made, doubled>>
  BY DEF StopsReview, household
<1>2. review'[v] = Unassigned /\ \A w \in Reviews \ {v} : review'[w] = review[w]
  BY <1>1 DEF ChangesInv, ChangeTypes
<1>3. q \in Changes
  BY <1>1 DEF ChangesInv, ChangeTypes
<1>4. ChangeTypes'
  BY <1>1, <1>3, ChangeConstants DEF ChangesInv, ChangeTypes
<1>5. ReviewInv'
  BY <1>1, <1>2, ChangeConstants
  DEF ChangesInv, ChangeTypes, ReviewInv, Filed, Pending, Done, Reviewing, Unassigned
<1>6. ApprovedIsMade' /\ DeletesThings'
  BY <1>1 DEF ChangesInv, ApprovedIsMade, DeletesThings
<1>7. \A r \in Changes : r \notin cut' => r \notin cut /\ (Approving(r)' <=> Approving(r))
  BY <1>1, <1>2, ChangeConstants DEF Approving, Reviewing, Unassigned
<1>8. MadeOnce'
  BY <1>1, <1>7 DEF ChangesInv, MadeOnce
<1> QED
  BY <1>4, <1>5, <1>6, <1>8 DEF ChangesInv

\* A manager's own edit leaves the changes and their reviews alone.
LEMMA EditsKeep ==
    ASSUME ChangesInv, NEW t \in Things, EndsRecord(t) \/ \E m \in Residents : GivesTo(t, m)
    PROVE  ChangesInv'
<1>1. /\ edits < MaxEdits /\ edits' = edits + 1
      /\ UNCHANGED <<change, review, stops, made, doubled, cut>>
  BY DEF EndsRecord, GivesTo, Edits
<1>2. /\ owner' \in [Things -> Residents \cup {Nothing}] /\ ended' \subseteq Things
      /\ ended \subseteq ended'
  <2>1. CASE EndsRecord(t)
    BY <2>1 DEF EndsRecord, ChangesInv, ChangeTypes
  <2>2. CASE \E m \in Residents : GivesTo(t, m)
    <3>1. PICK m \in Residents : GivesTo(t, m)
      BY <2>2
    <3>2. /\ owner' = [owner EXCEPT ![t] = m] /\ UNCHANGED ended
      BY <3>1 DEF GivesTo
    <3>3. owner[t] \in Residents \cup {Nothing}
      BY DEF ChangesInv, ChangeTypes
    <3> QED
      BY <3>2, <3>3 DEF ChangesInv, ChangeTypes
  <2> QED
    BY <2>1, <2>2
<1>3. ChangeTypes'
  BY <1>1, <1>2, ChangeConstants DEF ChangesInv, ChangeTypes
<1>4. ReviewInv'
  BY <1>1, <1>2 DEF ChangesInv, ReviewInv, Filed, Pending, Done, Reviewing
<1>5. ApprovedIsMade' /\ MadeOnce' /\ DeletesThings'
  BY <1>1, <1>2 DEF ChangesInv, ApprovedIsMade, MadeOnce, Approving, Reviewing, DeletesThings
<1> QED
  BY <1>3, <1>4, <1>5 DEF ChangesInv

LEMMA ChangesStep == ChangesInv /\ [ChangesNext]_changeVars => ChangesInv'
<1> SUFFICES ASSUME ChangesInv, [ChangesNext]_changeVars PROVE ChangesInv'
  OBVIOUS
<1>1. CASE ChangesNext
  BY <1>1, AsksKeeps, FilesKeeps, StartsReviewKeeps, AppliesKeeps, MarksKeeps, StopsReviewKeeps,
     EditsKeep DEF ChangesNext
<1>2. CASE UNCHANGED changeVars
  BY <1>2 DEF changeVars, household, ChangesInv, ChangeTypes, ReviewInv, ApprovedIsMade, MadeOnce,
     DeletesThings, Filed, Pending, Done, Reviewing, Approving
<1> QED
  BY <1>1, <1>2

\* Every row, record and review has its type: the household data and the rows of
\* hoa_member_change_requests (change-requests.ts).
THEOREM ChangesTyped == ChangesSpec => []ChangesTypeOK
<1>1. ChangesInv => ChangesTypeOK
  BY TypesOfChanges DEF ChangesInv
<1> QED
  BY <1>1, ChangesInitially, ChangesStep, PTL DEF ChangesSpec

\* A change is made once, when it is approved, for any number of residents, reviewers,
\* failures and direct edits (decide.post.ts).
THEOREM MadeOnceAlways == ChangesSpec => []MadeOnce
<1>1. ChangesInv => MadeOnce
  BY DEF ChangesInv
<1> QED
  BY <1>1, ChangesInitially, ChangesStep, PTL DEF ChangesSpec

\* No row ever reads approved without its change having been made (decide.post.ts).
THEOREM ApprovedIsMadeAlways == ChangesSpec => []ApprovedIsMade
<1>1. ChangesInv => ApprovedIsMade
  BY DEF ChangesInv
<1> QED
  BY <1>1, ChangesInitially, ChangesStep, PTL DEF ChangesSpec

-----------------------------------------------------------------------------
(* The parts side by side *)

OfficeInv ==
    ActionsInv /\ WalletInv /\ ExportInv /\ HandoverTypes /\ OnboardingInv /\ ChangesInv

LEMMA OfficeStarts == Init => OfficeInv
BY ActionsInitially, WalletStarts, ExportStart, HandoverTypesStart, OnboardingStart,
   ChangesInitially
   DEF Init, OfficeInv

LEMMA HandoverTypesStay == HandoverTypes /\ UNCHANGED transitionVars => HandoverTypes'
BY DEF transitionVars, HandoverTypes, TransitionTypeOK, PromotesSomebody

\* One part moves by a step of its own, the others stay.
LEMMA OfficeStep == OfficeInv /\ [Next]_vars => OfficeInv'
<1> SUFFICES ASSUME OfficeInv, [Next]_vars PROVE OfficeInv'
  OBVIOUS
<1>1. [ActionNext]_actionVars /\ [WalletNext]_walletVars
      /\ [OnboardingNext]_onboardingVars /\ [ChangesNext]_changeVars
  BY DEF Next, vars, InProposals, InWallet, InExporting, InHanding, InOnboarding, InAsking, Working
<1>2. \/ [ExportNext]_exportVars /\ UNCHANGED transitionVars
      \/ TransitionNext
  BY DEF Next, vars, InProposals, InWallet, InExporting, InHanding, InOnboarding, InAsking, Working,
         ExportNext
<1>3. ActionsInv' /\ WalletInv' /\ OnboardingInv' /\ ChangesInv'
  BY <1>1, ActionsStep, WalletKeeps, OnboardingStep, ChangesStep DEF OfficeInv
<1>4. ExportInv'
  BY <1>2, ExportsKeep, HandoverExports DEF OfficeInv
<1>5. HandoverTypes'
  BY <1>2, HandoverTypesKeep, HandoverTypesStay DEF OfficeInv
<1> QED
  BY <1>3, <1>4, <1>5 DEF OfficeInv

\* The assistant's actions and wallet, exports, transitions, invitations and change
\* requests are well typed, whichever of them moves.
THEOREM OfficeTyped == Spec => []TypeOK
<1>1. OfficeInv => TypeOK
  BY TypesOfChanges
     DEF OfficeInv, ActionsInv, ActionTypeInv, WalletInv, WalletTypes, ExportInv, HandoverTypes,
         OnboardingInv, TypeInv, ChangesInv, TypeOK
<1> QED
  BY <1>1, OfficeStarts, OfficeStep, PTL DEF Spec
=============================================================================
