------------------------- MODULE EmailSendQueueProofs -------------------------
(***************************************************************************)
(* The inductive invariant of EmailSendQueue is one, and the properties of *)
(* the queue follow from it, for any rows, runs, chunk size and bounds.    *)
(***************************************************************************)
EXTENDS EmailSendQueueInv, TLAPS

-----------------------------------------------------------------------------
(* Types *)

\* The helpers the actions are built from keep the types of what they write.
LEMMA GotoTypes ==
    ASSUME TypeOK, NEW w \in Runs, NEW next \in Live \cup {"off"}, Goto(w, next)
    PROVE  pc' \in [Runs -> Live \cup {"off"}]
  BY DEF TypeOK, Goto

LEMMA EndOrGotoTypes ==
    ASSUME TypeOK, NEW w \in Runs, NEW next \in Live \cup {"off"}, EndOrGoto(w, next)
    PROVE  /\ pc' \in [Runs -> Live \cup {"off"}]
           /\ kind' \in [Runs -> Kinds]
           /\ runAge' \in [Runs -> Nat]
<1>1. pc' \in [Runs -> Live \cup {"off"}]
  BY GotoTypes DEF EndOrGoto
<1>2. kind' \in [Runs -> Kinds]
  <2>1. kind' = [kind EXCEPT ![w] = "batch"] \/ kind' = kind
    BY DEF EndOrGoto
  <2>2. QED
    BY <2>1 DEF TypeOK, Kinds
<1>3. runAge' \in [Runs -> Nat]
  <2>1. runAge' = [runAge EXCEPT ![w] = 0] \/ runAge' = runAge
    BY DEF EndOrGoto
  <2>2. QED
    BY <2>1 DEF TypeOK
<1>4. QED
  BY <1>1, <1>2, <1>3

LEMMA SetTypes ==
    ASSUME TypeOK, NEW S, NEW new \in RowStatuses, NEW token \in Runs \cup {NoRun},
           Set(S, new, token)
    PROVE  /\ rowStatus' \in [Rows -> RowStatuses]
           /\ claim' \in [Rows -> Runs \cup {NoRun}]
           /\ claimAge' \in [Rows -> Ages]
  BY ConstantsAssumption DEF TypeOK, Set, Ages

LEMMA ForgetTypes ==
    ASSUME TypeOK, NEW w \in Runs, Forget(w)
    PROVE  /\ sel' \in [Runs -> SUBSET Rows]
           /\ plan' \in [Runs -> [Rows -> Plans]]
           /\ limited' \in [Runs -> BOOLEAN]
           /\ seen' \in [Runs -> BOOLEAN]
<1>1. NoPlan \in [Rows -> Plans]
  BY DEF NoPlan, Plans
<1>2. QED
  BY <1>1 DEF TypeOK, Forget

LEMMA PlanTypes ==
    ASSUME TypeOK, NEW w \in Runs, NEW p \in [Rows -> Plans], plan' = [plan EXCEPT ![w] = p]
    PROVE  plan' \in [Runs -> [Rows -> Plans]]
  BY DEF TypeOK

LEMMA SelTypes ==
    ASSUME TypeOK, NEW w \in Runs, NEW S \in SUBSET Rows, sel' = [sel EXCEPT ![w] = S]
    PROVE  sel' \in [Runs -> SUBSET Rows]
  BY DEF TypeOK

LEMMA InitTypes == Init => TypeOK
  BY ConstantsAssumption DEF Init, TypeOK, RowStatuses, Kinds, Ages, NoPlan, Plans, Live

LEMMA StepTypes == TypeOK /\ [Next]_vars => TypeOK'
<1> SUFFICES ASSUME TypeOK, [Next]_vars PROVE TypeOK'
  OBVIOUS
<1> USE DEF leaseVars, rowVars, chunkVars, extVars, histVars
<1>p. Acquiring \cup Leased \cup {"list", "off"} = Live \cup {"off"}
  BY DEF Live
<1>q. /\ InChunk \subseteq Leased
      /\ {"entry", "expire", "expireWrite", "first", "loop", "count", "complete", "move",
          "leave", "quit"} \subseteq Leased
  BY DEF Leased
<1>n. NoRun \in Runs \cup {NoRun}
  OBVIOUS
<1>1. ASSUME NEW w \in Runs, StartBatch(w) \/ StartFinish(w) \/ StartResume(w)
      PROVE TypeOK'
  BY <1>1, GotoTypes, <1>p DEF StartBatch, StartFinish, StartResume, TypeOK, Kinds, Acquiring
<1>2. ASSUME NEW w \in Runs, Step(w) PROVE TypeOK'
  <2>1. CASE CountUnvisited(w)
    BY <2>1, EndOrGotoTypes, <1>p DEF CountUnvisited, AnySent, NothingLeft, TypeOK, Acquiring
  <2>2. CASE TryLease(w)
    <3>1. lease' \in Runs \cup {NoRun} /\ leaseAge' \in Ages
      BY <2>2, ConstantsAssumption DEF TryLease, InsertLease, TypeOK, Ages
    <3>2. EndOrGoto(w, "entry") \/ EndOrGoto(w, "readLease")
      BY <2>2 DEF TryLease, InsertLease
    <3>3. QED
      BY <2>2, <3>1, <3>2, EndOrGotoTypes, <1>p, <1>q DEF TryLease, TypeOK, Acquiring
  <2>3. CASE ReadLease(w)
    <3> DEFINE next == IF lease = NoRun THEN "retry"
                       ELSE IF IsStale(leaseAge) THEN "breakLease" ELSE "off"
    <3>1. next \in Live \cup {"off"}
      BY <1>p DEF Acquiring
    <3>2. EndOrGoto(w, next) /\ held' \in [Runs -> Runs \cup {NoRun}]
      BY <2>3 DEF ReadLease, TypeOK
    <3> HIDE DEF next
    <3>3. QED
      BY <2>3, <3>1, <3>2, EndOrGotoTypes DEF ReadLease, TypeOK
  <2>4. CASE BreakLease(w)
    <3>1. "retry" \in Live \cup {"off"}
      BY <1>p DEF Acquiring
    <3>2. leaseAge' \in Ages
      BY <2>4, ConstantsAssumption DEF BreakLease, TypeOK, Ages
    <3>3. QED
      BY <2>4, <3>1, <3>2, GotoTypes DEF BreakLease, TypeOK
  <2>5. CASE RetryLease(w)
    <3>1. lease' \in Runs \cup {NoRun} /\ leaseAge' \in Ages
      BY <2>5, ConstantsAssumption DEF RetryLease, InsertLease, TypeOK, Ages
    <3>2. EndOrGoto(w, "entry") \/ EndOrGoto(w, "off")
      BY <2>5 DEF RetryLease, InsertLease
    <3>3. QED
      BY <2>5, <3>1, <3>2, EndOrGotoTypes, <1>p, <1>q DEF RetryLease, TypeOK
  <2>6. CASE ReleaseLease(w)
    <3>1. lease' \in Runs \cup {NoRun} /\ leaseAge' \in Ages
      BY <2>6, ConstantsAssumption DEF ReleaseLease, TypeOK, Ages
    <3>2. \/ EndOrGoto(w, "off")
          \/ Goto(w, "start") /\ kind' = [kind EXCEPT ![w] = "health"] /\ UNCHANGED runAge
      BY <2>6 DEF ReleaseLease
    <3>3. /\ pc' \in [Runs -> Live \cup {"off"}]
          /\ kind' \in [Runs -> Kinds]
          /\ runAge' \in [Runs -> Nat]
      BY <3>2, EndOrGotoTypes, GotoTypes, <1>p DEF TypeOK, Kinds, Acquiring
    <3>4. QED
      BY <2>6, <3>1, <3>3, ForgetTypes DEF ReleaseLease, TypeOK
  <2>7. CASE EnterBatch(w)
    BY <2>7, GotoTypes, <1>p, <1>q DEF EnterBatch, TypeOK
  <2>8. CASE EnterHealth(w)
    BY <2>8, GotoTypes, <1>p, <1>q DEF EnterHealth, TypeOK
  <2>9. CASE EnterResume(w)
    BY <2>9, GotoTypes, <1>p, <1>q DEF EnterResume, TypeOK
  <2>10. CASE EnterFinish(w)
    BY <2>10, GotoTypes, <1>p, <1>q DEF EnterFinish, TypeOK
  <2>11. CASE MoveEmail(w)
    BY <2>11, GotoTypes, <1>p, <1>q DEF MoveEmail, TypeOK
  <2>12. CASE ExpireSelect(w)
    BY <2>12, GotoTypes, SelTypes, <1>p, <1>q DEF ExpireSelect, TypeOK
  <2>13. CASE ExpireWrite(w)
    BY <2>13, GotoTypes, SelTypes, SetTypes, <1>n, <1>p, <1>q DEF ExpireWrite, TypeOK, RowStatuses
  <2>14. CASE FirstCounts(w)
    <3>1. Goto(w, "complete") \/ Goto(w, "loop") \/ Goto(w, "leave")
      BY <2>14 DEF FirstCounts, NothingLeft
    <3>2. pc' \in [Runs -> Live \cup {"off"}]
      BY <3>1, GotoTypes, <1>p, <1>q
    <3> DEFINE b == NothingLeft /\ AnySent
    <3>3. b \in BOOLEAN
      BY DEF AnySent, NothingLeft
    <3>4. seen' = [seen EXCEPT ![w] = b] \/ seen' = seen
      BY <2>14 DEF FirstCounts, NothingLeft
    <3>5. faults' \in Nat
      BY <2>14 DEF FirstCounts, TypeOK
    <3>6. UNCHANGED <<status, leaseVars, rowVars, kind, runAge, sel, plan, limited,
                      extVars, histVars>>
      BY <2>14 DEF FirstCounts, NothingLeft
    <3> HIDE DEF b
    <3>7. seen' \in [Runs -> BOOLEAN]
      BY <3>3, <3>4 DEF TypeOK
    <3>8. QED
      BY <3>2, <3>5, <3>6, <3>7 DEF TypeOK
  <2>15. CASE ReadQueued(w)
    <3> DEFINE p == [r \in Rows |-> IF r \in NextChunk THEN "ready" ELSE "none"]
    <3>1. p \in [Rows -> Plans]
      BY DEF Plans
    <3>2. plan' = [plan EXCEPT ![w] = p] \/ plan' = plan
      BY <2>15 DEF ReadQueued
    <3> HIDE DEF p
    <3>3. plan' \in [Runs -> [Rows -> Plans]]
      BY <3>1, <3>2, PlanTypes DEF TypeOK
    <3>4. Goto(w, "leave") \/ Goto(w, "count") \/ Goto(w, "claim")
      BY <2>15 DEF ReadQueued
    <3>5. pc' \in [Runs -> Live \cup {"off"}]
      BY <3>4, GotoTypes, <1>p, <1>q DEF InChunk
    <3>6. QED
      BY <2>15, <3>3, <3>5 DEF ReadQueued, TypeOK
  <2>16. CASE ClaimSelect(w)
    BY <2>16, GotoTypes, SelTypes, <1>p, <1>q DEF ClaimSelect, Queued, TypeOK, InChunk
  <2>17. CASE ClaimWrite(w)
    BY <2>17, GotoTypes, SelTypes, SetTypes, <1>p, <1>q
    DEF ClaimWrite, TypeOK, RowStatuses, InChunk
  <2>18. CASE ReadBack(w)
    BY <2>18, GotoTypes, SelTypes, <1>p, <1>q DEF ReadBack, ClaimedBy, TypeOK, InChunk
  <2>19. CASE Recheck(w)
    <3>1. PICK bad \in SUBSET sel[w] : plan' = [plan EXCEPT ![w] = [r \in Rows |->
            IF r \notin sel[w] THEN "none"
            ELSE IF plan[w][r] # "ready" THEN "back"
            ELSE IF r \in bad THEN "failed"
            ELSE IF Suppressed(r) THEN "suppressed" ELSE "todo"]]
      BY <2>19 DEF Recheck
    <3>2. plan' \in [Runs -> [Rows -> Plans]]
      BY <3>1, PlanTypes DEF Plans, Outcomes
    <3>3. QED
      BY <2>19, <3>2, GotoTypes, SelTypes, <1>p, <1>q DEF Recheck, TypeOK, InChunk
  <2>20. CASE EndDeliver(w)
    <3>1. [r \in Rows |-> IF plan[w][r] = "todo" THEN "back" ELSE plan[w][r]]
            \in [Rows -> Plans]
      BY DEF Plans, TypeOK
    <3>2. QED
      BY <2>20, <3>1, PlanTypes, GotoTypes, <1>p, <1>q DEF EndDeliver, TypeOK, InChunk
  <2>21. CASE SettleSent(w)
    <3>1. [r \in Rows |-> IF plan[w][r] = "sent" THEN "none" ELSE plan[w][r]]
            \in [Rows -> Plans]
      BY DEF Plans, TypeOK
    <3>2. QED
      BY <2>21, <3>1, PlanTypes, SetTypes, <1>n DEF SettleSent, TypeOK, RowStatuses
  <2>22. CASE SettleSelect(w)
    <3>1. PICK p \in Outcomes :
            sel' = [sel EXCEPT ![w] = {r \in Planned(w, p) : rowStatus[r] = "claimed"}]
      BY <2>22 DEF SettleSelect
    <3>2. sel' \in [Runs -> SUBSET Rows]
      BY <3>1, SelTypes DEF Planned
    <3>3. QED
      BY <2>22, <3>2, GotoTypes, <1>p, <1>q DEF SettleSelect, TypeOK, InChunk
  <2>23. CASE SettleWrite(w)
    <3>1. PICK p \in Outcomes :
            /\ Set(sel[w], p, NoRun)
            /\ plan' = [plan EXCEPT ![w] = [r \in Rows |->
                  IF plan[w][r] = p THEN "none" ELSE plan[w][r]]]
      BY <2>23 DEF SettleWrite
    <3>2. [r \in Rows |-> IF plan[w][r] = p THEN "none" ELSE plan[w][r]] \in [Rows -> Plans]
      BY DEF Plans, TypeOK
    <3>3. p \in RowStatuses
      BY DEF RowStatuses, Outcomes
    <3>4. QED
      BY <2>23, <3>1, <3>2, <3>3, PlanTypes, SelTypes, SetTypes, GotoTypes, <1>n, <1>p, <1>q
      DEF SettleWrite, TypeOK, InChunk
  <2>24. CASE SettleEnd(w)
    <3>1. Goto(w, "leave") \/ Goto(w, "loop") \/ Goto(w, "releaseWrite")
      BY <2>24 DEF SettleEnd, AfterChunk
    <3>2. pc' \in [Runs -> Live \cup {"off"}]
      BY <3>1, GotoTypes, <1>p, <1>q DEF InChunk
    <3>3. QED
      BY <2>24, <3>2, SelTypes DEF SettleEnd, Planned, TypeOK
  <2>25. CASE AbandonSelect(w)
    BY <2>25, GotoTypes, SelTypes, <1>p, <1>q DEF AbandonSelect, ClaimedBy, TypeOK, InChunk
  <2>26. CASE ReleaseRows(w)
    <3>1. (IF pc[w] = "releaseWrite" THEN AfterChunk(w) ELSE "leave") \in Live \cup {"off"}
      BY <1>p, <1>q DEF AfterChunk
    <3>2. NoPlan \in [Rows -> Plans]
      BY DEF NoPlan, Plans
    <3>3. QED
      BY <2>26, <3>1, <3>2, GotoTypes, SelTypes, SetTypes, PlanTypes, <1>n
      DEF ReleaseRows, TypeOK, RowStatuses
  <2>27. CASE LastCounts(w)
    BY <2>27, GotoTypes, <1>p, <1>q DEF LastCounts, AnySent, NothingLeft, TypeOK
  <2>28. CASE CompleteSend(w)
    BY <2>28, GotoTypes, <1>p, <1>q DEF CompleteSend, TypeOK
  <2>29. ASSUME NEW r \in Rows, Deliver(w, r) PROVE TypeOK'
    <3>1. \A p \in Plans : [plan EXCEPT ![w][r] = p] \in [Runs -> [Rows -> Plans]]
      BY DEF TypeOK
    <3>2. plan' \in [Runs -> [Rows -> Plans]]
      BY <2>29, <3>1 DEF Deliver, IfAccepted, IfNotAccepted, Plans, Outcomes
    <3>3. limited' \in [Runs -> BOOLEAN]
      BY <2>29 DEF Deliver, TypeOK
    <3>4. faults' \in Nat
      BY <2>29 DEF Deliver, TypeOK
    <3>5. mails' \in [Rows -> Nat]
      <4>1. mails' = [mails EXCEPT ![r] = mails[r] + 1] \/ mails' = mails
        BY <2>29 DEF Deliver
      <4>2. QED
        BY <4>1 DEF TypeOK
    <3>6. UNCHANGED <<status, leaseVars, rowVars, pc, kind, runAge, sel, seen, extVars,
                      outAtClaim>>
      BY <2>29 DEF Deliver
    <3>7. QED
      BY <3>2, <3>3, <3>4, <3>5, <3>6 DEF TypeOK
  <2>30. QED
    BY <1>2, <2>1, <2>2, <2>3, <2>4, <2>5, <2>6, <2>7, <2>8, <2>9, <2>10, <2>11, <2>12,
       <2>13, <2>14, <2>15, <2>16, <2>17, <2>18, <2>19, <2>20, <2>21, <2>22, <2>23, <2>24,
       <2>25, <2>26, <2>27, <2>28, <2>29 DEF Step
<1>3. ASSUME NEW w \in Runs, Kill(w) PROVE TypeOK'
  <2>1. "off" \in Live \cup {"off"}
    OBVIOUS
  <2>2. QED
    BY <1>3, <2>1, EndOrGotoTypes, ForgetTypes DEF Kill, TypeOK
<1>4. ASSUME NEW w \in Runs, Fail(w) PROVE TypeOK'
  <2>1. Goto(w, "abandon") \/ Goto(w, "leave") \/ Goto(w, "quit")
    BY <1>4 DEF Fail
  <2>2. pc' \in [Runs -> Live \cup {"off"}]
    BY <2>1, GotoTypes, <1>p, <1>q DEF InChunk
  <2>3. QED
    BY <1>4, <2>2 DEF Fail, TypeOK
<1>5. ASSUME NEW r \in Rows, WebhookRead(r) PROVE TypeOK'
  BY <1>5 DEF WebhookRead, TypeOK
<1>6. ASSUME NEW r \in Rows, WebhookWrite(r) PROVE TypeOK'
  BY <1>6, SetTypes, <1>n DEF WebhookWrite, TypeOK, RowStatuses
<1>7. ASSUME NEW r \in Rows, OptOut(r) PROVE TypeOK'
  BY <1>7, ConstantsAssumption DEF OptOut, TypeOK
<1>8. CASE Tick
  <2>1. \A a \in Ages : Older(a) \in Ages /\ 0 \in Ages
    BY ConstantsAssumption DEF Ages, Older
  <2>2. QED
    BY <1>8, <2>1, ConstantsAssumption DEF Tick, TypeOK, Ages
<1>9. CASE UNCHANGED vars
  BY <1>9 DEF vars, TypeOK
<1>10. QED
  BY <1>1, <1>2, <1>3, <1>4, <1>5, <1>6, <1>7, <1>8, <1>9 DEF Next, Webhook, Start

\* Every variable keeps its type: the columns and the runs' own memory hold
\* nothing else.
THEOREM TypeCorrect == Spec => []TypeOK
  BY InitTypes, StepTypes, PTL DEF Spec

-----------------------------------------------------------------------------
(* Steps *)

\* What a step of w leaves of the other runs.
Alone(w) == \A v \in Runs \ {w} :
    pc'[v] = pc[v] /\ kind'[v] = kind[v] /\ sel'[v] = sel[v] /\ plan'[v] = plan[v]

-----------------------------------------------------------------------------
(* What the helpers and the steps leave alone. *)

LEMMA GotoAt ==
    ASSUME TypeOK, NEW w \in Runs, NEW next, Goto(w, next)
    PROVE  /\ pc'[w] = next
           /\ \A v \in Runs \ {w} : pc'[v] = pc[v]
  BY DEF TypeOK, Goto

LEMMA EndOrGotoAt ==
    ASSUME TypeOK, NEW w \in Runs, NEW next, EndOrGoto(w, next)
    PROVE  /\ pc'[w] = next
           /\ runAge'[w] \in {0, runAge[w]}
           /\ next # "off" => UNCHANGED <<kind, runAge>>
           /\ \A v \in Runs \ {w} :
                pc'[v] = pc[v] /\ kind'[v] = kind[v] /\ runAge'[v] = runAge[v]
  BY GotoAt DEF TypeOK, EndOrGoto

LEMMA SetAt ==
    ASSUME NEW S, NEW new, NEW token, Set(S, new, token), NEW r \in Rows
    PROVE  /\ rowStatus'[r] = IF r \in S THEN new ELSE rowStatus[r]
           /\ claim'[r] = IF r \in S THEN token ELSE claim[r]
  BY DEF Set

LEMMA ForgetAt ==
    ASSUME TypeOK, NEW w \in Runs, Forget(w)
    PROVE  \A v \in Runs \ {w} : sel'[v] = sel[v] /\ plan'[v] = plan[v]
  BY DEF TypeOK, Forget

\* Before the lease a run writes nothing that others read but the lease.
LEMMA OutsideStep ==
    ASSUME NEW w \in Runs, Step(w), pc[w] \notin Leased
    PROVE  \/ CountUnvisited(w) \/ TryLease(w) \/ ReadLease(w) \/ BreakLease(w)
           \/ RetryLease(w)
<1>1. {"entry", "expire", "expireWrite", "first", "loop", "count", "complete", "move",
       "leave", "quit", "claim", "claimWrite", "readBack", "recheck", "deliver",
       "settle", "settleWrite", "releaseWrite", "abandon", "abandonWrite"} \subseteq Leased
  BY DEF Leased, InChunk
<1>2. QED
  BY <1>1 DEF Step, ReleaseLease, EnterBatch, EnterHealth, EnterResume, EnterFinish,
     MoveEmail, ExpireSelect, ExpireWrite, FirstCounts, ReadQueued, ClaimSelect, ClaimWrite,
     ReadBack, Recheck, EndDeliver, SettleSent, SettleSelect, SettleWrite, SettleEnd,
     AbandonSelect, ReleaseRows, LastCounts, CompleteSend, Deliver

\* With the lease in hand and until it is released, a run stays a holder and
\* does not touch the lease.
LEMMA InsideStep ==
    ASSUME TypeOK, NEW w \in Runs, Step(w) \/ Fail(w), pc[w] \in Leased, ~ReleaseLease(w)
    PROVE  pc'[w] \in Leased /\ UNCHANGED <<leaseVars, kind, runAge>>
<1> USE DEF leaseVars
<1>1. {"entry", "expire", "expireWrite", "first", "loop", "count", "complete", "move",
       "leave", "quit", "claim", "claimWrite", "readBack", "recheck", "deliver",
       "settle", "settleWrite", "releaseWrite", "abandon", "abandonWrite"} \subseteq Leased
  BY DEF Leased, InChunk
<1>2. pc[w] \notin {"list", "start", "readLease", "breakLease", "retry"}
  BY DEF Leased, InChunk
<1>3. ~CountUnvisited(w) /\ ~TryLease(w) /\ ~ReadLease(w) /\ ~BreakLease(w) /\ ~RetryLease(w)
  BY <1>2 DEF CountUnvisited, TryLease, ReadLease, BreakLease, RetryLease
<1>4. CASE EnterBatch(w) \/ EnterHealth(w) \/ EnterResume(w) \/ EnterFinish(w) \/ MoveEmail(w)
  <2>1. \/ Goto(w, "expire") \/ Goto(w, "quit") \/ Goto(w, "move") \/ Goto(w, "complete")
    BY <1>4 DEF EnterBatch, EnterHealth, EnterResume, EnterFinish, MoveEmail
  <2>2. QED
    BY <1>1, <1>4, <2>1, GotoAt
    DEF EnterBatch, EnterHealth, EnterResume, EnterFinish, MoveEmail
<1>5. CASE ExpireSelect(w) \/ ExpireWrite(w) \/ FirstCounts(w) \/ ReadQueued(w)
           \/ ClaimSelect(w) \/ ClaimWrite(w)
  <2>1. \/ Goto(w, "expireWrite") \/ Goto(w, "first") \/ Goto(w, "complete") \/ Goto(w, "loop")
        \/ Goto(w, "leave") \/ Goto(w, "count") \/ Goto(w, "claim") \/ Goto(w, "claimWrite")
        \/ Goto(w, "readBack")
    BY <1>5 DEF ExpireSelect, ExpireWrite, FirstCounts, ReadQueued, ClaimSelect, ClaimWrite
  <2>2. QED
    BY <1>1, <1>5, <2>1, GotoAt
    DEF ExpireSelect, ExpireWrite, FirstCounts, ReadQueued, ClaimSelect, ClaimWrite
<1>6. CASE ReadBack(w) \/ Recheck(w) \/ EndDeliver(w) \/ SettleSelect(w) \/ SettleWrite(w)
           \/ SettleEnd(w)
  <2>1. \/ Goto(w, "recheck") \/ Goto(w, "deliver") \/ Goto(w, "settle")
        \/ Goto(w, "settleWrite") \/ Goto(w, "leave") \/ Goto(w, "loop")
        \/ Goto(w, "releaseWrite")
    BY <1>6 DEF ReadBack, Recheck, EndDeliver, SettleSelect, SettleWrite, SettleEnd, AfterChunk
  <2>2. QED
    BY <1>1, <1>6, <2>1, GotoAt
    DEF ReadBack, Recheck, EndDeliver, SettleSelect, SettleWrite, SettleEnd
<1>7. CASE SettleSent(w) \/ \E r \in Rows : Deliver(w, r)
  BY <1>7 DEF SettleSent, Deliver
<1>8. CASE AbandonSelect(w) \/ ReleaseRows(w) \/ LastCounts(w) \/ CompleteSend(w) \/ Fail(w)
  <2>1. \/ Goto(w, "abandonWrite") \/ Goto(w, "leave") \/ Goto(w, "loop")
        \/ Goto(w, "complete") \/ Goto(w, "quit") \/ Goto(w, "abandon")
    BY <1>8 DEF AbandonSelect, ReleaseRows, LastCounts, CompleteSend, Fail, AfterChunk
  <2>2. QED
    BY <1>1, <1>8, <2>1, GotoAt DEF AbandonSelect, ReleaseRows, LastCounts, CompleteSend, Fail
<1>9. QED
  BY <1>3, <1>4, <1>5, <1>6, <1>7, <1>8 DEF Step

\* A run's step leaves the other runs where they are.
LEMMA StepAlone ==
    ASSUME TypeOK, NEW w \in Runs, Step(w) \/ Fail(w) \/ Kill(w) \/ Start(w)
    PROVE  Alone(w)
<1> USE DEF leaseVars, rowVars, chunkVars, extVars, histVars, Alone
<1>1. CASE CountUnvisited(w) \/ TryLease(w) \/ RetryLease(w) \/ Start(w)
  BY <1>1, EndOrGotoAt, GotoAt
  DEF CountUnvisited, TryLease, RetryLease, InsertLease, TypeOK, Start, StartBatch,
      StartFinish, StartResume
<1>2. CASE ReadLease(w) \/ BreakLease(w)
  BY <1>2, EndOrGotoAt, GotoAt DEF ReadLease, BreakLease, TypeOK
<1>3. CASE ReleaseLease(w) \/ Kill(w)
  <2>1. \A v \in Runs \ {w} : sel'[v] = sel[v] /\ plan'[v] = plan[v]
    BY <1>3, ForgetAt DEF ReleaseLease, Kill
  <2>2. \A v \in Runs \ {w} : pc'[v] = pc[v] /\ kind'[v] = kind[v]
    <3>1. CASE EndOrGoto(w, "off")
      BY <3>1, EndOrGotoAt
    <3>2. CASE Goto(w, "start") /\ kind' = [kind EXCEPT ![w] = "health"]
      BY <3>2, GotoAt DEF TypeOK
    <3>3. QED
      BY <1>3, <3>1, <3>2 DEF ReleaseLease, Kill
  <2>3. QED
    BY <2>1, <2>2
<1>4. CASE EnterBatch(w) \/ EnterHealth(w) \/ EnterResume(w) \/ EnterFinish(w) \/ MoveEmail(w)
           \/ CompleteSend(w) \/ LastCounts(w) \/ FirstCounts(w) \/ Fail(w)
  BY <1>4, GotoAt DEF EnterBatch, EnterHealth, EnterResume, EnterFinish, MoveEmail,
     CompleteSend, LastCounts, FirstCounts, Fail
<1>5. CASE ExpireSelect(w) \/ ExpireWrite(w) \/ ClaimSelect(w) \/ ClaimWrite(w) \/ ReadBack(w)
           \/ SettleSelect(w) \/ SettleEnd(w) \/ AbandonSelect(w)
  <2>1. \A v \in Runs \ {w} : sel'[v] = sel[v]
    BY <1>5 DEF ExpireSelect, ExpireWrite, ClaimSelect, ClaimWrite, ReadBack, SettleSelect,
       SettleEnd, AbandonSelect, TypeOK
  <2>2. QED
    BY <1>5, <2>1, GotoAt DEF ExpireSelect, ExpireWrite, ClaimSelect, ClaimWrite, ReadBack,
       SettleSelect, SettleEnd, AbandonSelect
<1>6. CASE ReadQueued(w) \/ Recheck(w) \/ EndDeliver(w) \/ SettleWrite(w) \/ ReleaseRows(w)
  <2>1. \A v \in Runs \ {w} : sel'[v] = sel[v]
    BY <1>6 DEF ReadQueued, Recheck, EndDeliver, SettleWrite, ReleaseRows, TypeOK
  <2>2. \A v \in Runs \ {w} : plan'[v] = plan[v]
    BY <1>6 DEF ReadQueued, Recheck, EndDeliver, SettleWrite, ReleaseRows, TypeOK
  <2>3. QED
    BY <1>6, <2>1, <2>2, GotoAt DEF ReadQueued, Recheck, EndDeliver, SettleWrite, ReleaseRows
<1>7. CASE SettleSent(w)
  BY <1>7 DEF SettleSent, TypeOK
<1>8. ASSUME NEW r \in Rows, Deliver(w, r) PROVE Alone(w)
  BY <1>8 DEF Deliver, TypeOK
<1>9. QED
  BY <1>1, <1>2, <1>3, <1>4, <1>5, <1>6, <1>7, <1>8 DEF Step

-----------------------------------------------------------------------------
(* Who holds the lease *)

\* A lease is broken only when its holder is dead.
LEMMA BreaksOnlyDead ==
    ASSUME TypeOK, LeaseInv, lease \in Runs, IsStale(leaseAge)
    PROVE  pc[lease] = "off"
<1>1. SUFFICES ASSUME pc[lease] \in Leased PROVE FALSE
  BY DEF LeaseInv
<1>2. leaseAge <= runAge[lease] /\ runAge[lease] <= MaxRun
  BY <1>1 DEF LeaseInv
<1>3. leaseAge \in Nat /\ runAge[lease] \in Nat
  BY ConstantsAssumption DEF TypeOK, Ages
<1>4. QED
  BY <1>2, <1>3, StaleAssumption, ConstantsAssumption DEF IsStale

LEMMA LeaseStep ==
    ASSUME TypeOK, LeaseInv, [Next]_vars
    PROVE  LeaseInv'
<1> USE DEF leaseVars, rowVars, chunkVars, extVars, histVars
<1>o. "off" \notin Leased /\ Acquiring \cap Leased = {} /\ "list" \notin Leased
      /\ "entry" \in Leased
  BY DEF Acquiring, Leased, InChunk
<1>0. NoRun \notin Runs /\ 0 <= MaxRun /\ MaxRun \in Nat
  BY ConstantsAssumption
<1>1. ASSUME NEW w \in Runs, Start(w) PROVE LeaseInv'
  <2>1. Alone(w) /\ UNCHANGED <<lease, leaseAge, held, runAge>>
    BY <1>1, StepAlone DEF Start, StartBatch, StartFinish, StartResume
  <2>2. pc[w] = "off" /\ lease # w /\ \A v \in Runs : held[v] # w
    BY <1>1 DEF Start, StartBatch, StartFinish, StartResume, Fresh
  <2>3. pc'[w] \notin Leased
    <3>1. Goto(w, "start") \/ Goto(w, "list")
      BY <1>1 DEF Start, StartBatch, StartFinish, StartResume
    <3>2. QED
      BY <3>1, <1>o, GotoAt DEF Acquiring
  <2>4. QED
    BY <2>1, <2>2, <2>3 DEF LeaseInv, Alone
<1>2. ASSUME NEW w \in Runs, Step(w) \/ Fail(w), pc[w] \in Leased, ~ReleaseLease(w)
      PROVE LeaseInv'
  <2>1. pc'[w] \in Leased /\ Alone(w) /\ UNCHANGED <<lease, leaseAge, held, runAge>>
    BY <1>2, InsideStep, StepAlone
  <2>2. \A v \in Runs : held[v] # w
    BY <1>2, <1>o DEF LeaseInv
  <2>3. QED
    BY <1>2, <2>1, <2>2 DEF LeaseInv, Alone, TypeOK
<1>3. ASSUME NEW w \in Runs, CountUnvisited(w) PROVE LeaseInv'
  <2>1. \E next \in {"start", "off"} : EndOrGoto(w, next)
    BY <1>3 DEF CountUnvisited
  <2>2. /\ pc'[w] \in {"start", "off"} /\ runAge'[w] \in {0, runAge[w]}
        /\ \A v \in Runs \ {w} : pc'[v] = pc[v] /\ runAge'[v] = runAge[v]
    BY <2>1, EndOrGotoAt
  <2>3. UNCHANGED <<lease, leaseAge, held>> /\ pc[w] = "list"
    BY <1>3 DEF CountUnvisited
  <2>4. QED
    BY <2>2, <2>3, <1>o, <1>0 DEF LeaseInv, Acquiring
<1>4. ASSUME NEW w \in Runs, TryLease(w) \/ RetryLease(w) PROVE LeaseInv'
  <2>1. pc[w] \in Acquiring /\ held' = held /\ lease # w
    BY <1>4, <1>o DEF TryLease, RetryLease, Acquiring, LeaseInv
  <2>2. \A v \in Runs : held[v] # w
    BY <2>1 DEF LeaseInv, Acquiring
  <2>3. CASE lease = NoRun
    <3>1. EndOrGoto(w, "entry") /\ lease' = w /\ leaseAge' = 0
      BY <1>4, <2>3 DEF TryLease, RetryLease, InsertLease
    <3>2. /\ pc'[w] = "entry" /\ runAge' = runAge
          /\ \A v \in Runs \ {w} : pc'[v] = pc[v]
      BY <3>1, EndOrGotoAt
    <3>3. \A v \in Runs : pc[v] \notin Leased
      BY <2>3, <1>0 DEF LeaseInv
    <3>4. QED
      BY <2>1, <2>2, <3>1, <3>2, <3>3, <1>o DEF LeaseInv, TypeOK
  <2>4. CASE lease # NoRun
    <3>1. \E next \in {"readLease", "off"} : EndOrGoto(w, next)
      BY <1>4, <2>4 DEF TryLease, RetryLease, InsertLease
    <3>2. UNCHANGED <<lease, leaseAge>>
      BY <1>4, <2>4 DEF TryLease, RetryLease, InsertLease
    <3>3. /\ pc'[w] \in {"readLease", "off"} /\ runAge'[w] \in {0, runAge[w]}
          /\ \A v \in Runs \ {w} : pc'[v] = pc[v] /\ runAge'[v] = runAge[v]
      BY <3>1, EndOrGotoAt
    <3>4. QED
      BY <2>1, <2>2, <3>2, <3>3, <1>o, <1>0 DEF LeaseInv, Acquiring
  <2>5. QED
    BY <2>3, <2>4
<1>5. ASSUME NEW w \in Runs, ReadLease(w) PROVE LeaseInv'
  <2>1. \E next \in {"retry", "breakLease", "off"} : EndOrGoto(w, next)
    BY <1>5 DEF ReadLease
  <2>2. /\ pc'[w] \in {"retry", "breakLease", "off"} /\ runAge'[w] \in {0, runAge[w]}
        /\ \A v \in Runs \ {w} : pc'[v] = pc[v] /\ runAge'[v] = runAge[v]
    BY <2>1, EndOrGotoAt
  <2>3. pc[w] = "readLease" /\ UNCHANGED <<lease, leaseAge>>
    BY <1>5 DEF ReadLease
  <2>4. held' = held \/ (held' = [held EXCEPT ![w] = lease] /\ lease # NoRun /\ IsStale(leaseAge))
    BY <1>5 DEF ReadLease
  <2>5. \A v \in Runs : held'[v] \in Runs => pc[held'[v]] = "off"
    BY <2>4, BreaksOnlyDead DEF LeaseInv, TypeOK
  <2>6. \A v \in Runs : held'[v] # w
    BY <2>3, <2>5
  <2>7. lease # w
    BY <2>3, <1>o DEF LeaseInv, Acquiring
  <2>8. QED
    BY <2>2, <2>3, <2>5, <2>6, <2>7, <1>o, <1>0 DEF LeaseInv, Acquiring
<1>6. ASSUME NEW w \in Runs, BreakLease(w) PROVE LeaseInv'
  <2>1. pc[w] = "breakLease" /\ pc'[w] = "retry" /\ runAge' = runAge
        /\ \A v \in Runs \ {w} : pc'[v] = pc[v]
    BY <1>6, GotoAt DEF BreakLease
  <2>2. \A v \in Runs : held'[v] = IF v = w THEN NoRun ELSE held[v]
    BY <1>6 DEF BreakLease, TypeOK
  <2>3. \/ lease = held[w] /\ lease' = NoRun
        \/ UNCHANGED <<lease, leaseAge>>
    BY <1>6 DEF BreakLease
  <2>4. lease = held[w] => \A v \in Runs : pc[v] \notin Leased
    BY <1>o DEF LeaseInv
  <2>5. lease # w /\ \A v \in Runs : held[v] # w
    BY <2>1, <1>o DEF LeaseInv, Acquiring
  <2>6. \A v \in Runs : held'[v] \in Runs => pc'[held'[v]] = "off"
    BY <2>1, <2>2, <2>5, <1>0 DEF LeaseInv
  <2>7. QED
    BY <2>1, <2>3, <2>4, <2>5, <2>6, <1>o, <1>0 DEF LeaseInv, Acquiring
<1>7. ASSUME NEW w \in Runs, ReleaseLease(w) PROVE LeaseInv'
  <2>1. pc[w] \in Leased /\ lease = w /\ held' = held
    BY <1>7 DEF ReleaseLease, Leased, LeaseInv
  <2>2. lease' = NoRun /\ \A v \in Runs \ {w} : pc[v] \notin Leased
    BY <1>7, <2>1 DEF ReleaseLease, LeaseInv
  <2>3. /\ pc'[w] \in {"start", "off"} /\ runAge'[w] \in {0, runAge[w]}
        /\ \A v \in Runs \ {w} : pc'[v] = pc[v] /\ runAge'[v] = runAge[v]
    <3>1. CASE EndOrGoto(w, "off")
      BY <3>1, EndOrGotoAt
    <3>2. CASE Goto(w, "start") /\ UNCHANGED runAge
      BY <3>2, GotoAt
    <3>3. QED
      BY <1>7, <3>1, <3>2 DEF ReleaseLease
  <2>4. \A v \in Runs : held[v] # w
    BY <2>1, <1>o DEF LeaseInv
  <2>5. QED
    BY <2>1, <2>2, <2>3, <2>4, <1>o, <1>0 DEF LeaseInv, Acquiring
<1>8. ASSUME NEW w \in Runs, Kill(w) PROVE LeaseInv'
  <2>1. /\ UNCHANGED <<lease, leaseAge>>
        /\ \A v \in Runs : held'[v] = IF v = w THEN NoRun ELSE held[v]
    BY <1>8 DEF Kill, TypeOK
  <2>2. /\ pc'[w] = "off" /\ runAge'[w] \in {0, runAge[w]}
        /\ \A v \in Runs \ {w} : pc'[v] = pc[v] /\ runAge'[v] = runAge[v]
    BY <1>8, EndOrGotoAt DEF Kill
  <2>3. QED
    BY <2>1, <2>2, <1>o, <1>0 DEF LeaseInv
<1>9. CASE Webhook \/ (\E r \in Rows : OptOut(r)) \/ UNCHANGED vars
  BY <1>9 DEF Webhook, WebhookRead, WebhookWrite, OptOut, vars, LeaseInv
<1>10. CASE Tick
  <2>1. UNCHANGED <<lease, held, pc>>
    BY <1>10 DEF Tick
  <2>2. \A w \in Runs : runAge'[w] = IF pc[w] = "off" THEN 0 ELSE runAge[w] + 1
    BY <1>10 DEF Tick
  <2>3. \A w \in Runs : pc[w] # "off" => runAge[w] < MaxRun
    BY <1>10 DEF Tick, LiveRuns
  <2>4. \A w \in Runs : runAge'[w] <= MaxRun
    BY <2>2, <2>3, <1>0 DEF TypeOK
  <2>5. leaseAge' <= leaseAge + 1
    BY <1>10, ConstantsAssumption DEF Tick, Older, TypeOK, Ages
  <2>6. leaseAge' \in Nat /\ leaseAge \in Nat
    BY <1>10, ConstantsAssumption DEF Tick, Older, TypeOK, Ages
  <2>7. \A w \in Runs : pc[w] \in Leased => leaseAge' <= runAge'[w]
    BY <2>2, <2>5, <2>6, <1>o DEF LeaseInv, TypeOK
  <2>8. QED
    BY <2>1, <2>4, <2>7 DEF LeaseInv
<1>11. QED
  BY <1>1, <1>2, <1>3, <1>4, <1>5, <1>6, <1>7, <1>8, <1>9, <1>10, OutsideStep
  DEF Next, Fail

-----------------------------------------------------------------------------
(* Rows and messages *)

\* The steps of a run that write rows or hand messages over; Quiet are the rest.
Writes(w) ==
    \/ ExpireWrite(w) \/ ClaimWrite(w) \/ SettleSent(w) \/ SettleWrite(w) \/ ReleaseRows(w)
    \/ \E r \in Rows : Deliver(w, r)

LEMMA QuietStep ==
    ASSUME NEW w \in Runs, Step(w) \/ Fail(w) \/ Kill(w) \/ Start(w), ~Writes(w)
    PROVE  UNCHANGED <<rowStatus, claim, mails, hook, optedOut, outAtClaim>>
<1> USE DEF leaseVars, rowVars, chunkVars, extVars, histVars, Writes
<1>1. CASE CountUnvisited(w) \/ TryLease(w) \/ ReadLease(w) \/ BreakLease(w) \/ RetryLease(w)
           \/ ReleaseLease(w) \/ Start(w) \/ Kill(w) \/ Fail(w)
  BY <1>1 DEF CountUnvisited, TryLease, ReadLease, BreakLease, RetryLease, ReleaseLease, Kill,
     Fail, Start, StartBatch, StartFinish, StartResume
<1>2. CASE EnterBatch(w) \/ EnterHealth(w) \/ EnterResume(w) \/ EnterFinish(w) \/ MoveEmail(w)
           \/ ExpireSelect(w) \/ FirstCounts(w) \/ ReadQueued(w) \/ ClaimSelect(w)
  BY <1>2 DEF EnterBatch, EnterHealth, EnterResume, EnterFinish, MoveEmail, ExpireSelect,
     FirstCounts, ReadQueued, ClaimSelect
<1>3. CASE ReadBack(w) \/ Recheck(w) \/ EndDeliver(w) \/ SettleSelect(w) \/ SettleEnd(w)
           \/ AbandonSelect(w) \/ LastCounts(w) \/ CompleteSend(w)
  BY <1>3 DEF ReadBack, Recheck, EndDeliver, SettleSelect, SettleEnd, AbandonSelect,
     LastCounts, CompleteSend
<1>4. QED
  BY <1>1, <1>2, <1>3 DEF Step

\* A writer holds the lease, stays in it and writes no claim but its own.
LEMMA WriterStep ==
    ASSUME TypeOK, LeaseInv, NEW w \in Runs, Writes(w)
    PROVE  /\ pc[w] \in Leased
           /\ \A v \in Runs \ {w} : pc[v] \notin Leased
           /\ \A v \in Runs \ {w} : (ClaimedBy(v))' \subseteq ClaimedBy(v)
<1>1. pc[w] \in {"expireWrite", "claimWrite", "deliver", "settle", "settleWrite",
                 "releaseWrite", "abandonWrite"}
  BY DEF Writes, ExpireWrite, ClaimWrite, SettleSent, SettleWrite, ReleaseRows, Deliver
<1>2. pc[w] \in Leased /\ \A v \in Runs \ {w} : pc[v] \notin Leased
  BY <1>1 DEF Leased, InChunk, LeaseInv
<1>3. \/ \E S, new, token : Set(S, new, token) /\ token \in {w, NoRun}
      \/ UNCHANGED <<rowStatus, claim>>
  BY DEF Writes, ExpireWrite, ClaimWrite, SettleSent, SettleWrite, ReleaseRows, Deliver, rowVars
<1>4. ASSUME NEW v \in Runs \ {w}, NEW r \in Rows, r \in (ClaimedBy(v))'
      PROVE  r \in ClaimedBy(v)
  <2>1. rowStatus'[r] = "claimed" /\ claim'[r] = v
    BY <1>4 DEF ClaimedBy
  <2>2. CASE UNCHANGED <<rowStatus, claim>>
    BY <2>1, <2>2 DEF ClaimedBy
  <2>3. ASSUME NEW S, NEW new, NEW token, Set(S, new, token), token \in {w, NoRun}
        PROVE  r \in ClaimedBy(v)
    BY <2>1, <2>3, SetAt, ConstantsAssumption DEF ClaimedBy
  <2>4. QED
    BY <1>3, <2>2, <2>3
<1>5. QED
  BY <1>2, <1>4 DEF ClaimedBy

\* The row of a message never mailed is not one of the closed statuses for which
\* one was.
LEMMA MailStep ==
    ASSUME TypeOK, LeaseInv, MailInv, ChunkInv, [Next]_vars
    PROVE  MailInv'
<1> USE DEF leaseVars, rowVars, chunkVars, extVars, histVars
<1>1. ASSUME NEW w \in Runs, ExpireWrite(w) PROVE MailInv'
  <2>1. UNCHANGED <<mails, hook, outAtClaim, optedOut>> /\ Set(sel[w], "unknown", NoRun)
    BY <1>1 DEF ExpireWrite
  <2>2. QED
    BY <2>1, SetAt DEF MailInv
<1>2. ASSUME NEW w \in Runs, ClaimWrite(w) PROVE MailInv'
  <2>1. UNCHANGED <<mails, hook, optedOut>> /\ Set(sel[w], "claimed", w)
    BY <1>2 DEF ClaimWrite
  <2>2. sel[w] \subseteq Queued
    BY <1>2 DEF ClaimWrite, ChunkInv, BeforeDelivery
  <2>3. \A r \in sel[w] : mails[r] = 0
    BY <2>2 DEF MailInv, Queued
  <2>4. outAtClaim' = (outAtClaim \ sel[w]) \cup (sel[w] \cap optedOut)
    BY <1>2 DEF ClaimWrite
  <2>5. QED
    BY <2>1, <2>3, <2>4, SetAt DEF MailInv
<1>3. ASSUME NEW w \in Runs, SettleSent(w) PROVE MailInv'
  <2>1. UNCHANGED <<mails, hook, outAtClaim, optedOut>> /\ Set(Planned(w, "sent"), "sent", NoRun)
    BY <1>3 DEF SettleSent
  <2>2. \A r \in Planned(w, "sent") : mails[r] = 1
    BY <1>3 DEF SettleSent, ChunkInv, AfterDelivery, Settled, Planned
  <2>3. QED
    BY <2>1, <2>2, SetAt DEF MailInv
<1>4. ASSUME NEW w \in Runs, SettleWrite(w) PROVE MailInv'
  <2>1. PICK p \in Outcomes : NextOutcome(w, p) /\ Set(sel[w], p, NoRun)
    BY <1>4 DEF SettleWrite
  <2>2. UNCHANGED <<mails, hook, outAtClaim, optedOut>>
    BY <1>4 DEF SettleWrite
  <2>3. sel[w] \subseteq Planned(w, p)
    BY <1>4, <2>1 DEF SettleWrite, ChunkInv, AfterDelivery
  <2>4. \A r \in Rows : plan[w][r] \in {"failed", "suppressed"} => mails[r] = 0
    BY <1>4 DEF SettleWrite, ChunkInv, AfterDelivery, Settled
  <2>5. p # "unknown" => \A r \in sel[w] : mails[r] = 0
    BY <2>3, <2>4 DEF Planned, Outcomes
  <2>6. QED
    BY <2>1, <2>2, <2>5, SetAt DEF MailInv, Outcomes
<1>5. ASSUME NEW w \in Runs, ReleaseRows(w) PROVE MailInv'
  <2>1. UNCHANGED <<mails, hook, outAtClaim, optedOut>> /\ Set(sel[w], "queued", NoRun)
    BY <1>5 DEF ReleaseRows
  <2>2. \A r \in sel[w] : mails[r] = 0
    BY <1>5 DEF ReleaseRows, ChunkInv, BeforeDelivery
  <2>3. QED
    BY <2>1, <2>2, SetAt DEF MailInv
<1>6. ASSUME NEW w \in Runs, NEW r \in Rows, Deliver(w, r) PROVE MailInv'
  <2>1. UNCHANGED <<rowStatus, hook, outAtClaim, optedOut>>
    BY <1>6 DEF Deliver
  <2>2. plan[w][r] = "todo" /\ Settled(w, r)
    BY <1>6 DEF Deliver, ChunkInv, AfterDelivery
  <2>3. mails[r] = 0 /\ rowStatus[r] = "claimed" /\ r \notin outAtClaim
    BY <2>2 DEF Settled, ClaimedBy
  <2>4. \A q \in Rows : mails'[q] \in IF q = r THEN {0, 1} ELSE {mails[q]}
    BY <1>6, <2>3 DEF Deliver, TypeOK
  <2>5. r \notin hook
    BY <2>3 DEF MailInv
  <2>6. QED
    BY <2>1, <2>3, <2>4, <2>5 DEF MailInv
<1>7. ASSUME NEW w \in Runs, Step(w) \/ Fail(w) \/ Kill(w) \/ Start(w), ~Writes(w)
      PROVE  MailInv'
  BY <1>7, QuietStep DEF MailInv
<1>8. ASSUME NEW r \in Rows, WebhookRead(r) PROVE MailInv'
  <2>1. /\ UNCHANGED <<rowStatus, mails, outAtClaim, optedOut>>
        /\ hook' = hook \cup {r} /\ mails[r] > 0
    BY <1>8 DEF WebhookRead
  <2>2. mails[r] = 1
    BY <2>1 DEF MailInv
  <2>3. QED
    BY <2>1, <2>2 DEF MailInv
<1>9. ASSUME NEW r \in Rows, WebhookWrite(r) PROVE MailInv'
  <2>1. /\ UNCHANGED <<mails, outAtClaim, optedOut>>
        /\ hook' = hook \ {r} /\ r \in hook /\ Set({r}, "sent", NoRun)
    BY <1>9 DEF WebhookWrite
  <2>2. mails[r] = 1
    BY <2>1 DEF MailInv
  <2>3. QED
    BY <2>1, <2>2, SetAt DEF MailInv
<1>10. ASSUME NEW r \in Rows, OptOut(r) PROVE MailInv'
  BY <1>10 DEF OptOut, MailInv
<1>11. CASE Tick \/ UNCHANGED vars
  BY <1>11 DEF Tick, vars, MailInv
<1>12. QED
  BY <1>1, <1>2, <1>3, <1>4, <1>5, <1>6, <1>7, <1>8, <1>9, <1>10, <1>11
  DEF Next, Webhook, Writes

-----------------------------------------------------------------------------
(* Chunks *)

\* What a run knows about its chunk depends on nothing else.
LEMMA SameChunk ==
    ASSUME NEW v \in Runs, BeforeDelivery(v), AfterDelivery(v),
           pc'[v] = pc[v], kind'[v] = kind[v], sel'[v] = sel[v], plan'[v] = plan[v],
           UNCHANGED <<rowStatus, claim, mails, outAtClaim>>
    PROVE  BeforeDelivery(v)' /\ AfterDelivery(v)'
<1>1. /\ (ClaimedBy(v))' = ClaimedBy(v)
      /\ Queued' = Queued
      /\ (Unclaimed(v))' = Unclaimed(v)
      /\ \A r \in Rows : (Settled(v, r))' = Settled(v, r)
      /\ \A q : (Planned(v, q))' = Planned(v, q)
      /\ \A q : (NextOutcome(v, q))' = NextOutcome(v, q)
  BY DEF ClaimedBy, Queued, Unclaimed, Settled, Planned, NextOutcome
<1>2. BeforeDelivery(v)'
  BY <1>1 DEF BeforeDelivery
<1>3. AfterDelivery(v)'
  BY <1>1 DEF AfterDelivery
<1>4. QED
  BY <1>2, <1>3

\* A run without the lease only has to keep having no claim.
LEMMA OutsideChunk ==
    ASSUME NEW v \in Runs, BeforeDelivery(v), pc[v] \notin Leased,
           pc'[v] = pc[v], kind'[v] = kind[v],
           (ClaimedBy(v))' \subseteq ClaimedBy(v)
    PROVE  BeforeDelivery(v)' /\ AfterDelivery(v)'
<1>1. pc'[v] \notin {"expire", "expireWrite", "claim", "claimWrite", "readBack", "recheck",
                     "deliver", "settle", "settleWrite", "releaseWrite", "abandon",
                     "abandonWrite"}
  BY DEF Leased, InChunk
<1>2. (Unclaimed(v))' => Unclaimed(v)
  BY DEF Unclaimed
<1>3. BeforeDelivery(v)'
  BY <1>1, <1>2 DEF BeforeDelivery
<1>4. AfterDelivery(v)'
  BY <1>1 DEF AfterDelivery
<1>5. QED
  BY <1>3, <1>4

\* So a step of one run leaves the chunks of the others as they should be.
LEMMA OtherChunks ==
    ASSUME TypeOK, LeaseInv, ChunkInv,
           NEW w \in Runs, Step(w) \/ Fail(w) \/ Kill(w) \/ Start(w),
           NEW v \in Runs \ {w}
    PROVE  BeforeDelivery(v)' /\ AfterDelivery(v)'
<1>1. /\ pc'[v] = pc[v] /\ kind'[v] = kind[v] /\ sel'[v] = sel[v] /\ plan'[v] = plan[v]
      /\ BeforeDelivery(v) /\ AfterDelivery(v)
  BY StepAlone DEF Alone, ChunkInv
<1>2. CASE Writes(w)
  <2>1. pc[v] \notin Leased /\ (ClaimedBy(v))' \subseteq ClaimedBy(v)
    BY <1>2, WriterStep
  <2>2. QED
    BY <1>1, <2>1, OutsideChunk
<1>3. CASE ~Writes(w)
  <2>1. UNCHANGED <<rowStatus, claim, mails, outAtClaim>>
    BY <1>3, QuietStep
  <2>2. QED
    BY <1>1, <2>1, SameChunk
<1>4. QED
  BY <1>2, <1>3

\* Outside a chunk there is nothing to know but that no claim is held.
LEMMA NoChunk ==
    ASSUME NEW w \in Runs,
           pc'[w] \notin {"expireWrite", "claimWrite", "readBack", "recheck", "deliver",
                          "settle", "settleWrite", "releaseWrite", "abandon", "abandonWrite"},
           (Unclaimed(w))' => (ClaimedBy(w))' = {}
    PROVE  BeforeDelivery(w)' /\ AfterDelivery(w)'
  BY DEF BeforeDelivery, AfterDelivery

\* Rows that did not change are claimed by whom they were.
LEMMA SameClaims ==
    ASSUME NEW w \in Runs, UNCHANGED <<rowStatus, claim>>
    PROVE  (ClaimedBy(w))' = ClaimedBy(w) /\ Queued' = Queued
  BY DEF ClaimedBy, Queued

\* A run's own chunk, before it has the lease and when it is over.
LEMMA OwnOutside ==
    ASSUME TypeOK, LeaseInv, ChunkInv, NEW w \in Runs,
           Start(w) \/ Kill(w) \/ ReleaseLease(w) \/ (Step(w) /\ pc[w] \notin Leased)
    PROVE  BeforeDelivery(w)' /\ AfterDelivery(w)'
<1> USE DEF leaseVars, rowVars, chunkVars, extVars, histVars
<1>1. CASE Start(w)
  <2>1. ClaimedBy(w) = {} /\ UNCHANGED <<rowStatus, claim>>
    BY <1>1 DEF Start, StartBatch, StartFinish, StartResume, Fresh
  <2>2. Goto(w, "start") \/ Goto(w, "list")
    BY <1>1 DEF Start, StartBatch, StartFinish, StartResume
  <2>3. QED
    BY <2>1, <2>2, SameClaims, GotoAt, NoChunk
<1>2. CASE Kill(w)
  <2>1. pc'[w] = "off"
    BY <1>2, EndOrGotoAt DEF Kill
  <2>2. QED
    BY <2>1, NoChunk DEF Unclaimed, Acquiring
<1>3. CASE ReleaseLease(w)
  <2>1. CASE EndOrGoto(w, "off")
    <3>1. pc'[w] = "off"
      BY <2>1, EndOrGotoAt
    <3>2. QED
      BY <3>1, NoChunk DEF Unclaimed, Acquiring
  <2>2. CASE Goto(w, "start") /\ kind' = [kind EXCEPT ![w] = "health"]
    <3>1. pc'[w] = "start" /\ kind'[w] = "health"
      BY <2>2, GotoAt DEF TypeOK
    <3>2. QED
      BY <3>1, NoChunk DEF Unclaimed
  <2>3. QED
    BY <1>3, <2>1, <2>2 DEF ReleaseLease
<1>4. CASE Step(w) /\ pc[w] \notin Leased
  <2>1. \/ CountUnvisited(w) \/ TryLease(w) \/ ReadLease(w) \/ BreakLease(w) \/ RetryLease(w)
    BY <1>4, OutsideStep
  <2>2. UNCHANGED <<rowStatus, claim>>
    BY <2>1 DEF CountUnvisited, TryLease, ReadLease, BreakLease, RetryLease
  <2>3. pc[w] \in Acquiring \cup {"list"}
    BY <2>1 DEF CountUnvisited, TryLease, ReadLease, BreakLease, RetryLease, Acquiring
  <2>4. \/ \E next \in Acquiring \cup {"entry", "off"} : EndOrGoto(w, next)
        \/ Goto(w, "retry") /\ kind' = kind
    BY <2>1 DEF CountUnvisited, TryLease, ReadLease, BreakLease, RetryLease, InsertLease,
       Acquiring
  <2>5. pc'[w] = "off" \/ (pc'[w] \in Acquiring \cup {"entry"} /\ kind' = kind)
    BY <2>4, EndOrGotoAt, GotoAt DEF Acquiring
  <2>6. (Unclaimed(w))' => Unclaimed(w)
    BY <2>3, <2>5 DEF Unclaimed, Acquiring
  <2>7. (Unclaimed(w))' => (ClaimedBy(w))' = {}
    BY <2>2, <2>6, SameClaims DEF ChunkInv, BeforeDelivery
  <2>8. QED
    BY <2>5, <2>7, NoChunk DEF Acquiring
<1>5. QED
  BY <1>1, <1>2, <1>3, <1>4

\* With the lease, up to the claim.
LEMMA OwnBeforeClaim ==
    ASSUME TypeOK, LeaseInv, MailInv, ChunkInv, NEW w \in Runs,
           \/ EnterBatch(w) \/ EnterHealth(w) \/ EnterResume(w) \/ EnterFinish(w)
           \/ MoveEmail(w) \/ ExpireSelect(w) \/ ExpireWrite(w) \/ FirstCounts(w)
           \/ ReadQueued(w) \/ ClaimSelect(w) \/ ClaimWrite(w) \/ LastCounts(w)
           \/ CompleteSend(w)
    PROVE  BeforeDelivery(w)' /\ AfterDelivery(w)'
<1> USE DEF leaseVars, rowVars, chunkVars, extVars, histVars
<1>0. BeforeDelivery(w) /\ AfterDelivery(w)
  BY DEF ChunkInv
<1>1. CASE EnterBatch(w) \/ FirstCounts(w) \/ LastCounts(w)
  <2>1. ClaimedBy(w) = {} /\ UNCHANGED <<rowStatus, claim>>
    BY <1>0, <1>1 DEF EnterBatch, FirstCounts, LastCounts, BeforeDelivery, Unclaimed
  <2>2. Goto(w, "expire") \/ Goto(w, "quit") \/ Goto(w, "complete") \/ Goto(w, "loop")
        \/ Goto(w, "leave")
    BY <1>1 DEF EnterBatch, FirstCounts, LastCounts
  <2>3. QED
    BY <2>1, <2>2, GotoAt, SameClaims, NoChunk
<1>2. CASE EnterHealth(w) \/ EnterResume(w) \/ EnterFinish(w) \/ MoveEmail(w)
           \/ CompleteSend(w)
  <2>1. Goto(w, "quit") \/ Goto(w, "move") \/ Goto(w, "complete")
    BY <1>2 DEF EnterHealth, EnterResume, EnterFinish, MoveEmail, CompleteSend
  <2>2. QED
    BY <2>1, GotoAt, NoChunk DEF Unclaimed, Acquiring
<1>3. CASE ExpireSelect(w)
  <2>1. pc'[w] = "expireWrite" /\ ClaimedBy(w) = {} /\ UNCHANGED <<rowStatus, claim>>
    BY <1>0, <1>3, GotoAt DEF ExpireSelect, BeforeDelivery, Unclaimed
  <2>2. \A r \in sel'[w] : rowStatus[r] = "claimed"
    BY <1>3 DEF ExpireSelect, TypeOK
  <2>3. QED
    BY <2>1, <2>2, SameClaims DEF BeforeDelivery, AfterDelivery
<1>4. CASE ExpireWrite(w)
  <2>1. pc'[w] = "first" /\ ClaimedBy(w) = {} /\ Set(sel[w], "unknown", NoRun)
    BY <1>0, <1>4, GotoAt DEF ExpireWrite, BeforeDelivery, Unclaimed
  <2>2. (ClaimedBy(w))' = {}
    BY <2>1, SetAt DEF ClaimedBy
  <2>3. QED
    BY <2>1, <2>2, NoChunk
<1>5. CASE ReadQueued(w)
  <2>1. ClaimedBy(w) = {} /\ UNCHANGED <<rowStatus, claim>>
    BY <1>0, <1>5 DEF ReadQueued, BeforeDelivery, Unclaimed
  <2>2. Goto(w, "leave") \/ Goto(w, "count") \/ Goto(w, "claim")
    BY <1>5 DEF ReadQueued
  <2>3. QED
    BY <2>1, <2>2, GotoAt, SameClaims, NoChunk
<1>6. CASE ClaimSelect(w)
  <2>1. pc'[w] = "claimWrite" /\ ClaimedBy(w) = {} /\ UNCHANGED <<rowStatus, claim, plan>>
    BY <1>0, <1>6, GotoAt DEF ClaimSelect, BeforeDelivery, Unclaimed
  <2>2. sel'[w] = Planned(w, "ready") \cap Queued
    BY <1>6 DEF ClaimSelect, TypeOK
  <2>3. QED
    BY <2>1, <2>2, SameClaims DEF BeforeDelivery, AfterDelivery, Planned
<1>7. CASE ClaimWrite(w)
  <2>1. /\ pc'[w] = "readBack" /\ ClaimedBy(w) = {} /\ Set(sel[w], "claimed", w)
        /\ plan' = plan /\ mails' = mails
        /\ sel[w] \subseteq Queued /\ \A r \in sel[w] : plan[w][r] = "ready"
    BY <1>0, <1>7, GotoAt DEF ClaimWrite, BeforeDelivery, Unclaimed
  <2>2. \A r \in sel[w] : mails[r] = 0
    BY <2>1 DEF MailInv, Queued
  <2>3. (ClaimedBy(w))' \subseteq sel[w]
    BY <2>1, SetAt DEF ClaimedBy
  <2>4. QED
    BY <2>1, <2>2, <2>3 DEF BeforeDelivery, AfterDelivery, Unclaimed, Acquiring
<1>8. QED
  BY <1>1, <1>2, <1>3, <1>4, <1>5, <1>6, <1>7

\* settle works through its outcomes one at a time.
LEMMA OneOutcome ==
    ASSUME NEW w \in Runs, NEW p \in Outcomes, NEW q \in Outcomes,
           NextOutcome(w, p), NextOutcome(w, q)
    PROVE  p = q
  BY DEF NextOutcome, Outcomes

\* From the read-back to the last release.
LEMMA OwnInChunk ==
    ASSUME TypeOK, LeaseInv, MailInv, ChunkInv, NEW w \in Runs,
           \/ ReadBack(w) \/ Recheck(w) \/ (\E r \in Rows : Deliver(w, r)) \/ EndDeliver(w)
           \/ SettleSent(w) \/ SettleSelect(w) \/ SettleWrite(w) \/ SettleEnd(w)
           \/ AbandonSelect(w) \/ ReleaseRows(w) \/ Fail(w)
    PROVE  BeforeDelivery(w)' /\ AfterDelivery(w)'
<1> USE DEF leaseVars, rowVars, chunkVars, extVars, histVars
<1>0. BeforeDelivery(w) /\ AfterDelivery(w)
  BY DEF ChunkInv
<1>n. /\ \A x \in {"recheck", "deliver", "settle", "settleWrite", "releaseWrite", "abandon",
                   "abandonWrite", "leave", "quit"} :
            pc'[w] = x => ~(Unclaimed(w))'
  BY DEF Unclaimed, Acquiring
<1>1. CASE ReadBack(w)
  <2>1. /\ pc'[w] = "recheck" /\ UNCHANGED <<rowStatus, claim, plan, mails>>
        /\ \A r \in ClaimedBy(w) : plan[w][r] = "ready" /\ mails[r] = 0
    BY <1>0, <1>1, GotoAt DEF ReadBack, BeforeDelivery
  <2>2. sel'[w] = ClaimedBy(w)
    BY <1>1 DEF ReadBack, TypeOK
  <2>3. QED
    BY <2>1, <2>2, <1>n, SameClaims DEF BeforeDelivery, AfterDelivery
<1>2. CASE Recheck(w)
  <2>1. /\ pc'[w] = "deliver" /\ UNCHANGED <<rowStatus, claim, mails, outAtClaim>>
        /\ sel[w] = ClaimedBy(w)
        /\ \A r \in sel[w] : plan[w][r] = "ready" /\ mails[r] = 0
    BY <1>0, <1>2, GotoAt DEF Recheck, BeforeDelivery
  <2>2. PICK bad \in SUBSET sel[w] : plan' = [plan EXCEPT ![w] = [r \in Rows |->
              IF r \notin sel[w] THEN "none"
              ELSE IF plan[w][r] # "ready" THEN "back"
              ELSE IF r \in bad THEN "failed"
              ELSE IF Suppressed(r) THEN "suppressed" ELSE "todo"]]
    BY <1>2 DEF Recheck
  <2>3. \A r \in Rows : plan'[w][r] = IF r \notin sel[w] THEN "none"
              ELSE IF plan[w][r] # "ready" THEN "back"
              ELSE IF r \in bad THEN "failed"
              ELSE IF Suppressed(r) THEN "suppressed" ELSE "todo"
    BY <2>2 DEF TypeOK
  <2>4. \A r \in Rows : plan'[w][r] = "todo" => r \notin outAtClaim
    BY <2>3 DEF Suppressed, MailInv
  <2>5. ASSUME NEW r \in Rows PROVE (Settled(w, r))'
    BY <2>1, <2>3, <2>4, SameClaims DEF Settled
  <2>6. QED
    BY <2>1, <2>5, <1>n DEF BeforeDelivery, AfterDelivery
<1>3. ASSUME NEW r \in Rows, Deliver(w, r) PROVE BeforeDelivery(w)' /\ AfterDelivery(w)'
  <2>1. /\ pc[w] = "deliver" /\ UNCHANGED <<rowStatus, claim, pc, outAtClaim>>
        /\ plan[w][r] = "todo" /\ \A q \in Rows : Settled(w, q)
    BY <1>0, <1>3 DEF Deliver, AfterDelivery
  <2>2. r \in ClaimedBy(w) /\ mails[r] = 0
    BY <2>1 DEF Settled
  <2>3. ASSUME NEW q \in Rows, q # r PROVE plan'[w][q] = plan[w][q] /\ mails'[q] = mails[q]
    BY <1>3, <2>3 DEF Deliver, TypeOK
  <2>4. \/ plan'[w][r] \in IfAccepted /\ mails'[r] = 1
        \/ plan'[w][r] \in IfNotAccepted \cup {"back"} /\ mails'[r] = 0
    BY <1>3, <2>2 DEF Deliver, TypeOK
  <2>5. (ClaimedBy(w))' = ClaimedBy(w)
    BY <2>1, SameClaims
  <2>6. ASSUME NEW q \in Rows PROVE (Settled(w, q))'
    <3>1. CASE q = r
      BY <2>2, <2>4, <2>5, <3>1 DEF Settled, IfAccepted, IfNotAccepted
    <3>2. CASE q # r
      BY <2>1, <2>3, <2>5, <3>2 DEF Settled
    <3>3. QED
      BY <3>1, <3>2
  <2>7. QED
    BY <2>1, <2>6, <1>n DEF BeforeDelivery, AfterDelivery
<1>4. CASE EndDeliver(w)
  <2>1. /\ pc'[w] = "settle" /\ UNCHANGED <<rowStatus, claim, mails, outAtClaim>>
        /\ \A r \in Rows : Settled(w, r)
    BY <1>0, <1>4, GotoAt DEF EndDeliver, AfterDelivery
  <2>2. \A r \in Rows : plan'[w][r] = IF plan[w][r] = "todo" THEN "back" ELSE plan[w][r]
    BY <1>4 DEF EndDeliver, TypeOK
  <2>3. ASSUME NEW r \in Rows PROVE (Settled(w, r))'
    BY <2>1, <2>2, SameClaims DEF Settled
  <2>4. (Planned(w, "todo"))' = {}
    BY <2>2 DEF Planned
  <2>5. QED
    BY <2>1, <2>3, <2>4, <1>n DEF BeforeDelivery, AfterDelivery
<1>5. CASE SettleSent(w)
  <2>1. /\ pc[w] = "settle" /\ UNCHANGED <<pc, mails, outAtClaim>>
        /\ Set(Planned(w, "sent"), "sent", NoRun)
        /\ \A r \in Rows : Settled(w, r)
        /\ Planned(w, "todo") = {}
    BY <1>0, <1>5 DEF SettleSent, AfterDelivery
  <2>2. \A r \in Rows : plan'[w][r] = IF plan[w][r] = "sent" THEN "none" ELSE plan[w][r]
    BY <1>5 DEF SettleSent, TypeOK
  <2>3. ASSUME NEW r \in Rows PROVE (Settled(w, r))'
    <3>1. /\ plan[w][r] = "sent" => rowStatus'[r] = "sent"
          /\ plan[w][r] # "sent" => rowStatus'[r] = rowStatus[r] /\ claim'[r] = claim[r]
      BY <2>1, SetAt DEF Planned
    <3>2. Settled(w, r)
      BY <2>1
    <3>3. QED
      BY <2>1, <2>2, <3>1, <3>2 DEF Settled, ClaimedBy
  <2>4. (Planned(w, "todo"))' = {}
    BY <2>1, <2>2 DEF Planned
  <2>5. QED
    BY <2>1, <2>3, <2>4, <1>n DEF BeforeDelivery, AfterDelivery
<1>6. CASE SettleSelect(w)
  <2>1. /\ pc'[w] = "settleWrite" /\ UNCHANGED <<rowStatus, claim, plan, mails, outAtClaim>>
        /\ \A r \in Rows : Settled(w, r)
        /\ Planned(w, "todo") = {}
    BY <1>0, <1>6, GotoAt DEF SettleSelect, AfterDelivery
  <2>2. PICK p \in Outcomes : /\ NextOutcome(w, p)
              /\ sel' = [sel EXCEPT ![w] = {r \in Planned(w, p) : rowStatus[r] = "claimed"}]
    BY <1>6 DEF SettleSelect
  <2>3. sel'[w] = {r \in Planned(w, p) : rowStatus[r] = "claimed"}
    BY <2>2 DEF TypeOK
  <2>4. /\ \A q : (Planned(w, q))' = Planned(w, q)
        /\ \A q : (NextOutcome(w, q))' = NextOutcome(w, q)
        /\ \A r \in Rows : (Settled(w, r))' = Settled(w, r)
    BY <2>1, SameClaims DEF Planned, NextOutcome, Settled
  <2>5. \A q \in Outcomes : NextOutcome(w, q) => q = p
    BY <2>2, OneOutcome
  <2>6. Planned(w, p) \cap ClaimedBy(w) \subseteq sel'[w]
    BY <2>3 DEF ClaimedBy
  <2>7. QED
    BY <2>1, <2>3, <2>4, <2>5, <2>6, <1>n, SameClaims DEF BeforeDelivery, AfterDelivery
<1>7. CASE SettleWrite(w)
  <2>1. /\ pc'[w] = "settle" /\ pc[w] = "settleWrite" /\ UNCHANGED <<mails, outAtClaim>>
        /\ \A r \in Rows : Settled(w, r)
        /\ Planned(w, "todo") = {}
    BY <1>0, <1>7, GotoAt DEF SettleWrite, AfterDelivery
  <2>2. PICK p \in Outcomes : /\ NextOutcome(w, p)
              /\ Set(sel[w], p, NoRun)
              /\ plan' = [plan EXCEPT ![w] = [r \in Rows |->
                    IF plan[w][r] = p THEN "none" ELSE plan[w][r]]]
    BY <1>7 DEF SettleWrite
  <2>3. \A r \in Rows : plan'[w][r] = IF plan[w][r] = p THEN "none" ELSE plan[w][r]
    BY <2>2 DEF TypeOK
  <2>4. sel[w] \subseteq Planned(w, p) /\ Planned(w, p) \cap ClaimedBy(w) \subseteq sel[w]
    BY <1>0, <2>1, <2>2 DEF AfterDelivery
  <2>5. ASSUME NEW r \in Rows PROVE (Settled(w, r))'
    <3>1. Settled(w, r)
      BY <2>1
    <3>2. CASE plan[w][r] = p
      <4>1. r \notin (ClaimedBy(w))'
        <5>1. CASE r \in sel[w]
          BY <2>2, <5>1, SetAt DEF ClaimedBy, Outcomes
        <5>2. CASE r \notin sel[w]
          BY <2>2, <2>4, <3>2, <5>2, SetAt DEF ClaimedBy, Planned
        <5>3. QED
          BY <5>1, <5>2
      <4>2. QED
        BY <2>3, <3>2, <4>1 DEF Settled
    <3>3. CASE plan[w][r] # p
      <4>1. r \notin sel[w]
        BY <2>4, <3>3 DEF Planned
      <4>2. rowStatus'[r] = rowStatus[r] /\ claim'[r] = claim[r]
        BY <2>2, <4>1, SetAt
      <4>3. QED
        BY <2>1, <2>3, <3>1, <3>3, <4>2 DEF Settled, ClaimedBy
    <3>4. QED
      BY <3>2, <3>3
  <2>6. (Planned(w, "todo"))' = {}
    BY <2>1, <2>3 DEF Planned, Outcomes
  <2>7. QED
    BY <2>1, <2>5, <2>6, <1>n DEF BeforeDelivery, AfterDelivery
<1>8. CASE SettleEnd(w)
  <2>1. /\ UNCHANGED <<rowStatus, claim, mails>>
        /\ \A r \in Rows : Settled(w, r) /\ plan[w][r] \in {"none", "back"}
    BY <1>0, <1>8 DEF SettleEnd, AfterDelivery
  <2>2. ClaimedBy(w) \subseteq Planned(w, "back")
    BY <2>1 DEF Settled, ClaimedBy, Planned
  <2>3. CASE Planned(w, "back") = {}
    <3>1. Goto(w, "leave") \/ Goto(w, "loop")
      BY <1>8, <2>3 DEF SettleEnd, AfterChunk
    <3>2. QED
      BY <2>1, <2>2, <2>3, <3>1, GotoAt, SameClaims, NoChunk
  <2>4. CASE Planned(w, "back") # {}
    <3>1. pc'[w] = "releaseWrite"
      BY <1>8, <2>4, GotoAt DEF SettleEnd
    <3>2. sel'[w] = ClaimedBy(w)
      BY <1>8, <2>2 DEF SettleEnd, TypeOK
    <3>3. \A r \in ClaimedBy(w) : mails[r] = 0
      BY <2>1, <2>2 DEF Settled, Planned
    <3>4. QED
      BY <2>1, <3>1, <3>2, <3>3, <1>n, SameClaims DEF BeforeDelivery, AfterDelivery
  <2>5. QED
    BY <2>3, <2>4
<1>9. CASE AbandonSelect(w)
  <2>1. /\ pc'[w] = "abandonWrite" /\ UNCHANGED <<rowStatus, claim, mails>>
        /\ \A r \in ClaimedBy(w) : mails[r] = 0
    BY <1>0, <1>9, GotoAt DEF AbandonSelect, BeforeDelivery
  <2>2. sel'[w] = ClaimedBy(w)
    BY <1>9 DEF AbandonSelect, TypeOK
  <2>3. QED
    BY <2>1, <2>2, <1>n, SameClaims DEF BeforeDelivery, AfterDelivery
<1>10. CASE ReleaseRows(w)
  <2>1. sel[w] = ClaimedBy(w) /\ Set(sel[w], "queued", NoRun)
    BY <1>0, <1>10 DEF ReleaseRows, BeforeDelivery
  <2>2. (ClaimedBy(w))' = {}
    BY <2>1, SetAt DEF ClaimedBy
  <2>3. Goto(w, "leave") \/ Goto(w, "loop")
    BY <1>10 DEF ReleaseRows, AfterChunk
  <2>4. QED
    BY <2>2, <2>3, GotoAt, NoChunk
<1>11. CASE Fail(w)
  <2>1. UNCHANGED <<rowStatus, claim, mails>>
    BY <1>11 DEF Fail
  <2>2. CASE pc[w] = "recheck"
    <3>1. pc'[w] = "abandon"
      BY <1>11, <2>2, GotoAt DEF Fail
    <3>2. \A r \in ClaimedBy(w) : mails[r] = 0
      BY <1>0, <2>2 DEF BeforeDelivery
    <3>3. QED
      BY <2>1, <3>1, <3>2, <1>n, SameClaims DEF BeforeDelivery, AfterDelivery
  <2>3. CASE pc[w] # "recheck"
    <3>1. Goto(w, "leave") \/ Goto(w, "quit")
      BY <1>11, <2>3 DEF Fail
    <3>2. QED
      BY <3>1, <1>n, GotoAt, NoChunk
  <2>4. QED
    BY <2>2, <2>3
<1>12. QED
  BY <1>1, <1>2, <1>3, <1>4, <1>5, <1>6, <1>7, <1>8, <1>9, <1>10, <1>11

LEMMA ChunkStep ==
    ASSUME TypeOK, LeaseInv, MailInv, ChunkInv, [Next]_vars
    PROVE  ChunkInv'
<1>1. ASSUME NEW w \in Runs, Step(w) \/ Fail(w) \/ Kill(w) \/ Start(w)
      PROVE  ChunkInv'
  <2>1. BeforeDelivery(w)' /\ AfterDelivery(w)'
    <3>1. CASE Start(w) \/ Kill(w) \/ ReleaseLease(w) \/ (Step(w) /\ pc[w] \notin Leased)
      BY <3>1, OwnOutside
    <3>2. CASE Fail(w)
      BY <3>2, OwnInChunk
    <3>3. CASE Step(w) /\ pc[w] \in Leased /\ ~ReleaseLease(w)
      <4>1. ~CountUnvisited(w) /\ ~TryLease(w) /\ ~ReadLease(w) /\ ~BreakLease(w)
            /\ ~RetryLease(w)
        BY <3>3 DEF Leased, InChunk, CountUnvisited, TryLease, ReadLease, BreakLease, RetryLease
      <4>2. QED
        BY <3>3, <4>1, OwnBeforeClaim, OwnInChunk DEF Step
    <3>4. QED
      BY <1>1, <3>1, <3>2, <3>3
  <2>2. \A v \in Runs \ {w} : BeforeDelivery(v)' /\ AfterDelivery(v)'
    BY <1>1, OtherChunks
  <2>3. QED
    BY <2>1, <2>2 DEF ChunkInv
<1>2. ASSUME NEW r \in Rows, WebhookWrite(r) PROVE ChunkInv'
  <2>1. /\ UNCHANGED <<pc, kind, sel, plan, mails, outAtClaim>> /\ Set({r}, "sent", NoRun)
        /\ mails[r] = 1
    BY <1>2 DEF WebhookWrite, MailInv, chunkVars, histVars
  <2>2. ASSUME NEW v \in Runs PROVE BeforeDelivery(v)' /\ AfterDelivery(v)'
    <3>1. BeforeDelivery(v) /\ AfterDelivery(v)
      BY DEF ChunkInv
    <3>2. /\ (ClaimedBy(v))' = ClaimedBy(v) \ {r}
          /\ (Unclaimed(v))' = Unclaimed(v)
          /\ Queued' = Queued \ {r}
      <4>1. \A q \in Rows : rowStatus'[q] = (IF q = r THEN "sent" ELSE rowStatus[q])
                           /\ (q # r => claim'[q] = claim[q])
        BY <2>1, SetAt
      <4>2. (ClaimedBy(v))' = ClaimedBy(v) \ {r}
        BY <4>1 DEF ClaimedBy
      <4>3. Queued' = Queued \ {r}
        BY <4>1 DEF Queued
      <4>4. QED
        BY <2>1, <4>2, <4>3 DEF Unclaimed
    <3>3. r \notin Queued
      BY <2>1 DEF MailInv, Queued
    <3>4. BeforeDelivery(v)'
      BY <2>1, <3>1, <3>2, <3>3 DEF BeforeDelivery
    <3>5. /\ \A q : (Planned(v, q))' = Planned(v, q)
          /\ \A q : (NextOutcome(v, q))' = NextOutcome(v, q)
      BY <2>1 DEF Planned, NextOutcome
    <3>6. ASSUME NEW q \in Rows, Settled(v, q) PROVE (Settled(v, q))'
      <4>1. q = r => rowStatus'[q] = "sent"
        BY <2>1, SetAt
      <4>2. q # r => rowStatus'[q] = rowStatus[q]
        BY <2>1, SetAt
      <4>3. QED
        BY <2>1, <3>2, <3>6, <4>1, <4>2 DEF Settled
    <3>7. \A q \in sel[v] : q \in Rows
      BY DEF TypeOK
    <3>8. pc[v] = "expireWrite" => \A q \in sel[v] : rowStatus'[q] \in {"claimed", "sent"}
      BY <2>1, <3>1, <3>7, SetAt DEF AfterDelivery
    <3>9. AfterDelivery(v)'
      BY <2>1, <3>1, <3>2, <3>5, <3>6, <3>8 DEF AfterDelivery
    <3>10. QED
      BY <3>4, <3>9
  <2>3. QED
    BY <2>2 DEF ChunkInv
<1>3. CASE Tick \/ (\E r \in Rows : OptOut(r) \/ WebhookRead(r)) \/ UNCHANGED vars
  <2>1. UNCHANGED <<pc, sel, plan, rowStatus, claim, mails, outAtClaim, kind>>
    BY <1>3 DEF Tick, OptOut, WebhookRead, vars, rowVars, chunkVars, histVars
  <2>2. \A v \in Runs : BeforeDelivery(v)' /\ AfterDelivery(v)'
    BY <2>1, SameChunk DEF ChunkInv
  <2>3. QED
    BY <2>2 DEF ChunkInv
<1>4. QED
  BY <1>1, <1>2, <1>3 DEF Next, Webhook

-----------------------------------------------------------------------------
(* The email's status *)

\* No row is ever queued or claimed again once it is neither.
LEMMA PendingShrinks ==
    ASSUME TypeOK, LeaseInv, MailInv, ChunkInv, [Next]_vars
    PROVE  Pending' \subseteq Pending
<1> USE DEF leaseVars, rowVars, chunkVars, extVars, histVars
<1>s. ASSUME NEW S, NEW new, NEW token, Set(S, new, token),
             new \in {"queued", "claimed"} => S \subseteq Pending
      PROVE  Pending' \subseteq Pending
  BY <1>s, SetAt DEF Pending
<1>1. ASSUME NEW w \in Runs, Writes(w) PROVE Pending' \subseteq Pending
  <2>0. BeforeDelivery(w)
    BY DEF ChunkInv
  <2>1. CASE ExpireWrite(w) \/ SettleSent(w) \/ SettleWrite(w)
    BY <2>1, <1>s DEF ExpireWrite, SettleSent, SettleWrite, Outcomes
  <2>2. CASE ClaimWrite(w)
    BY <2>0, <2>2, <1>s DEF ClaimWrite, BeforeDelivery, Queued, Pending
  <2>3. CASE ReleaseRows(w)
    BY <2>0, <2>3, <1>s DEF ReleaseRows, BeforeDelivery, ClaimedBy, Pending
  <2>4. CASE \E r \in Rows : Deliver(w, r)
    BY <2>4 DEF Deliver, Pending
  <2>5. QED
    BY <1>1, <2>1, <2>2, <2>3, <2>4 DEF Writes
<1>2. ASSUME NEW w \in Runs, Step(w) \/ Fail(w) \/ Kill(w) \/ Start(w), ~Writes(w)
      PROVE  Pending' \subseteq Pending
  BY <1>2, QuietStep DEF Pending
<1>3. ASSUME NEW r \in Rows, WebhookWrite(r) PROVE Pending' \subseteq Pending
  BY <1>3, <1>s DEF WebhookWrite
<1>4. CASE Tick \/ (\E r \in Rows : OptOut(r) \/ WebhookRead(r)) \/ UNCHANGED vars
  BY <1>4 DEF Tick, OptOut, WebhookRead, vars, Pending
<1>5. QED
  BY <1>1, <1>2, <1>3, <1>4 DEF Next, Webhook

\* Only two requests of a run write the email's status, both under the lease.
LEMMA SameStatus ==
    ASSUME NEW w \in Runs, Step(w) \/ Fail(w) \/ Kill(w) \/ Start(w),
           ~MoveEmail(w), ~CompleteSend(w)
    PROVE  status' = status
<1>1. CASE CountUnvisited(w) \/ TryLease(w) \/ ReadLease(w) \/ BreakLease(w) \/ RetryLease(w)
           \/ ReleaseLease(w) \/ Start(w) \/ Kill(w) \/ Fail(w)
  BY <1>1 DEF CountUnvisited, TryLease, ReadLease, BreakLease, RetryLease, ReleaseLease, Kill,
     Fail, Start, StartBatch, StartFinish, StartResume
<1>2. CASE EnterBatch(w) \/ EnterHealth(w) \/ EnterResume(w) \/ EnterFinish(w)
           \/ ExpireSelect(w) \/ ExpireWrite(w) \/ FirstCounts(w) \/ ReadQueued(w)
           \/ ClaimSelect(w) \/ ClaimWrite(w)
  BY <1>2 DEF EnterBatch, EnterHealth, EnterResume, EnterFinish, ExpireSelect, ExpireWrite,
     FirstCounts, ReadQueued, ClaimSelect, ClaimWrite
<1>3. CASE ReadBack(w) \/ Recheck(w) \/ EndDeliver(w) \/ SettleSent(w) \/ SettleSelect(w)
           \/ SettleWrite(w) \/ SettleEnd(w) \/ AbandonSelect(w) \/ ReleaseRows(w)
           \/ LastCounts(w) \/ \E r \in Rows : Deliver(w, r)
  BY <1>3 DEF ReadBack, Recheck, EndDeliver, SettleSent, SettleSelect, SettleWrite, SettleEnd,
     AbandonSelect, ReleaseRows, LastCounts, Deliver
<1>4. QED
  BY <1>1, <1>2, <1>3 DEF Step

\* Where a run is in a chunk or about to start one, and where it has seen that
\* nothing is left.
Working == InChunk \cup {"expire", "expireWrite", "first", "loop", "count"}
Concluding(w) == pc[w] = "complete" \/ (pc[w] \in Acquiring \cup {"entry"} /\ kind[w] = "finish")

\* A run starts working only on a sending email, and concludes only on an empty
\* count.
LEMMA OwnStatus ==
    ASSUME TypeOK, StatusInv, NEW w \in Runs,
           Step(w) \/ Fail(w) \/ Kill(w) \/ Start(w)
    PROVE  /\ pc'[w] \in Working => pc[w] \in Working \/ status = "sending"
           /\ (Concluding(w))' => Concluding(w) \/ Pending = {}
           /\ MoveEmail(w) \/ CompleteSend(w) => pc'[w] = "quit"
<1> USE DEF leaseVars, rowVars, chunkVars, extVars, histVars
<1>o. /\ Working \cap (Acquiring \cup {"entry", "list", "off", "complete", "move", "leave", "quit"}) = {}
      /\ "complete" \notin Acquiring
  BY DEF Working, InChunk, Acquiring
<1>1. CASE Start(w)
  <2>1. \/ Goto(w, "start") /\ kind' = [kind EXCEPT ![w] = "batch"]
        \/ Goto(w, "list")
        \/ Goto(w, "start") /\ kind' = [kind EXCEPT ![w] = "resume"]
    BY <1>1 DEF Start, StartBatch, StartFinish, StartResume
  <2>2. (pc'[w] = "start" /\ kind'[w] \in {"batch", "resume"}) \/ pc'[w] = "list"
    BY <2>1, GotoAt DEF TypeOK
  <2>3. ~MoveEmail(w) /\ ~CompleteSend(w)
    BY <1>1 DEF Start, StartBatch, StartFinish, StartResume, Fresh, MoveEmail, CompleteSend
  <2>4. QED
    BY <2>2, <2>3, <1>o DEF Concluding, Acquiring
<1>2. CASE CountUnvisited(w)
  <2>1. /\ pc[w] = "list"
        /\ \/ NothingLeft /\ EndOrGoto(w, "start")
           \/ EndOrGoto(w, "off")
    BY <1>2 DEF CountUnvisited
  <2>2. pc'[w] = "off" \/ (pc'[w] = "start" /\ Pending = {})
    BY <2>1, EndOrGotoAt DEF NothingLeft
  <2>3. QED
    BY <2>1, <2>2, <1>o DEF Concluding, Acquiring, MoveEmail, CompleteSend
<1>3. CASE TryLease(w) \/ ReadLease(w) \/ BreakLease(w) \/ RetryLease(w)
  <2>1. pc[w] \in Acquiring
    BY <1>3 DEF TryLease, ReadLease, BreakLease, RetryLease, Acquiring
  <2>2. \/ \E next \in Acquiring \cup {"entry", "off"} : EndOrGoto(w, next)
        \/ Goto(w, "retry") /\ kind' = kind
    BY <1>3 DEF TryLease, ReadLease, BreakLease, RetryLease, InsertLease, Acquiring
  <2>3. pc'[w] = "off" \/ (pc'[w] \in Acquiring \cup {"entry"} /\ kind' = kind)
    BY <2>2, EndOrGotoAt, GotoAt DEF Acquiring
  <2>4. QED
    BY <2>1, <2>3, <1>o DEF Concluding, Acquiring, MoveEmail, CompleteSend
<1>4. CASE ReleaseLease(w) \/ Kill(w)
  <2>1. EndOrGoto(w, "off") \/ (Goto(w, "start") /\ kind' = [kind EXCEPT ![w] = "health"])
    BY <1>4 DEF ReleaseLease, Kill
  <2>2. pc'[w] = "off" \/ (pc'[w] = "start" /\ kind'[w] = "health")
    BY <2>1, EndOrGotoAt, GotoAt DEF TypeOK
  <2>3. MoveEmail(w) \/ CompleteSend(w) => pc'[w] = "quit"
    BY GotoAt DEF MoveEmail, CompleteSend
  <2>4. QED
    BY <2>2, <2>3, <1>o DEF Concluding, Acquiring
<1>5. CASE EnterBatch(w) \/ EnterHealth(w) \/ EnterResume(w) \/ EnterFinish(w) \/ MoveEmail(w)
           \/ CompleteSend(w)
  <2>1. \/ Goto(w, "expire") /\ status = "sending"
        \/ Goto(w, "quit") \/ Goto(w, "move")
        \/ Goto(w, "complete") /\ pc[w] = "entry" /\ kind[w] = "finish"
    BY <1>5 DEF EnterBatch, EnterHealth, EnterResume, EnterFinish, MoveEmail, CompleteSend
  <2>2. MoveEmail(w) \/ CompleteSend(w) => pc'[w] = "quit"
    BY GotoAt DEF MoveEmail, CompleteSend
  <2>3. \/ pc'[w] = "expire" /\ status = "sending"
        \/ pc'[w] \in {"quit", "move"}
        \/ pc'[w] = "complete" /\ pc[w] = "entry" /\ kind[w] = "finish"
    BY <2>1, GotoAt
  <2>4. QED
    BY <2>2, <2>3, <1>o DEF Concluding, Acquiring
<1>6. CASE FirstCounts(w) \/ LastCounts(w)
  <2>1. /\ pc[w] \in Working \ {"move", "complete"}
        /\ (Goto(w, "complete") /\ Pending = {}) \/ Goto(w, "loop") \/ Goto(w, "leave")
    BY <1>6 DEF FirstCounts, LastCounts, NothingLeft, Working
  <2>2. (pc'[w] = "complete" /\ Pending = {}) \/ pc'[w] \in {"loop", "leave"}
    BY <2>1, GotoAt
  <2>3. QED
    BY <2>1, <2>2, <1>o DEF Concluding, Acquiring, MoveEmail, CompleteSend
<1>7. CASE Fail(w)
  <2>1. pc[w] = "recheck" \/ Goto(w, "leave") \/ Goto(w, "quit")
    BY <1>7 DEF Fail
  <2>2. pc[w] = "recheck" => Goto(w, "abandon")
    BY <1>7 DEF Fail
  <2>3. pc'[w] \in {"abandon", "leave", "quit"}
    BY <2>1, <2>2, GotoAt
  <2>4. pc'[w] = "abandon" => pc[w] \in Working
    BY <1>7, <2>1, GotoAt DEF Working, InChunk
  <2>5. MoveEmail(w) \/ CompleteSend(w) => pc'[w] = "quit"
    BY GotoAt DEF MoveEmail, CompleteSend
  <2>6. QED
    BY <2>3, <2>4, <2>5, <1>o DEF Concluding, Acquiring
<1>8. CASE ExpireSelect(w) \/ ExpireWrite(w) \/ ReadQueued(w) \/ ClaimSelect(w) \/ ClaimWrite(w)
           \/ ReadBack(w) \/ Recheck(w) \/ EndDeliver(w)
  <2>1. /\ pc[w] \in Working
        /\ \E next \in {"expireWrite", "first", "leave", "count", "claim", "claimWrite",
                        "readBack", "recheck", "deliver", "settle"} : Goto(w, next)
    BY <1>8 DEF ExpireSelect, ExpireWrite, ReadQueued, ClaimSelect, ClaimWrite, ReadBack,
       Recheck, EndDeliver, Working, InChunk
  <2>2. pc'[w] # "complete" /\ pc'[w] \notin Acquiring \cup {"entry"}
    BY <2>1, GotoAt DEF Acquiring
  <2>3. QED
    BY <2>1, <2>2, <1>o DEF Concluding, MoveEmail, CompleteSend
<1>9. CASE SettleSent(w) \/ SettleSelect(w) \/ SettleWrite(w) \/ SettleEnd(w)
           \/ AbandonSelect(w) \/ ReleaseRows(w) \/ \E r \in Rows : Deliver(w, r)
  <2>1. /\ pc[w] \in Working
        /\ \/ \E next \in {"settleWrite", "settle", "loop", "leave", "releaseWrite",
                           "abandonWrite"} : Goto(w, next)
           \/ pc' = pc
    BY <1>9 DEF SettleSent, SettleSelect, SettleWrite, SettleEnd, AbandonSelect, ReleaseRows,
       Deliver, Working, InChunk, AfterChunk
  <2>2. pc'[w] # "complete" /\ pc'[w] \notin Acquiring \cup {"entry"}
    BY <2>1, <1>o, GotoAt DEF Acquiring
  <2>3. QED
    BY <2>1, <2>2, <1>o DEF Concluding, MoveEmail, CompleteSend
<1>10. QED
  BY <1>1, <1>2, <1>3, <1>4, <1>5, <1>6, <1>7, <1>8, <1>9 DEF Step

LEMMA StatusStep ==
    ASSUME TypeOK, LeaseInv, MailInv, ChunkInv, StatusInv, [Next]_vars
    PROVE  StatusInv'
<1>p. Pending' \subseteq Pending
  BY PendingShrinks
<1>i. StatusInv <=>
        /\ status \in {"sent", "failed"} => Pending = {}
        /\ \A w \in Runs : Concluding(w) => Pending = {}
        /\ \A w \in Runs : pc[w] \in Working => status = "sending"
  BY DEF StatusInv, Concluding, Working
<1>j. StatusInv' <=>
        /\ status' \in {"sent", "failed"} => Pending' = {}
        /\ \A w \in Runs : (Concluding(w))' => Pending' = {}
        /\ \A w \in Runs : pc'[w] \in Working => status' = "sending"
  BY DEF StatusInv, Concluding, Working
<1>w. Working \subseteq Leased
  BY DEF Working, Leased
<1>1. ASSUME NEW w \in Runs, Step(w) \/ Fail(w) \/ Kill(w) \/ Start(w)
      PROVE  StatusInv'
  <2>1. \A v \in Runs \ {w} : pc'[v] = pc[v] /\ kind'[v] = kind[v]
    BY <1>1, StepAlone DEF Alone
  <2>2. \A v \in Runs \ {w} : (Concluding(v))' = Concluding(v)
    BY <2>1 DEF Concluding
  <2>3. /\ pc'[w] \in Working => pc[w] \in Working \/ status = "sending"
        /\ (Concluding(w))' => Concluding(w) \/ Pending = {}
        /\ MoveEmail(w) \/ CompleteSend(w) => pc'[w] = "quit"
    BY <1>1, OwnStatus
  <2>4. \A v \in Runs : (Concluding(v))' => Pending' = {}
    BY <1>p, <1>i, <2>2, <2>3
  <2>5. CASE ~MoveEmail(w) /\ ~CompleteSend(w)
    <3>1. status' = status
      BY <1>1, <2>5, SameStatus
    <3>2. \A v \in Runs : pc'[v] \in Working => status' = "sending"
      BY <1>i, <2>1, <2>3, <3>1
    <3>3. QED
      BY <1>p, <1>i, <1>j, <2>4, <3>1, <3>2
  <2>6. CASE MoveEmail(w) \/ CompleteSend(w)
    <3>1. pc[w] \in Leased
      BY <2>6 DEF MoveEmail, CompleteSend, Leased
    <3>2. \A v \in Runs : pc'[v] \notin Working
      BY <1>w, <2>1, <2>3, <2>6, <3>1 DEF LeaseInv, Working, InChunk
    <3>3. status' \in {"sent", "failed"} => Pending = {}
      <4>1. CASE MoveEmail(w)
        BY <1>i, <4>1 DEF MoveEmail
      <4>2. CASE CompleteSend(w)
        BY <1>i, <4>2 DEF CompleteSend, Concluding
      <4>3. QED
        BY <2>6, <4>1, <4>2
    <3>4. QED
      BY <1>p, <1>j, <2>4, <3>2, <3>3
  <2>7. QED
    BY <2>5, <2>6
<1>2. CASE Tick \/ Webhook \/ (\E r \in Rows : OptOut(r)) \/ UNCHANGED vars
  <2>1. UNCHANGED <<status, pc, kind>>
    BY <1>2 DEF Tick, Webhook, WebhookRead, WebhookWrite, OptOut, vars
  <2>2. \A v \in Runs : (Concluding(v))' = Concluding(v)
    BY <2>1 DEF Concluding
  <2>3. QED
    BY <1>p, <1>i, <1>j, <2>1, <2>2
<1>3. QED
  BY <1>1, <1>2 DEF Next

-----------------------------------------------------------------------------
(* The theorems *)

\* IInv holds in every state the queue can reach.
THEOREM Invariance == Spec => []IInv
<1>1. Init => IInv
  <2> SUFFICES ASSUME Init PROVE IInv
    OBVIOUS
  <2>1. TypeOK
    BY InitTypes
  <2>2. LeaseInv
    BY ConstantsAssumption DEF Init, LeaseInv, Leased, InChunk
  <2>3. MailInv
    BY DEF Init, MailInv
  <2>4. ChunkInv
    BY DEF Init, ChunkInv, BeforeDelivery, AfterDelivery, Unclaimed, Acquiring
  <2>5. StatusInv
    BY DEF Init, StatusInv, Acquiring, InChunk
  <2>6. QED
    BY <2>1, <2>2, <2>3, <2>4, <2>5 DEF IInv
<1>2. IInv /\ [Next]_vars => IInv'
  BY StepTypes, LeaseStep, MailStep, ChunkStep, StatusStep DEF IInv
<1>3. QED
  BY <1>1, <1>2, PTL DEF Spec

\* No resident's message is accepted by SendGrid twice, whatever dies, fails or
\* overlaps (email-send-queue.ts:6-8, spec 3.4).
THEOREM NoMailTwice == Spec => []AtMostOnce
<1>1. IInv => AtMostOnce
  BY DEF IInv, MailInv, AtMostOnce
<1>2. QED
  BY <1>1, Invariance, PTL

\* The rows say `sent` only of what SendGrid took, and never deny what it took.
THEOREM RowsAreTrue == Spec => []RowsTellTheTruth
<1>1. IInv => RowsTellTheTruth
  BY DEF IInv, MailInv, RowsTellTheTruth
<1>2. QED
  BY <1>1, Invariance, PTL

\* Never two live functions past acquireLease for one email.
THEOREM OneWriter == Spec => []SingleWriter
<1>1. IInv => SingleWriter
  BY DEF IInv, LeaseInv, SingleWriter
<1>2. QED
  BY <1>1, Invariance, PTL

\* A send is written as over only when no row is queued or claimed.
THEOREM OverWhenDone == Spec => []FinishedMeansDone
<1>1. IInv => FinishedMeansDone
  BY DEF IInv, StatusInv, FinishedMeansDone
<1>2. QED
  BY <1>1, Invariance, PTL

\* While a send is paused nobody is inside a chunk of it.
THEOREM PauseStops == Spec => []PausedMeansStopped
<1>1. IInv => PausedMeansStopped
  BY DEF IInv, StatusInv, PausedMeansStopped
<1>2. QED
  BY <1>1, Invariance, PTL

\* Someone who was out when their row was claimed gets nothing.
THEOREM NoMailAfterOptOut == Spec => []OptOutRespected
<1>1. IInv => OptOutRespected
  BY DEF IInv, TypeOK, MailInv, OptOutRespected
<1>2. QED
  BY <1>1, Invariance, PTL

-----------------------------------------------------------------------------
(* What a step may never do *)

\* Only a delivery counts as a message, and only of a row its run has claimed.
LEMMA MailsOnlyClaimed ==
    ASSUME TypeOK, ChunkInv, [Next]_vars, NEW r \in Rows, mails'[r] # mails[r]
    PROVE  /\ rowStatus[r] = "claimed" /\ mails[r] = 0
           /\ \A q \in Rows : q # r => mails'[q] = mails[q]
           /\ UNCHANGED <<rowStatus, status>>
           /\ mails'[r] = 1
<1> USE DEF leaseVars, rowVars, chunkVars, extVars, histVars
<1>1. PICK w \in Runs, q \in Rows : Deliver(w, q)
  <2>1. ASSUME NEW w \in Runs, Step(w) \/ Fail(w) \/ Kill(w) \/ Start(w),
               \A q \in Rows : ~Deliver(w, q)
        PROVE  mails' = mails
    <3>1. CASE ~Writes(w)
      BY <2>1, <3>1, QuietStep
    <3>2. CASE Writes(w)
      BY <2>1, <3>2 DEF Writes, ExpireWrite, ClaimWrite, SettleSent, SettleWrite, ReleaseRows
    <3>3. QED
      BY <3>1, <3>2
  <2>2. CASE Tick \/ Webhook \/ (\E q \in Rows : OptOut(q)) \/ UNCHANGED vars
    BY <2>2 DEF Tick, Webhook, WebhookRead, WebhookWrite, OptOut, vars
  <2>3. QED
    BY <2>1, <2>2 DEF Next
<1>2. /\ plan[w][q] = "todo" /\ Settled(w, q) /\ UNCHANGED <<rowStatus, status>>
      /\ mails' = mails \/ mails' = [mails EXCEPT ![q] = mails[q] + 1]
  BY <1>1 DEF Deliver, ChunkInv, AfterDelivery
<1>3. q = r
  BY <1>2 DEF TypeOK
<1>4. rowStatus[r] = "claimed" /\ mails[r] = 0
  BY <1>2, <1>3 DEF Settled, ClaimedBy
<1>5. QED
  BY <1>2, <1>3, <1>4 DEF TypeOK

\* A row the queue has closed is never claimed, queued or mailed again.
THEOREM ClosedRowsStayClosed == Spec => ClosedStaysClosed
<1>1. IInv /\ [Next]_vars => [\A r \in Rows :
         rowStatus[r] \notin {"queued", "claimed"} =>
             /\ rowStatus'[r] \notin {"queued", "claimed"}
             /\ mails'[r] = mails[r]]_vars
  <2> SUFFICES ASSUME IInv, [Next]_vars, NEW r \in Rows, rowStatus[r] \notin {"queued", "claimed"}
               PROVE  rowStatus'[r] \notin {"queued", "claimed"} /\ mails'[r] = mails[r]
    OBVIOUS
  <2>1. Pending' \subseteq Pending
    BY PendingShrinks DEF IInv
  <2>2. rowStatus'[r] \notin {"queued", "claimed"}
    BY <2>1 DEF Pending
  <2>3. mails'[r] = mails[r]
    BY MailsOnlyClaimed DEF IInv
  <2>4. QED
    BY <2>2, <2>3
<1>2. QED
  BY <1>1, Invariance, PTL DEF Spec, ClosedStaysClosed

-----------------------------------------------------------------------------
(* Refinement *)

Mailed   == {r \in Rows : mails[r] > 0}
Finished == status \in {"sent", "failed"}

\* Only completeSend finishes a send, and nothing reopens one.
LEMMA FinishedStep ==
    ASSUME IInv, [Next]_vars
    PROVE  \/ Finished' = Finished
           \/ Finished' /\ Pending = {} /\ UNCHANGED <<rowStatus, mails>>
<1> USE DEF leaseVars, rowVars, chunkVars, extVars, histVars
<1>1. ASSUME NEW w \in Runs, CompleteSend(w)
      PROVE  Finished' /\ Pending = {} /\ UNCHANGED <<rowStatus, mails>>
  BY <1>1 DEF CompleteSend, Finished, IInv, StatusInv
<1>2. ASSUME NEW w \in Runs, MoveEmail(w) PROVE Finished' = Finished
  <2>1. status' = status \/ (status \in {"sending", "paused"} /\ status' \in {"sending", "paused"})
    BY <1>2 DEF MoveEmail
  <2>2. QED
    BY <2>1 DEF Finished
<1>3. ASSUME NEW w \in Runs, Step(w) \/ Fail(w) \/ Kill(w) \/ Start(w),
             ~MoveEmail(w), ~CompleteSend(w)
      PROVE  Finished' = Finished
  BY <1>3, SameStatus DEF Finished
<1>4. CASE Tick \/ Webhook \/ (\E r \in Rows : OptOut(r)) \/ UNCHANGED vars
  BY <1>4 DEF Tick, Webhook, WebhookRead, WebhookWrite, OptOut, vars, Finished
<1>5. QED
  BY <1>1, <1>2, <1>3, <1>4 DEF Next

\* The queue implements AtMostOnceSend: every message it hands over is a Mail of
\* an open row, what closes rows decides them, and it finishes with none open.
THEOREM Refinement == Spec => KeepsPromise
<1>1. Init => Promise!Init
  BY DEF Init, Promise!Init, Pending
<1>2. IInv /\ [Next]_vars => [Promise!Next]_(Promise!vars)
  <2> SUFFICES ASSUME IInv, [Next]_vars
               PROVE  Promise!Next \/ (Pending' = Pending /\ Mailed' = Mailed /\ Finished' = Finished)
    BY DEF Promise!vars, Mailed, Finished
  <2>1. Pending' \subseteq Pending /\ Pending \subseteq Rows
    BY PendingShrinks DEF IInv, Pending
  <2>2. CASE \E r \in Rows : mails'[r] # mails[r]
    <3>1. PICK r \in Rows : mails'[r] # mails[r]
      BY <2>2
    <3>2. /\ rowStatus[r] = "claimed" /\ mails[r] = 0
          /\ \A q \in Rows : q # r => mails'[q] = mails[q]
          /\ UNCHANGED <<rowStatus, status>>
          /\ mails'[r] = 1
      BY <3>1, MailsOnlyClaimed DEF IInv
    <3>3. r \in Pending \ Mailed /\ Pending' = Pending /\ Finished' = Finished
      BY <3>2 DEF Pending, Mailed, Finished
    <3>4. Mailed' = Mailed \cup {r}
      BY <3>2 DEF Mailed
    <3>5. Promise!Mail(r)
      BY <3>3, <3>4 DEF Promise!Mail, Mailed, Finished
    <3>6. QED
      BY <3>5 DEF Promise!Next
  <2>3. CASE \A r \in Rows : mails'[r] = mails[r]
    <3>1. Mailed' = Mailed
      BY <2>3 DEF Mailed
    <3>2. CASE Finished' = Finished
      <4>1. CASE Pending' = Pending
        BY <3>1, <3>2, <4>1
      <4>2. CASE Pending' # Pending
        <5>1. /\ Pending \ Pending' # {} /\ Pending \ Pending' \in SUBSET Rows
              /\ Pending' = Pending \ (Pending \ Pending')
          BY <2>1, <4>2
        <5>2. Promise!Decide(Pending \ Pending')
          BY <3>1, <3>2, <5>1 DEF Promise!Decide, Mailed, Finished
        <5>3. QED
          BY <5>1, <5>2 DEF Promise!Next
      <4>3. QED
        BY <4>1, <4>2
    <3>3. CASE Finished' /\ Pending = {} /\ UNCHANGED <<rowStatus, mails>>
      <4>1. Pending' = Pending
        BY <3>3 DEF Pending
      <4>2. Finished' = TRUE
        BY <3>3 DEF Finished
      <4>3. Promise!Finish
        BY <3>1, <3>3, <4>1, <4>2 DEF Promise!Finish, Mailed, Finished
      <4>4. QED
        BY <4>3 DEF Promise!Next
    <3>4. QED
      BY <3>2, <3>3, FinishedStep
  <2>4. QED
    BY <2>2, <2>3
<1>3. QED
  BY <1>1, <1>2, Invariance, PTL DEF Spec, KeepsPromise, Promise!Spec
==============================================================================
