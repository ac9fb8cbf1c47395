-------------------------- MODULE EmailSendQueueInv --------------------------
(***************************************************************************)
(* The inductive invariant of EmailSendQueue: what TLC checks on small     *)
(* instances and EmailSendQueueProofs proves for all of them.              *)
(***************************************************************************)
EXTENDS EmailSendQueue

\* Who holds the lease.  A live holder's lease is never stale (StaleAssumption),
\* so whoever is about to break one breaks a dead run's.
LeaseInv ==
    /\ \A w \in Runs : runAge[w] <= MaxRun
    /\ \A w \in Runs : pc[w] \in Leased => lease = w /\ leaseAge <= runAge[w]
    /\ lease \in Runs => pc[lease] \in Leased \cup {"off"}
    /\ \A w \in Runs : held[w] \in Runs => pc[held[w]] = "off"

\* Where a run owns no claim yet.
Unclaimed(w) ==
    \/ pc[w] \in {"list", "expire", "expireWrite", "first", "loop", "count",
                  "claim", "claimWrite"}
    \/ pc[w] \in Acquiring \cup {"entry"} /\ kind[w] = "batch"

\* Rows against messages.
MailInv == \A r \in Rows :
    /\ mails[r] \in {0, 1}
    /\ rowStatus[r] = "sent" => mails[r] = 1
    /\ mails[r] = 1 => rowStatus[r] \in {"claimed", "sent", "unknown"}
    /\ r \in hook => mails[r] = 1
    /\ r \in outAtClaim => mails[r] = 0 /\ r \in optedOut

\* A chunk between the claim and the first delivery: nothing is handed over.
BeforeDelivery(w) ==
    /\ Unclaimed(w) => ClaimedBy(w) = {}
    /\ pc[w] = "claimWrite" =>
          sel[w] \subseteq Queued /\ \A r \in sel[w] : plan[w][r] = "ready"
    /\ pc[w] = "readBack" => \A r \in ClaimedBy(w) : plan[w][r] = "ready" /\ mails[r] = 0
    /\ pc[w] = "recheck" =>
          sel[w] = ClaimedBy(w) /\ \A r \in sel[w] : plan[w][r] = "ready" /\ mails[r] = 0
    /\ pc[w] = "abandon" => \A r \in ClaimedBy(w) : mails[r] = 0
    /\ pc[w] \in {"abandonWrite", "releaseWrite"} =>
          sel[w] = ClaimedBy(w) /\ \A r \in sel[w] : mails[r] = 0

\* A chunk from the first delivery to the last settle write.
Settled(w, r) ==
    /\ plan[w][r] # "ready"
    /\ plan[w][r] \in {"todo", "back", "failed", "suppressed"} =>
          r \in ClaimedBy(w) /\ mails[r] = 0
    /\ plan[w][r] = "todo" => r \notin outAtClaim
    /\ plan[w][r] = "sent" => mails[r] = 1
    /\ plan[w][r] \in {"sent", "unknown"} => r \in ClaimedBy(w) \/ rowStatus[r] = "sent"
    /\ r \in ClaimedBy(w) => plan[w][r] # "none"

AfterDelivery(w) ==
    /\ pc[w] \in {"deliver", "settle", "settleWrite"} => \A r \in Rows : Settled(w, r)
    /\ pc[w] \in {"settle", "settleWrite"} => Planned(w, "todo") = {}
    /\ pc[w] = "settleWrite" => \A p \in Outcomes : NextOutcome(w, p) =>
          /\ sel[w] \subseteq Planned(w, p)
          /\ Planned(w, p) \cap ClaimedBy(w) \subseteq sel[w]
    /\ pc[w] = "expireWrite" => \A r \in sel[w] : rowStatus[r] \in {"claimed", "sent"}

ChunkInv == \A w \in Runs : BeforeDelivery(w) /\ AfterDelivery(w)

\* The email's status against the rows and the runs.
StatusInv ==
    /\ status \in {"sent", "failed"} => Pending = {}
    /\ \A w \in Runs : pc[w] = "complete" => Pending = {}
    /\ \A w \in Runs : pc[w] \in Acquiring \cup {"entry"} /\ kind[w] = "finish" => Pending = {}
    /\ \A w \in Runs : pc[w] \in InChunk \cup {"expire", "expireWrite", "first", "loop", "count"}
                          => status = "sending"

IInv == TypeOK /\ LeaseInv /\ MailInv /\ ChunkInv /\ StatusInv
==============================================================================
