--------------------------- MODULE AtMostOnceSend ---------------------------
(***************************************************************************)
(* What the email send queue promises, with no runs, leases, claims or     *)
(* clocks: the rows of one send are open until the queue has decided them, *)
(* a row's message is accepted by SendGrid at most once and only while the *)
(* row is open, and the send finishes only when every row is decided.      *)
(***************************************************************************)
EXTENDS Naturals

CONSTANT Rows          \* the recipient rows of one occurrence

VARIABLES open,        \* rows not decided yet
          mailed,      \* rows whose message SendGrid accepted
          finished     \* the send has been written as over

vars == <<open, mailed, finished>>

Init ==
    /\ open = Rows
    /\ mailed = {}
    /\ finished = FALSE

\* SendGrid accepts the message of one row.
Mail(r) ==
    /\ r \in open \ mailed
    /\ mailed' = mailed \cup {r}
    /\ UNCHANGED <<open, finished>>

\* The queue decides some rows for good: sent, failed, suppressed or unknown.
Decide(S) ==
    /\ S # {}
    /\ S \subseteq open
    /\ open' = open \ S
    /\ UNCHANGED <<mailed, finished>>

Finish ==
    /\ open = {}
    /\ finished' = TRUE
    /\ UNCHANGED <<open, mailed>>

Next ==
    \/ \E r \in Rows : Mail(r)
    \/ \E S \in SUBSET Rows : Decide(S)
    \/ Finish

Spec == Init /\ [][Next]_vars
=============================================================================
