---------------------------- MODULE MCEmailSends ----------------------------
(* Small instances of EmailSends and SendTotals for TLC; the safety run checks *)
(* both, the sends of one email and the totals of one send.                    *)
EXTENDS EmailSends, SendTotals, TLC

VARIABLE part

CONSTANTS Sending, Totalling

partsVars == <<vars, totalsVars, part>>

PartsInit == Init /\ TotalsInit /\ part \in {Sending, Totalling}

PartsNext ==
    \/ part = Sending /\ Next /\ UNCHANGED <<totalsVars, part>>
    \/ part = Totalling /\ TotalsNext /\ UNCHANGED <<vars, part>>

PartsSpec == PartsInit /\ [][PartsNext]_partsVars

\* All parts are well typed.
PartsTypeOK == TypeOK /\ TotalsTypeOK

RunSymmetry == Permutations(Runs)
=============================================================================
