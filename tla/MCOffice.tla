------------------------------ MODULE MCOffice ------------------------------
(* Five parts in one run: the proposals of the assistant; the wallet it is    *)
(* paid from; the exports, queued by hand or by a community that changes its  *)
(* manager while the export worker runs; how people get into the portal; and  *)
(* what they ask to change there.  They share no state.                       *)
EXTENDS AiActions, AiWallet, Transition, Onboarding, ChangeRequests, TLC

VARIABLE part

CONSTANTS Proposals, Wallet, Exporting, Handing, Onboards, Asking, agency, manager, board

\* What add-property.post.ts leaves: the agency is the administrator.
MCFirstRole ==
    (agency :> "hoa_admin") @@ (manager :> "property_manager") @@ (board :> "member")

vars == <<actionVars, walletVars, exportVars, transitionVars, onboardingVars, changeVars, part>>

Init ==
    /\ part \in {Proposals, Wallet, Exporting, Handing, Onboards, Asking}
    /\ ActionInit /\ WalletInit /\ ExportInit /\ TransitionInit /\ OnboardingInit /\ ChangesInit
    /\ part # Handing => vendor = "none" /\ billing = "own"
    /\ part # Onboards => logins = {}
    /\ part # Asking => owner = [t \in Things |-> Nothing]

InProposals(action) ==
    /\ part = Proposals /\ action
    /\ UNCHANGED <<walletVars, exportVars, transitionVars, onboardingVars, changeVars, part>>
InWallet(action) ==
    /\ part = Wallet /\ action
    /\ UNCHANGED <<actionVars, exportVars, transitionVars, onboardingVars, changeVars, part>>
InExporting(action) ==
    /\ part = Exporting /\ action
    /\ UNCHANGED <<actionVars, walletVars, transitionVars, onboardingVars, changeVars, part>>
InHanding(action) ==
    /\ part = Handing /\ action
    /\ UNCHANGED <<actionVars, walletVars, onboardingVars, changeVars, part>>
InOnboarding(action) ==
    /\ part = Onboards /\ action
    /\ UNCHANGED <<actionVars, walletVars, exportVars, transitionVars, changeVars, part>>
InAsking(action) ==
    /\ part = Asking /\ action
    /\ UNCHANGED <<actionVars, walletVars, exportVars, transitionVars, onboardingVars, part>>

\* While a community hands over, the worker runs without faults; by itself, with.
Working(action) ==
    \/ InExporting(action)
    \/ InHanding(action /\ UNCHANGED <<exportFaults, transitionVars>>)

Next ==
    \/ InProposals(ActionNext) \/ InWallet(WalletNext) \/ InExporting(ExportNext)
    \/ InHanding(TransitionNext) \/ InOnboarding(OnboardingNext)
    \/ InAsking(ChangesNext) \/ Working(WorkerStarts \/ WorkerStep)

\* An invocation that is not frozen goes on, and the export workflow starts and goes
\* on; time passes; the sweep's cron finds an invocation free again and again, and
\* Stripe retries what was not answered.  Only one part moves in a behaviour, so that
\* one condition over several parts says it of each.
GoesOn ==
    \/ InProposals(\E r \in Requests : ActionStep(r))
    \/ InWallet(\E i \in Invocations : WalletStep(i))
    \/ Working(WorkerStarts \/ WorkerStep)
Ages ==
    \/ InProposals(\E a \in Actions : GrowsOld(a))
    \/ InExporting(\E x \in DOMAIN jobs : TimePasses(x))
IsCalledAgain ==
    \/ InProposals(\E r \in Requests : SweepLists(r))
    \/ InWallet(\E p \in Purchases : Redeliver(p))

Spec == Init /\ [][Next]_vars /\ WF_vars(GoesOn) /\ WF_vars(Ages) /\ SF_vars(IsCalledAgain)

\* All are well typed.
TypeOK == ActionsTypeOK /\ WalletTypeOK /\ ExportTypeOK /\ TransitionTypeOK
          /\ OnboardingTypeOK /\ ChangesTypeOK
=============================================================================
