# HOA Connect: the formal model

HOA Connect is a Nuxt 4 application on Vercel with Directus as its database. This
directory holds TLA+ models of its concurrent core, the TLC runs that check them and
TLAPS proofs about them. Paths below are relative to `src/`.

| file | what it is |
|---|---|
| `AtMostOnceSend.tla` | what the email send queue promises, with no runs, leases or clocks |
| `EmailSendQueue.tla` | the queue working through one occurrence's rows, request by request |
| `EmailSendQueueInv.tla` | its inductive invariant `IInv` |
| `EmailSendQueueProofs.tla` | the proofs |
| `EmailSends.tla` | one email across all its sends: enqueue, run, close, complete, save, totals |
| `SendTotals.tla` | the totals of one send and the status derived from them, by the runs and by the webhook |
| `EmailDelete.tla` | the delete route among the functions of `EmailSends` |
| `EmailSendsProofs.tla` | the proofs that no part of an occurrence is mailed twice or before its plan is whole, and that a finished send's totals follow its rows |
| `WebSocketManager.tla`, `Realtime.tla` | the browser's one realtime socket, and the components that subscribe over it |
| `RealtimeProofs.tla` | the proofs of their safety |
| `AiActions.tla`, `AiWallet.tla` | what the assistant proposes and does, and the credits it is paid with |
| `AssistantProofs.tla` | the proofs about both |
| `Sums.tla` | lemmas about sums over finite sets, which balances are, and about splitting an amount in order |
| `DataExport.tla`, `Transition.tla` | the export of a community's data, and its change of management company |
| `Onboarding.tla` | invitations, join requests and connected accounts |
| `ChangeRequests.tla` | residents' requests to change their household, and the reviewers who decide them |
| `CommunityProofs.tla` | the proofs that somebody always runs the community, an invited person gets one seat, and an approved change is made once |
| `Payments.tla`, `BillingWorker.tla`, `Reminders.tla` | money on a member's charges, the daily worker, and the dues reminders |
| `MoneyProofs.tla` | the proofs that nothing is booked, charged or reminded of twice |
| `AccountingProofs.tla` | the proofs that charges and transactions add up, that a split pays the oldest first, and of the worker's types |
| `MC*.tla`, `*.cfg` | the instances TLC checks |
| `PROJECT.json` | components, runs, findings, hazards, theorems and the source line of every definition |

## Inventory

The repository has about 250 API handlers, 90 server utilities, pure logic in
`core/shared`, workers in `scripts` and a large Vue front end. Most handlers are one
permission check and one Directus write. The parts with behaviour of their own:

| component | state | operations | what is hard | what makes it correct |
|---|---|---|---|---|
| Email send queue (`core/server/utils/email-send-queue.ts`) | `hoa_email_send_leases`, `hoa_email_recipients` (status, claim, claimed_at), `hoa_emails.status` | acquire/break/release lease, expire, claim, recheck, deliver, settle, release, complete | overlapping invocations, frozen functions, lost answers, 429s, webhook writing the same rows | nobody mailed twice; rows tell the truth; every send ends |
| Enqueue (`email-send-enqueue.ts`, `api/email/send.post.ts`, `process-scheduled.post.ts`) | the snapshot: `send_run_key`, rows, `total_recipients` last | Send, enqueueDue, writeSnapshot and its undo | two schedulers, double click, half-written plan, stale reads | an occurrence is sent once, from a whole plan |
| Tick (`runSendTick`) | the list it read at its start | enqueue due, run, close stale preparing, complete | everything it does later is from that list | never deletes or closes what was mailed |
| Send health (`email-send-health.ts`) | `hoa_emails.status` | auto-pause, Resume | racing runs | a pause lands between runs |
| Webhook (`api/email/activity.post.ts`) | recipient rows, totals | promote, refreshTotals | no lease, retries, arbitrary lateness | promotion only of accepted messages |
| Compose (`save.post.ts`, `[id].delete.ts`) | the email row | save, reschedule, delete | check then write | an email being sent is not edited |
| AI actions (`ai-actions.ts`, `api/ai/actions/*`) | `ai_actions` (status, payload, result._undo), Community Ledger | propose, auto-run, approve, edit, reject, undo, expire | check then act, executor done but row not written | the row tells what ran; an undo reverts that |
| AI wallet (`ai-wallet.ts`) and its purchases | `ai_wallets` pools, `ai_transactions` | charge, credit, renew allowance | lost update, webhook retry, death between two writes | the ledger accounts for the wallet; a pack is credited once |
| Stripe webhook, payments (`webhook.post.ts`, `record.post.ts`) | `payment_transactions`, `payment_requests` | book, split, link, refund, record offline | retries, overlap, event order, death between two writes | booked once; charges = transactions |
| Billing worker and engine (`billing-worker.ts`, `core/shared/billing/engine.ts`) | `payment_requests`, `last_generated_period` | generate, late fees, overdue, autopay, remind | one read at the start, killed and repeated | each period charged once, and in the end |
| Reminders (`reminders.ts`, `rules.ts`) | `hoa_reminder_log`, the stages in a charge's metadata | claim, send, settle, stamp | overlapping ticks, two programs, stale metadata | nobody hears twice of one stage |
| WebSocket manager and subscriptions (client) | one socket, timers, registries, release closures | connect, authenticate, subscribe, release, reconnect, tear down | CLOSING sockets, late answers, unmounts | one connection; subscribed = registered |
| Management transition (`core/shared/transition/plan.ts`, `transition-execute.ts`) | `hoa_members` (role, status, grants), vendor rows, the organization's billing and grace | plan, promote, revoke, deactivate, end-date, detach, open grace, offer export, audit; attach-org, detach-org | a function stopped after any write, trying again, two at once | somebody can always run the community, and it is not locked out |
| Data export (`api/org/export`, `scripts/data-export-worker.ts`) | `hoa_data_exports`, the archives | request, claim, build, mark, purge, release | a killed worker, failed requests, check then create | every request is built or fails |
| Invitations and join requests (`api/hoa/*invit*`, `*join*`, `connect-user-to-member`) | `hoa_invitations`, `hoa_join_requests`, `hoa_members`, Directus users | invite, resend, cancel, accept, ask, decide, connect | check then write, accepting twice, a death after the user was created | one person, one seat |
| Change requests (`change-requests.ts`, `api/org/change-requests/*`) | `hoa_member_change_requests`, the live vehicles, pets and contact rows | ask, decide, apply, mark | two reviewers, a death between the record and the row, a record given away meanwhile | made once; approved = made |
| Recurrence, polls tally, project schedule, send-health verdict | none (pure) | one function each | boundaries, dates | agrees with its definition |
| Auth, access control, storage, channels, notifications, search/RAG, LLM sessions, domains, landing, UI, one-off scripts | CRUD or none | | | per-request checks |

Components interact only through Directus rows, SendGrid and Stripe calls and their
webhooks. No two requests of one handler are in a transaction, so every handler can
interleave with every other between any two requests, and any of them can be frozen by
the platform there. `PROJECT.json` lists the hazards this causes, each at its line.

## Plan

1. `AtMostOnceSend`, `EmailSendQueue`: the property the queue's spec calls "the one
   property". Checked and proved - done.
2. `EmailSends`: the email row across sends - checked, and its safety proved.
3. `WebSocketManager`, `Realtime` - checked, and their safety proved.
4. `AiActions`, `AiWallet` - checked, and their safety proved.
5. `Payments`, `BillingWorker`, `Reminders` - checked; nothing twice, and that the
   amounts add up, is proved.
6. `DataExport`, `Transition` - checked, and the transition's first promise proved.
7. `Onboarding` - checked and proved.
8. `SendTotals`, `EmailDelete`, `ChangeRequests` - checked, and their safety proved; the types of the dues proved.
9. Next: the schedulers' listing limits.

## EmailSendQueue

One occurrence of one email whose snapshot is written, any number of invocations.

**Steps.** A step is one Directus or SendGrid request. Inserting the lease is atomic (a
unique index). Directus resolves a filter-update to keys and then updates by key, so
claim, release, expire and the conditional settle are each a select step and a write step;
the webhook's promotion is a read and a later write. The places `pc` goes through are the
requests of `acquireLease` (`start`, `readLease`, `breakLease`, `retry`), `runBatch`
(`entry` to `count`), `completeSend` (`complete`), `checkSendHealth` and `resumeSend`
(`move`), and the `finally` (`leave`, `quit`; after `leave` a tick goes on to the health
check in the same invocation). `kind` says which function an invocation runs.

**State.** `lease`/`leaseAge` is the lease row; `rowStatus`, `claim`, `claimAge` the
recipient rows; `status` the email. `held`, `sel`, `plan`, `limited`, `seen` are locals: the stale
lease about to be deleted, the keys a filter-update selected, each row's place in
the chunk, `rateLimited`, and whether the last counts had a sent row. `hook` holds
rows the webhook read and will write. `mails`, `outAtClaim` are history. A run's
identity is its lease token; `Fresh` lets an identity be used again only when nothing
refers to it, which is what `randomUUID` gives.

**Abstractions.** `claim` and `claimAge` mean something only while a row is `claimed` (the
code leaves the columns set). settle's writes per failure reason are merged into one per
status. A settle or release that is retried is idempotent and so one step. Reading the
failures and writing the completion is one step. `moveEmail` (read and conditional write)
is one step. Totals are in SendTotals; errors and messages are left out, and a recurring occurrence's return to
`scheduled` is in EmailSends. Rows that the plan itself failed or suppressed are closed
from the start and left out. Ages are capped one past `Stale`, where nothing distinguishes
them.

The webhook finds a row by the `recipient_id` stamped on every queued message; its fallback to the
address, for a row deleted meanwhile, is not modelled.

**Failures.** `Kill`: the platform freezes the function, not even the `finally` runs; a `finally`
whose delete failed looks the same. `Fail`: a request fails; a failed request that did
take effect is that action followed by `Fail` at the next place. `Deliver` covers accepted,
accepted with the answer lost, refused, never arrived, and 429 through all retries.
`StaleAssumption` (`MaxRun <= Stale`) is the repository's own (`email-send-constants.ts`; a
test pins STALE_MS to three times maxDuration). The cron route's maxDuration is in
`vercel.json`; the inline run of `send.post.ts` relies on the platform's default.

**Fairness** (`FairSpec`). A function that is not killed keeps going: WF on every
invocation's steps. The cron fires every minute and lists sending emails before anything
else: SF on starting a batch. Time passes: SF on `Tick`. Nothing is assumed of the webhook,
of the health check, of Resume or of failures, and kills, failures, 429s and slow ticks
are finitely many (`MaxFaults`); without that a send that is killed for ever never ends. More than
50 stuck emails (the list's limit) are not modelled.

| run | question | bounds |
|---|---|---|
| `queue_safety` | all safety properties, the refinement of `AtMostOnceSend` | 2 rows, a chunk of 2, 2 invocations, 2 mishaps, row 1 may opt out; 0.9 million states up to symmetry |
| `queue_liveness` | `SendEnds` | 2 rows in chunks of 1, 1 mishap |

Two invocations are enough for an overlap, a broken lease and a late webhook at once (two
breakers of one dead run's lease need three, which only the theorem `OneWriter` covers);
identities are reused, so there are arbitrarily many runs one after another. Two mishaps
allow a kill and a failure while recovering from it. Two rows tell a chunk half done. `Stale = 1`,
`MaxRun = 1` and `Budget = 1` give each of "young", "at its limit" and "stale" one value.
Deadlock is not checked: a finished send at rest is the normal end. Runs are symmetric;
the liveness run uses no symmetry.

**Properties.** `AtMostOnce`, `RowsTellTheTruth`, `SingleWriter`, `FinishedMeansDone`,
`PausedMeansStopped`, `OptOutRespected` are invariants, `ClosedStaysClosed` says what no
step may do, `KeepsPromise` is the refinement (open rows = queued or claimed, mailed = accepted,
finished = written as over), `SendEnds` is liveness.

## What is proved

For all rows, runs, chunk sizes, ages, budgets and numbers of mishaps, from
`ConstantsAssumption` and `StaleAssumption` alone:

| theorem | statement |
|---|---|
| `TypeCorrect` | `Spec => []TypeOK` |
| `Invariance` | `Spec => []IInv` |
| `NoMailTwice`, `RowsAreTrue`, `OneWriter`, `OverWhenDone`, `PauseStops`, `NoMailAfterOptOut` | the safety invariants |
| `ClosedRowsStayClosed` | the action property |
| `Refinement` | `Spec => Promise!Spec` |

None of the safety properties is inductive. `AtMostOnce` needs to know, of every place in
a run, which rows it has claimed and whether they have been mailed; that needs nobody else
to be between acquire and release; and that needs a live holder's lease never to be
stale. `IInv` says this in parts: `LeaseInv` (a function past acquireLease holds the
lease, whose age is at most its own, so by `StaleAssumption` whoever is about to break a lease
breaks a dead run's), `MailInv` (rows against messages), `ChunkInv` (`BeforeDelivery`: from the
claim to the first delivery nothing claimed was mailed; `AfterDelivery`: every outcome in `plan` agrees with
the row and the message) and `StatusInv` (who may see the send finished or paused). The
proofs show each part preserved action by action; the weaker properties follow.
`Refinement` maps every step to a `Mail`, a `Decide`, a `Finish` or a stutter.

About `Realtime`, for all components, queries, sockets, uids, token requests and numbers of
failures (`ManagerBounds`, `InitsBound`, and the assumptions that `None` is not a key, a socket, a
subscription or a closure):

| theorem | statement |
|---|---|
| `TypeCorrect` | `Spec => []TypeOK` |
| `OneConnectionAlways` | `[]OneLiveConnection` (`OneConnection`, `SignedOutIsClosed`) |
| `OwnersAlways` | `[]OwnersRelease` (`NobodyElseReleases`, `EveryHandlerHasItsClosure`) |
| `ServerServesTheRegistry` | `[]ServerAgrees` |

They rest on four invariants. `TypeInv` adds to the types that a reconnection is pending only below
the limit. `OneLiveConnection` is inductive with it: a socket that connects or is open is the manager's `ws`, and there is one only while
somebody is signed in or after a logout that nobody watched (`missed`). So is `OwnersRelease`: whoever is registered holds the current closure of that very
subscription, and a component whose subscription is current is among its handlers, so a release with an
older closure finds another uid and does nothing. `ServerInv`: two queries never share a uid
(otherwise an unsubscribe of one would silence the other), and each socket was sent just what the
registries held since it was authenticated.

About `Transition` (`CommunityProofs`), from `TransitionConstants` (the agency's staff and those with an account are members; at
first one of them is an administrator) and for any number of members, functions and attempts:
`SomebodyAlwaysRunsIt`, `TransitionSpec => []SomeoneRunsIt`. The invariant is not inductive: that somebody is
an administrator now does not say that the transition under way will leave one. `HandoverInv` adds
`KeeperInv`: every transition under way has a keeper, a member with an account who is active, is not among
those who leave, and is an administrator or the successor whose promotion is still to come. A plan is
executed only with a keeper (`BeginKeeps`, from the blockers of `planTransition`); the promotion makes the
keeper an administrator (`PromoteKeeps`); a departure finds no promotion left, since it comes first, so the keeper is one
already (`DepartureKeeps`); the other writes touch no people (`BookKeeps`). `OneAtATime` gives that no other
transition removes the keeper.
`TransitionTyped`, `TransitionSpec => [](ExportTypeOK /\ TransitionTypeOK)`, takes two facts that no type says:
`BuildsClaimed` (a run of the worker that opens, builds or marks has a job that exists, and has built fewer than it may) and
`PromotesSomebody` (a plan that still promotes names a member). That a queued job is there to be claimed, the oldest, is `OldestQueued`.

About `Onboarding` (`CommunityProofs`), from `OnboardingConstants` and for any addresses, invocations and rows:
`OneSeatForTheInvited`, `OnboardingSpec => []InvitedHaveOneSeat`. That every account has at most one seat now
does not say that an acceptance under way will not give it a second. `OnboardingInv` adds three things.
`TypeInv`: an acceptance acts for the address of its invitation, and the row it found is of that address.
`OwnAddress`: a member whose account is not that of its address was connected by hand.
`SeatInv`: an acceptance past `createUser` is the only one for its address, and until it has written the member nobody
holds that account; once it has, the account has exactly one seat. `createUser` refuses an address in use, so of any number of
acceptances one passes (`LoginKeeps`); that one writes one row (`SeatsKeep`); only then is the invitation marked
(`AcceptsKeep`). What dies on the way leaves the address in use, so no other acceptance ever passes. `OnboardingTyped` is a
part of it.

About `EmailSends`, from `SendsAssumption` and `KeyAssumption`, for any number of functions, batches, Sends, occurrences and mishaps:

| theorem | statement |
|---|---|
| `SendsTyped`, `OncePerOccurrence` | `Spec => []TypeOK`, `Spec => []OccurrenceOnce` |
| `OnlyWholePlans` | `Spec => WholePlanOnly`, an action property |
| `SendsDeletedUnmailed` | `Spec => UndoneSendsUnmailed`, the true part of what `DeletedNeverMailed` says |

The lease alone does not give `OccurrenceOnce`. What refuses a second mail is that the occurrence's rows
exist, and rows are deleted, those of mailed occurrences too. `GoneInv` and `DeleterInv` say what saves such an occurrence:
whoever deletes rows that were mailed closes an email for good (`Terminal`: the row can no longer be enqueued, and no function
is about to, from whatever it read before). The other parts of `SendsInv`: who holds the lease and what its key is
(`HolderInv`), plans are written in order and whole when ready (`PlanInv`, `ReadyInv`), a queued row was not mailed
(`QueuedInv`), and a Send's key is its own until it has a plan (`PressInv`, `UnreadyInv`).

About `SendTotals` (`EmailSendsProofs`), from `TotalsConstants` (the recipients are finitely many), for any number of them and of functions:

| theorem | statement |
|---|---|
| `FinishedIsTrueAlways` | `TotalsSpec => []FinishedIsTrue`, that is `[]FinishedIsWhole` and `[]FinishedTotalsAreTrue` |
| `PartsTyped` | `PartsSpec => []PartsTypeOK`: the types of `EmailSends` and of `SendTotals`, side by side as the run has them |

That the totals are right now does not say that the next to write has counted right. `PlaceInv` says what each function
knows: one at most works under the lease, and only on a send that is not over; who is about to complete has counted nothing queued or
claimed, and that stays so, because only a run makes a row queued or claimed (`FinishedIsWhole` is a consequence).
`CountInv`: unless two have met or a refresh was lost, whatever was counted by the one about to write still stands,
or somebody else has promoted a row since and still owes a refresh.

About `ChangeRequests` (`CommunityProofs`), from `ChangeConstants`, for any number of residents, records, requests and reviewers:

| theorem | statement |
|---|---|
| `ChangesTyped` | `ChangesSpec => []ChangesTypeOK` |
| `MadeOnceAlways`, `ApprovedIsMadeAlways` | `[]MadeOnce`, `[]ApprovedIsMade` |

Being made once is not inductive: the row must be known to be still pending while a reviewer who is alone is at it, and that nobody
else is at it must follow from `doubled`. `ApprovedIsMade` holds even where two met, since a reviewer who is about
to write `approved` has made the change (and ended what was to be removed), and records do not come back.

About the dues (`MoneyProofs`), from `PaymentConstants`, `BillingConstants` and `ReminderConstants`:

| theorem | statement |
|---|---|
| `RoutesBookOnce`, `WorkerBooksOnce` | `PaymentsSpec => []BookedOnce`, `BillingSpec => []BookedOnce` |
| `WorkerChargesOnce` | `BillingSpec => []ChargedOnce` |
| `RemindersTyped`, `RemindedOnceAlways` | `ReminderSpec => []RemindersTypeOK`, `ReminderSpec => []RemindedOnce` |

Each has an invariant of its own, because the three programs share the charges but not their safeguards. A payment is
booked once because, unless two deliveries of it met (`raced`), there is one at most, and while it is about to write there is no
transaction of that payment; as long as nothing is refunded, the one it writes reads `succeeded`, which is what
the guard looks for (`BookingInv`). A period is charged once because the worker writes what it did not see when it began, and
no other run is under way: what is blank in its list has no row at all (`WorkerInv`), and a charge that
is there is never blank again (`ChargesInv`). For the reminders the claim in the log and the stamp on the charge are two safeguards: the tick never repeats itself
because a key is held by the tick that inserted it (`ClaimInv`, `LogInv`); the two programs never repeat each other because an uncontested
charge is in the hands of the one that the rule gives it to (`OwnerInv`). In this proof a change of the rule
turned out to contest too few charges: a tick that has lost a batch insert still has rows to insert, and they count too
(`Change`, `KeysOf`).

About the amounts (`AccountingProofs`, from `PaymentConstants` and `BillingConstants`):

| theorem | statement |
|---|---|
| `RoutesAddUp`, `WorkerAddsUp` | `PaymentsSpec => []MoneyAddsUp`, `BillingSpec => []MoneyAddsUp` |
| `RoutesSplitOldestFirst`, `WorkerSplitsOldestFirst` | the same of `SplitOldestFirst` |
| `DuesTyped` | `BillingSpec => [](PaymentsTypeOK /\ BillingTypeOK)`, provided there is a day |

`MoneyAddsUp` speaks of states in which nobody is writing amounts; in between the sums differ, so the invariant
has to say by how much. `Balanced`: unless two writers have met (`met`), there is at most one, and what the charges say was
paid, with what that one `Owes` (all of it before the split, the shares still to be written, the rest of a charge settled
by hand, nothing once it is done), is what the succeeded transactions say was received. A write adds to the amount that was read,
so `Read` adds that it still stands, and that the charge at hand is the oldest of those left. `Unrefunded`: as long as the refund of a payment is not handled,
its transactions read `succeeded`, so a refund takes its amount from the sum once. `StatusAgrees`: a charge
that does not read paid is short of its price, so one settled by hand is owed something; what is not issued has nothing. With the
worker the same invariant holds because it never writes an amount: `WorkerAmounts` says that what it saw at its start
was issued, so its late patches touch the status and metadata only, and what it inserts has nothing paid.

`SplitOldestFirst` is about a computation, for every set of issued charges and every amount up to their sum, and needs only the types.
The module's `Shares` gives a charge what is left after all older ones (`SharesFill`: it is an instance of `FillsUp` of
`Sums`, for the strict total order `Older`). `TakenBefore`: what any older ones take together is the lesser of the
amount and what they lack; from it follow that all of them take the amount (`AllTaken`: the last one takes the excess) and that
nobody who takes anything has an older one lacking something (`NothingLacksBefore`).

About the assistant (`AssistantProofs`), from `ActionConstants` and `WalletConstants`:

| theorem | statement |
|---|---|
| `ActionsTyped`, `RowTellsAlways`, `UndoRevertsAlways` | `ActionSpec => []ActionsTypeOK`, `[]RowTellsWhatRan`, `[]UndoReverts` (`UndoIsOfTheExecution`, `UndoneIsGone`) |
| `WalletTyped`, `PurchasesStandAlways` | `WalletSpec => []WalletTypeOK`, `[]PurchasesStand` (`PackCreditedOnce`, `PurchasesSurviveResets`) |
| `LedgerCoversAlways` | `WalletSpec => []LedgerCoversTheWallet` |

`ActionsInv` rests on one observation: a write over a row that somebody has changed is marked `stale` when it is made, so
as long as an action is not, every writer wrote the very row it had read, and of several approvals only
the first to write is the row's. `Knows` says what a function at each place had read, and the rest counts who may still record,
tell the ledger or revert. `WalletInv` is `PackInv` (unless two deliveries of a pack met, the one at work has credited nothing yet, or is about to append
the ledger row by which the next one will know) and `PoolInv` (while charges and credits do not meet, the purchased pool and what was
spent from it are what was credited, and the one writer has read the present pool). The ledger is another matter, because `Replayed` sums the whole sequence:
`AloneInv` says that unless two writers have met, the one at work has read the present pools, and the ledger covers the
wallet, or will with the row about to be appended. `ReplayedGrows` says that appending a row replays to one more step (`After`) of what was
replayed before; `DebitCovers`, that a debit leaves at least as much of pools that are at least as large, and no larger difference; a renewal adds
to `lapsed` just what the ledger then tells too much.

**Induction.** The library's induction rules take an operator, which no installed prover can instantiate. The proofs here use
instead that a set of natural numbers that is not empty has a least element (`LeastNumber` of `Sums`, from the well-foundedness of
`<`): the least length at which two replays of one ledger differ, or the least cardinality of a set
on which a recursive function is not defined. `Sums` shows in this way that the function behind
`MapThenSumSet` exists, is unique and does not depend on the order of choice (`SumRemove`, `SumChange`, `SumOfPart`), and that a finite
set in a strict total order has a first element (`FirstExists`); `TakenBefore` is by the first charge at which it would fail.

The runs `office` and `money` put several modules side by side, one of them moving in each behaviour. `OfficeTyped` (`CommunityProofs`) and
`MoneyTyped` (`AccountingProofs`) are their type invariants, about the specification of the run itself: `OfficeInv` and `MoneyInv` are
the invariants of the parts together, and a step of one part leaves the others' standing. For `MoneyTyped`, `PartsAssumption` of `MCMoney`
says that the parts have different names and that what the routes begin with is due within the days there are. Two of its lemmas are about
the routes: a payment of several open charges is for more than nothing (`PaySeveralTypes`), and the charges that the
run begins with keep the books (`RoutesStart`).

Only model-checked: liveness (fairness and ENABLED are out of the prover's reach), `ExportEnds` among it.
The documented statements that fail are refuted by their runs.

## EmailSends

One email across manual Sends and scheduled occurrences. A step is again one request,
except that `acquireLease` and the work on a batch of rows are single steps: EmailSendQueue
has their detail, and `OneWriter` is why a live holder's lease is not taken. A dead holder's
lease can be broken at once. The email row is a record (`status`, `key` = send_run_key,
`ready` = total_recipients set, `at` = scheduled_at). `rows[k]`, `open[k]`, `mails[k][b]` are the parts of
occurrence `k`'s plan that exist, are queued, and how often each was mailed.

Functions: `send` (the route: read, then writeSnapshot under the lease, then perhaps the
inline run), `enqueue` (cron or process-scheduled: list, read again, refuse without the
lease or writeSnapshot), `run` (list, then runBatch or, in the third phase, `finish` from the
counts read before the lease), `close` (closeStalePreparing from the list), `save`, `refresh`
(refreshTotals). `Functions` selects those that are called. A function remembers only what it
uses later. What is read early and used late is the subject of the module: `seen`, `key`.

Abstractions: PREPARE_STALE_MS (10 minutes) outlives every function, so a tick sees a send as stuck only
when no other writer of it is alive. Occurrences are at least a day apart, so `TimePasses` only
when nothing runs; `now` is 0 until the first is due. A save keeps or moves `scheduled_at` forward. The audience of an occurrence is
the same on every attempt, so batches collide on `dedupe_key` as wholes. Pause and Resume hold
their lease for three requests and are single steps. The Send route's content update and the
web_slug write touch no modelled field. Totals are in `SendTotals`, the delete route in `EmailDelete`.

| run | question | bounds |
|---|---|---|
| `sends_safety` | `OccurrenceOnce`, `WholePlanOnly` | 2 invocations, plans of 2 batches, 1 Send, 2 occurrences of a recurring email, 1 mishap, beside the totals below; 6.3 million states (2 mishaps also pass, too long for the regular run) |
| `sends_liveness` | `PreparingEnds` | 1 Send, 1 occurrence, 1 mishap; WF on every step, SF on the tick's listing |
| `closed_mailed` | `DeletedNeverMailed`, which fails | as `sends_safety` |

## EmailDelete

`EmailDelete` adds the route `api/email/[id].delete.ts` to those functions, in three steps: it refuses what is not a
draft (`StartsDelete`), deletes all recipient rows (`DeletesRows`), deletes the email, and with it the lease by its foreign key (`DeletesEmail`).
In between a Send may start, and even end. Once the email is gone nothing is modelled: every function on it fails at its next request.

| run | question | bounds |
|---|---|---|
| `sent_deleted` | `SentEmailsAreKept`, which fails | 1 invocation of the Send route or the tick, plans of 2 batches, 1 Send, 1 mishap |

## SendTotals

`hoa_emails.total_sent`, `total_failed` and `total_unknown` are never counted up. Who changes recipient rows counts them all, in one aggregate, and
writes what it counted in another request: the runs after every chunk (`writeCounts`) and at the end (`completeSend`), the tick's third
phase, which counts before it asks for the lease (`CountsListed`, `AcquiresToFinish`), and the webhook, which holds no
lease at all (`refreshTotals`: read the email, count, write; the status is derived again only if the email read was finished).

`call[v]` is one function: its place, the status it read, what it counted, the rows it has in hand, and whether it
`owes` a refresh for rows it promoted. The lease is its holder's place, for it is taken, kept and released as EmailSendQueue
says (`OneWriter`). A chunk's claim, its delivery and settlement are one step each; expiry takes any of the claimed rows, as their ages are
in EmailSendQueue. `met` marks that totals were written between another's reading and its writing, at or after the
completion, and `cut` that rows were promoted and their refresh lost: the code serialises neither. Left out: suppressed rows, which count
like failed ones; pausing and recurrence, after which the totals are those of another occurrence.

| run | question | bounds |
|---|---|---|
| `sends_safety` | `FinishedIsTrue` | 2 recipients, 3 invocations; 0.8 million states of that run (`part` says whether the sends or the totals move) |

Three invocations are a run, the tick's third phase and a webhook call, or two webhook calls on one finished send. Invocations
start afresh, so there are arbitrarily many one after another. Nothing bounds how often a row is released and claimed again.

## Realtime

`WebSocketManager` is the module-level state of `useWebSocketManager.ts`; `Realtime`
extends it with the components that use it through `useRealtimeSubscription.ts`. A tab runs
one task at a time, so an action is one task: a socket event, a timer, the answer to the
token or REST request, a watch, or a call of subscribe or release. What is asynchronous is
what the code awaits (`inits`, `tokenFetches`) and what the browser or the server does by
itself (a closed socket stays CLOSING until its close event; an auth message is answered later;
`asked`, `authed`, `sent` are the server's side of each socket).

The watch on `loggedIn` belongs to the component whose setup first called `_init`. With that layout it stops
(`LayoutLeaves`, `watching`), and `_initialized` lets no other be made; it is not known when, so it may be at any moment. A `Logout` while the watch is there does
`Forget`: tear down and clear both registries. A later one does nothing but change `loggedIn`, which `missed`
remembers; `SignedOutIsClosed` claims nothing after it (Known deviations), while `OneConnection` and the other properties go on holding.
Nor does anything tie a token to a user: `TokenArrives` sends a token fetched before a logout over
whatever socket is open by then, so the properties speak of connections, not of whose they are.

`subs` is both registries, `_sharedSubs` and `_subscriptions`, which the code always changes
together. A release closure is the pair of query and uid it captured; uids and sockets are
identities that may be used again when nothing refers to them. Row data, its sorting and
the rows' events are left out; so is the back-off's length (a timer may fire whenever it is
set) and the wait for the auth message (`Unanswered`).

Fairness (`FairSpec`): timers fire, requests and the server answer, close events come, and the
tab becomes visible again now and then (`Revive`). Nothing is assumed of sign-out, of failures
or of the components. Without `Revive` the property is false: after MAX_RECONNECT failures
the tab gives up until it is looked at again.

| run | question | bounds |
|---|---|---|
| `realtime_safety` | one connection, none after a logout that was seen, server = registries, nobody else releases, every handler owned | 2 components over 2 queries, 2 sockets, 3 uids, 2 token requests at once, 1 failure, 1 fetch per component; 2.5 million states up to symmetry |
| `realtime_liveness` | `RegisteredGoesLive` | 1 component and query, 2 sockets, 2 failures; no symmetry |

Two sockets are an old and a new one; a third could only be closed as well. Two components
share a subscription or have one each; a third uid is for a subscription made while closures of
two older ones are still held.

## AiActions and AiWallet (run `office`)

**AiActions.** The routes under `api/ai/actions` and `ai-actions.ts`. A function reads the row,
perhaps reads what it is to overwrite (`Previous`), executes, writes the row, writes the Community
Ledger, each in a request that may be refused or lose its answer; nothing is locked. An
executor is abstracted to what its undo has to put back: a creating one makes a record and remembers
its id, a restoring one overwrites a field and remembers its value. The payload is one of two
values. Two approvals at once do execute twice, although `ai-actions.ts:510` says it "refuses anything
not `pending` (no double-execute)"; so the properties are about rows nobody overwrote after
reading something else (`stale`) and executions whose outcome reached the row (`lost`), and say
that these two are the only ways to an untrue row.

**AiWallet.** `ai-wallet.ts` and the pack purchase of the Stripe webhook. Every operation finds or
creates the wallet, computes from what it read, writes the pools and appends its ledger row.
Deliveries are repeated until answered; an error is logged and answered 200, a killed function is not answered.
`contested`, `met` and `mixed` say which races the properties exclude, because the code has no
lock: overlapping charges forget a debit, overlapping deliveries credit a pack twice
(Known deviations). `After` and `Replayed` are the repository's own replay, `applyCredit` and `deriveBalance`: a grant is added. A renewal
sets the allowance instead and writes no row for what was left of it; `lapsed` sums that up, and `LedgerCoversTheWallet` says that this is
the only way in which ledger and wallet differ, in one direction: no pool is told less than it has, the whole is told too much by no more than `lapsed`,
and until something lapses (in particular over any charges, overruns and packs) the two are the same. Prices are a set of costs; auto-recharge, which nothing calls, is left out.

Bounds: 2 actions of which one proposed at a time, 2 invocations, 2 calls, 1 failure; 1 pack of 2
credits, a plan of 2 and a call costing 3 (so that a debit takes from both pools and may exceed
them), 2 invocations, 3 calls, 1 failure.

## DataExport and Transition (run `office`)

**DataExport.** `api/org/export/index.post.ts` looks for an export in flight and then queues a row, two
steps (`AskExport`, `QueueExport`), so a community may have two in flight. `builder` is the worker's run: its
stage, the rows it listed, the job in hand and how many it has built. The stages are the requests of `runQueue`:
list the expired archives, delete each file, mark each row, list the stale jobs, fail each, then claim, read
the community (outside the `try` of `runJob`), build and upload, mark ready, or mark failed. A request may be
answered, fail, or take effect without an answer (`Write`); the run may be killed anywhere. Time is a flag `old` on
a job: six hours after `date_started` of a running one, `expires_at` of a ready one. Two runs never overlap, by the
workflow's concurrency group, and a run is stopped after 60 minutes, so a job in hand is never stale. The
archive's contents and the runs by hand are left out. `ExportEnds` says that no row stays queued or running.

**Transition** extends it, because the transition queues an export too. `handover[h]` is what function `h` has still
to do: the set of steps left of its plan, the successor, those whose grants go and those who leave. `PlannedSteps`
and `CanExecute` are `planTransition`; each step is an action that writes what `executeTransitionPlan` writes, in the
order `Rank` gives (grants and memberships one row at a time, the seat sync and the export's look and insert on their own), and
`Stops` is the executor's `catch` or the death of the function: nothing is undone. Afterwards, anybody may try
again from a new snapshot, with any successor and any members to leave. `DetachOrg` is the plan in which nobody
leaves, with the second seat sync of its route; `AttachOrg` the way back. Taking the snapshot and making the plan is one step. Free
accounts (which need no grace), names, board titles, warnings and dates are left out; `grace` is that the window was opened,
not how long it lasts. `Accounts` are the members linked to a user. `overlapped` and `unreachable` mark the two
cases in which the code gives no promise: two transitions at once may remove each other's administrators, and
`eligibleSuccessors` accepts a member without an account.

| run | question | bounds |
|---|---|---|
| `office` | all properties of the six modules | exports: 2 communities, 2 rows, 2 requests at once, one archive per run, 2 failures or kills; transitions: an agency's administrator, a manager and a board member, 1 function, 2 transitions one after another or attachments, 2 exports, the worker without faults; onboarding and change requests: below; 0.4 million states in all |
| `locked_out` | `EveryPrefixIsSafe`, which fails | the same |

`AiActions`, `AiWallet`, these two, `Onboarding` and `ChangeRequests` share no state. All are checked in one run, in which `part` says which of
them moves (`Handing` is a transition with the worker going on); the union of their states is explored, not the product. With one archive per run
and two rows, the second waits for the next run. Two transitions are a stopped one and its repetition.
One function in the run is enough because `SomeoneRunsIt` claims nothing of overlaps; the theorem is about any number.

Fairness: an invocation that is not frozen goes on, the hourly workflow starts and goes on (WF, `GoesOn`); proposals
and jobs grow old (WF, `Ages`); the sweep's cron finds an invocation free again and again and Stripe delivers
what was not answered (SF, `IsCalledAgain`). As only one part moves in a behaviour, one condition over several parts says it
of each. The cron, the workflow and the retries are the schedulers the code is deployed with. Failures and kills are finitely many.

## Onboarding (run `office`)

One community's `hoa_members` (`roster`, oldest first: email, status, user), its `hoa_invitations` and `hoa_join_requests`,
and the Directus users (`logins`), which exist before the community does. `visit[v]` is one function: the request it makes
next (`at`), for whom, about which row, and the member it found. A step is one Directus request, and between any two
the function may stop (`GivesUp`) or any other may run. The checks of `invite-member`, `request-join`, `approve-`,
`reject-join-request`, `resend-`, `cancel-invitation` and `connect-user-to-member` are one step, the writes a later one, by id and
whatever the row has become. In an acceptance the look for an existing user and `createUser` are one step, because a
user's email is unique and `createUser` refuses one that is taken. The adopted member is the oldest that is active and has no
account, as of the step before the write.

Left out: roles, grants, residency, unit links, `member_count` and mails, which decide nothing here; tokens (an
acceptance takes any invitation that is pending); the statuses `inactive` and `pending`, which the gate and `invitableMembers`
treat as they treat `archived` (no handler here gives a member the status `pending`); deleting a member or changing an address,
after which the property would say nothing. Members are entered, archived and restored at any time, as the members
page and imports do (`Enrolls`, `SetsStatus`).

`byHand` remembers whose seats an administrator gave without the acceptance's guard: `approve-join-request` looks at neither the
roster nor the account, `connect-user-to-member` at the member only. For everybody else `InvitedHaveOneSeat` says that
the account has at most one member, and one as soon as an invitation reads `accepted`.

Bounds: 1 address, 2 functions, 4 requests in all, 2 members, 2 invitations, 1 join request. Two invitations sent at
once, as the look for a pending one allows, and two acceptances at once take four requests. Addresses meet only in
`connect-user-to-member`; the invariant was checked with two as well, and the theorem is about any numbers.

## ChangeRequests (run `office`)

A resident asks for a change of their own household (`request.post.ts`): the ownership of an existing vehicle or pet is checked in one
step (`Asks`), the row is made in a later one (`Files`). `decide.post.ts` is three requests: refuse what is not pending (`StartsReview`), for an approval
apply the change to the live record (`Applies`, which is `applyChangeRequest`), write the row's status (`Marks`). A review may stop
anywhere (`StopsReview`), and two may be at one request. Meanwhile managers change records directly (`GivesTo`, `EndsRecord`).

`owner` and `ended` are the live records, as far as whose they are and whether they have an end date. An update
changes columns that are left out, and notifications are too. `made`, `met` and `cut` are history. That the owner is compared when the change is asked for
and never again is a known deviation. `MadeOnce`
excepts requests at which two reviewers met and those whose approval was applied by a function that did not
record it, because the code prevents neither.

Bounds: 2 residents, 1 record, 1 request, 2 reviewers, 2 direct edits, 1 review that stops. What another request does to a record is what
a manager may do to it, and two requests with one edit were checked as well (0.7 million states); the theorems are about any numbers.

## Payments, BillingWorker and Reminders (run `money`)

**Payments.** What `webhook.post.ts` does with `payment_intent.succeeded`, `charge.succeeded` and
`charge.refunded`, and `record.post.ts`. A transaction is written, then every share is read
and written onto its charge, then the Community Ledger. Amounts are cents. Stripe repeats an event that was not
answered, and at times one that was, and in any order. `Shares` is `splitPaymentAcrossCharges` without its
loop; `SplitOldestFirst` compares it, in every quiet state reached, for every set of issued charges
and every amount. `raced` and `met` mark what the code does not serialise (two deliveries at
once, two writers of one amount, a function that stopped between the transaction and the
charges: its retry stops at the duplicate guard, so those charges are never credited).

**BillingWorker** extends it with `scripts/billing-worker.ts` for one unit and owner: everything is read at the
start; charges, late fees and overdue marks are written row by row; `last_generated_period` after the
charges; autopay with an idempotency key of the day. A run may be killed anywhere and repeated the same
day; two never overlap, by the workflow's concurrency group. Days are numbers; the calendar and
the amounts by share are data.

**Reminders.** The hourly tick of `reminders.ts` and the last step of the worker's run. The tick
claims a key per charge, stage and person in `hoa_reminder_log` (all of a group in one insert, one by one
when that collides), notifies, settles the rows and stamps the stage on the charge; the
worker stamps over the metadata it read at its start. A day stands for one window of a charge (days
before, due day, grace, after), the board's window being taken as the worker's seven
days. `contested` are charges whose stamps were lost or late or whose rule changed under a program;
for those only the tick's own promise is claimed. A row that was claimed by a tick that died is never sent
(at most once, by design). The other rules use the same tick without stamps.

They are checked in one run of three parts (`part`): the routes by themselves, with split payments,
refunds and offline payments; the worker with one function that books what it takes; and the reminders. The
worker's part leaves out refunds and the linking of charge ids, which read and write nothing the worker does
but the status of a transaction.

Fairness, of the worker's part only: days pass (SF, for a run under way holds the day), the workflow starts (WF) and
goes on (WF). Kills are finitely many.

| run | question | bounds |
|---|---|---|
| `money` | all properties of the three modules | 2 periods and their fees, 2 intents, 2 functions, 1 failure or repetition in the routes' part, one each in the worker's, 4 days; 2 charges of 1 person, 2 ticks, 2 days, 1 mishap; 0.8 million states |
| `refund_lost` | `RefundFlowsBack`, which fails | the same |

A key is one person's, so `RemindedOnce` is about one. Two ticks overlap; two charges make a group whose
claim may collide in part.

## Findings

Each is a run with expect "violation"; `PROJECT.json` quotes the lines.

- `closed_mailed`: a scheduler that read a recurring email before its occurrence was sent and
  rolled forward re-opens that occurrence; killed there, the tick deletes delivered rows
  and reports that nobody was sent this.
- `refund_lost`: when `charge.succeeded` is handled before the payment is booked, the
  transaction never gets its charge id and the refund finds nothing to mark.
- `locked_out`: billing is detached and `subscription_status` set to `expired` in one write, the grace window opened in
  another after the seat sync with Stripe; stopped in between, the community is locked out, and a new
  transition plans no grace because there is no billing account any more.

- `sent_deleted`: the delete route checks for a draft and deletes later; a Send that started in between has mailed
  people by then, and the email that is "kept for records" is gone.

### Known deviations without a run

The models contain these behaviours; the run for each was given up for one of the above.

- A row SendGrid answered 429 is queued and handed over again: "deliver() at most once, ever"
  (`docs/spec-email-send-queue.md:269`) is too strong, no message is doubled (`AtMostOnce`).
- A failure inside `store.claim()`, after its write, leaves the chunk claimed until it expires as
  `unknown`; the same document (208) says the run releases it.
- The second of two clicks on Send is accepted when the first has finished inline (156 says it
  is refused).
- A createRows whose answer was lost leaves rows the undo does not delete; every later tick collides with them.
- refreshTotals writes a stale `sent` over a newer send in progress, which no tick then lists.
- A refresh that fails after its rows were promoted is not made up for: the event is repeated, but the rows already read `sent`
  and so nobody counts again.
- A refresh reads the email while it is still `sending`; a run then completes it as `failed` from counts taken before the row
  was promoted; the refresh writes the totals but, by what it read, not the status. The send stays `failed` with a sent row, although
  a send "becomes `sent` once the evidence arrives" (`email-send-queue.ts:657`).
- Two reviewers of one change request, or one that is stopped after the live record was changed, leave a request that
  reads rejected although it was made (`create-member-change-requests.ts:6`: "never mutated until" approved).
- A component unmounted during its first fetch subscribes afterwards (`useRealtimeSubscription.ts:213`); nobody holds a
  reason to release that subscription, so the socket is kept open for it until sign-out.
- The watch that tears the connection down is the one of the layout that made it first (`useWebSocketManager.ts:84-106`). Once that layout has been left, a
  logout closes nothing and clears no registry, and the next login in the tab finds the old socket and subscriptions,
  although "the next user must not inherit the previous user's routing table" (97-99).
- Two approvals of one AI action both execute (`ai-actions.ts:510`), and so may an approval and the sweep or an edit that read
  `pending` before it; an execution whose `executed` could not be written reads `failed` or `pending`, and nobody can undo it.
- `deriveBalance` adds every grant and relies on an "adjustment before the period's grant" (`credits.ts:301-302`) that `ensurePlanAllowance` does not write
  (`ai-wallet.ts:95-110`): with allowance left at a new month, the ledger tells more than the wallet has, although "the
  ledger and the cached balance stay in agreement" (164-166).
- Two calls that charge or credit one wallet at once: the later write forgets the earlier (`ai-wallet.ts:179`). Two deliveries of one pack that overlap, or a
  death between the pools and the ledger row, credit it twice (293); an error while crediting is answered 200 and the pack is lost (`webhook.post.ts:179`).
- Two deliveries of one PaymentIntent that overlap book it twice (`webhook.post.ts:200`); one that died between the transaction and the charges is never completed.
- A change that was asked for while the vehicle or pet was the asker's is applied though it was given to another resident meanwhile
  (`change-requests.ts:130`). Two reviewers at once may make one change twice.
- Two transitions at once may remove each other's administrators (`transition-execute.ts:71`).
- The worker and the tick stamp over what they read before: stamps made in between are lost (`billing-worker.ts:662`).
- A reminder tick stamps the stage on a charge after notifying one resident of the unit; what its time
  budget left for the others is not due at the next tick (`core/shared/reminders/rules.ts:323`), although
  `reminders.ts:21-23` says that it is.
- A successor need not have an account: `eligibleSuccessors` does not look at the member's user, although
  the blocker for an empty list says "give them an account" (`plan.ts:320`).
- After detach-org, agency staff are no longer recognised in a later transition, since `transition-snapshot.ts:118` reads
  the roster only with a billing account; `plan.ts` says that they are outgoing by default and never eligible.
- An acceptance that dies after `createUser`
  strands the invitee: every later one answers "A user with this email already exists"
  (`accept-invitation.post.ts:130`), and neither a resent nor a new invitation helps.
- A member archived after their invitation was sent is not adopted by its acceptance, which creates a second,
  active member for them; `docs/plan-member-management.md` (decision 2) lets no invitation restore a former resident.
- `approve-join-request` creates a member whoever is on the roster: somebody whom the roster holds without an
  account becomes two rows, and two approvals of one request create two.
- `connect-user-to-member` checks that the member has no account and writes a request later, and never asks
  whether the account has a member already.
- A failed `deleteFile` in `purgeExpired`, or a `ready` whose answer was lost, leaves an archive no row points to.
- Two requests at once queue two exports of one community (`api/org/export/index.post.ts:48`, 67).

## Not modelled

`PROJECT.json` lists every component with its status and reason. In short:

- audience resolution, rendering and templates: data.
- the legacy synchronous send, which no deployment with the queue uses; the limit of 50 on the list of sending emails.
- channels, polls, notifications, search, LLM sessions, access checks, CRUD handlers and the
  Vue front end hold no concurrent state of their own beyond the rows they show.
- schema and permission scripts run once.

Most of the repository's lines are pages, templates, type declarations and such scripts, which is why the
modelled share of its lines is small.
