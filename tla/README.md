# Liberty: models of the commands that must not be lost or doubled

Liberty is the operating system of a payment-processing sales organisation: a
public site, a CRM with pipelines, and a server that carries deals from a lead
to a live merchant account.  Most of its 4300 files are pages, reports, imports
and seeds.  The part whose correctness is hard to see from the code is small:
the **durable commands** by which the server does something outside itself
(submits an application to a processor, sends an agreement, mirrors a stage to
an outside CRM, writes to a merchant, hands a booking over) while processes
crash, leases expire, answers are lost, events arrive late and people edit the
case.  This directory models that part in TLA+, checks it with TLC and proves
its core, with a refinement, in TLAPS.

Paths below are relative to `src/server/services/` unless they start with `src/`.

## 1. Inventory

| Component | State it keeps | Operations | Interacts with |
| --- | --- | --- | --- |
| Boarding submit route (`src/server/routes/boarding.ts`) | `deals.boarding_status`, a row of `deal_boarding_outbox` | submit (one transaction), receipt, refresh one, refresh all | readiness, outbox table |
| Boarding outbox worker (`deal-boarding-outbox-worker.ts`) | row: status, attempts, last_error; deal: status, application id, log | claim, re-check, fence, send, settle, reclaim stale | processor adapters, readiness, deals, audit, tasks |
| Readiness and case tuple (`boarding-readiness.ts`, `boarding-case.ts`) | none of its own | evaluate, bridge an application | route and worker |
| Status refresh (`boarding.ts`) | `boarding_status`, `boarding_log`, MID | read, poll, compare, apply; record a failure | processor, stage service |
| Processor adapters and activation snapshots | snapshots | submit, poll, confirm | worker, refresh |
| Deal stage service (`deal-stage-service.ts`, `go-live-gate.ts`) | `deals.stage`, intents | move (locks the deal), gate | every route and automation |
| Stage effect worker (`deal-stage-effect-worker.ts`) | intents with a lease, receipts | claim, receipt, effect, complete, fail | CRM, invitations, checklist, lifecycle |
| Underwriting override (`underwriting-override-service.ts`) | decision, audit of command ids | override with move and follow-ons | stage service |
| Lifecycle service (`lifecycle-service.ts`) | `contacts.lifecycle_state`, history | transition, administrator's override | effects, SDR agent, statements |
| Merchant application outbox (`merchant-application-outbox-worker.ts`) | rows, markers in the audit log | claim, reclaim, eleven handlers, wait / hold / retry | e-sign provider, mail, CRM |
| Merchant application service (`merchant-application-service.ts`) | application with state version | save, finalise, request and record e-sign | outbox |
| Outbound pause and control (`outbound-pause-authority.ts`, `outbound-control-service.ts`, `outbound-queue-coordinator.ts`) | one control row (state, epoch, key), registrations of sends, audit, holds | authorise, register, re-check; pause, resume, revise, edit; approve a release | every sender, the settings routes, the CRM client |
| Workflow executor and run lease (`workflow-executor.ts`, `workflow-run-lease.ts`, `followup-effects.ts`, `workflow-local-actions.ts`) | runs with log and lease, receipts of steps | trigger, execute, wait, resume, park, retry | mail and text providers, deals, tasks |
| Webhook receipts (`ghl-webhook-receipts.ts`, `ghl-webhook-effects.ts`) | receipts and step rows, each with a lease | claim, adopt, heartbeat, step, settle | the provider, every webhook handler |
| Appointment events (`ghl-appointment-events.ts`, `sdr/scheduling.ts`) | appointments, lead stage and current meeting, outreach pause | transition, local step of each kind, calls | receipts, hand-over |
| Enrollment hand-over and recovery (`ghl-workflow-enrollment.ts`, `ghl-handoff-dispatch-ledger.ts`, `ghl-enrollment-recovery.ts`) | dispatch ledger, deferred enrollments | claim, request, settle, defer, recover, park, cancel | the provider's workflows |
| Statement commands, paid-provider budget, staged imports, communication arbitration, CRM sync | leases, cursors, budgets | see `PROJECT.json` | not modelled (section 6) |
| Enrichment, scrapers, seeds, advisors, reports, client | data | - | not modelled (data and I/O, no control worth a model) |

What is hard here, in the order of how often it appears in the code:

1. a claim outlives its lock or lease: two processes work on one row;
2. a process dies between an outside effect and its record;
3. an outside answer is lost, so the outcome is unknown;
4. a fact is read, then awaited over, then used (case, stage, log, pause, obligation);
5. events and redeliveries arrive late, twice, with another content, in any order;
6. an attempt counter that is both a retry budget and the name of a claim;
7. keys that make a repeated command look like a replay.

`PROJECT.json` lists each hazard at its line with the property that covers it.

## 2. Modules

| Module | Models | Extends / instantiates |
| --- | --- | --- |
| `BoardingPromise` | what submission promises about a deal (abstract) | |
| `DealBoarding` | one deal, its commands, the worker processes, the processor | `Promise == INSTANCE BoardingPromise WITH ...` |
| `BoardingSystem` | `DealBoarding` composed with the processor's decision and concurrent status refreshes | `DealBoarding` |
| `DealStage` | one deal's stage, overrides, intents, receipts, sweeps, the CRM's mirror | |
| `Lifecycle` | one contact, overlapping transitions | |
| `EsignOutbox` | one application, its e-sign rows, markers, workers | |
| `OutboundPause` | the control row, processes that send, requests that pause, resume and edit | |
| `WorkflowRuns` | one run of a workflow, its executors, scans and retries | |
| `WebhookReceipts` | receipts and step rows: the part every webhook handler shares | |
| `Appointments` | appointment handlers, hand-over ledger and recovery worker, under those receipts | `WebhookReceipts` |
| `DealBoardingProofs`, `BoardingPromiseProofs`, `BoardingSystemProofs`, `DealStageProofs`, `EsignOutboxProofs`, `OutboundPauseProofs`, `WorkflowRunsProofs`, `AppointmentsProofs` | theorems | the module, each other, `TLAPS` |
| `MC*` | symmetry and event sets for TLC | the module |

### State and actions against the code

**DealBoarding.**  `status`, `attempts`, `lastError`, `captured` are columns of
the outbox row; `dealStatus`, `dealApp`, `monitored` are the deal, its audit and
its task; `appRev` and `caseRev` stand for `merchant_applications.updated_at` and
the rest of the case tuple; `ready` is the verdict of
`evaluateBoardingReadiness`, of which some blockers are outside the tuple;
`held[c]` is what the processor really holds.  A worker has a program point and
what it remembers: the claimed command, the attempt number, whether it saw the
marker.  One action is one transaction, one provider call or one read that ends
at an await.  `CheckLinkage`, `CheckReadiness`, `CheckSnapshot`, `FinalFence`
follow the order of `handleProcessorSubmit`; every settlement is `SettleWith`, a
write fenced on (id, processing, attempts).  `Fault` lets any awaited step throw
and `CatchFailure` is the catch block of `tick`; `Abandon` is the death of a
process or a settlement that throws inside the catch block.

**BoardingPromise** knows no rows, workers or locks: a command is accepted while
the deal is free, is taken by the processor once at most, and ends as delivered,
failed, refused or held.  `Outcome` and `DealStanding` in `DealBoarding` are the
refinement mapping: an open row is "open", a dead row ends by its `last_error`.

**BoardingSystem** adds `log`, `mid`, the processor's `verdict` and the local
state of refreshes.  A refresh reads the deal, later the case, polls, and applies
under a version comparison (`Stale`, `Conflicts`).  `RecordFailure` writes the
log that was read at the start.  The worker's transaction that records the
application id also appends the entry that names the processor
(`BoardingStep`).

**DealStage**: an intent is identified by (from, to, effect) for a move and
(decision, action, effect) for an override, as the unique transition key does.
`Insert` is `ON CONFLICT DO NOTHING`.  A lease token is represented by the worker
that took it, as a worker holds one lease and forgets it when it dies.
`receipt` is the side-effect boundary, `performed` and `remote` are outside.  An
effect may find nothing to do when its turn comes (`Dismiss`: no CRM configured or
no contact in it, a portal activated before, a deal without an owner, an override
that was replaced), and the worker still completes receipt and intent as succeeded.
The model keeps the receipt's `state` and its disposition in one value: "applied",
or "waived" for the dispositions `not_configured`, `not_applicable` and
`already_activated`.  Two effects write "applied" in either case (`Silent`): the
lifecycle projection of a stage without a lifecycle state or a deal without contact,
and the underwriting initialisation, whose failed insert is only logged.  What there
is to do is not state of the model: each execution may find it either way.  Nor is the
control room's pause of CRM mutations: `Gate` may put an override's CRM task off at any
time.

**Lifecycle**: `Read` is the unlocked read with the rule check, `Write` the
transaction that does not look at the state again.

**EsignOutbox**: `unsettled` is the number of started minus refused markers in
the audit log, `spent` a history variable (attempts that failed or were lost).
`ApplySendState` may or may not write, because its version race may be lost and
its caller ignores the result where the code does.

**OutboundPause**: `state`, `epoch`, `key` are `outbound_pause_control`;
`lastPause` the two epochs that the audit trail
gives to the last pause; `hold` the active holds by reason; `cache` each
process's cached read, which may be as old as it likes.  A send is `Authorize`
(from the cache) / `RegisterInflight` / `RecheckEpoch` / `Attempt` (the CRM
client's fresh read before every attempt) / `ProviderCall`; `Lapse` is the end of
the sixty seconds of a registration.  Two kinds of mail (an operator's seed test and
the receipt of an inbound request, `src/server/services/smtp-email.ts:262`) are let
through a standing pause on purpose: `AuthorizeLease` grants them in any state the
database reports but "activating", and their re-check (`LeaseGood`) asks for the same
epoch, not for the unpaused state.  What else their claim or capability must prove is
abstracted to "may be refused".  A request is `SubmitRequest`, or
`ReadForEdit` and `ApplyEdit` for a reason without a state; both go through
`Mutate` (`Revise`, `Activate`, `Resume`), then `Drain`, `CommitPause` and
`SyncLegacy` (the moment at which the older flag is written; the flag itself is no state
of the model).  The swallowed error of a statement about the holds, after which
the transaction commits nothing, is a disjunct of `Resume` and `CommitPause`.

**WorkflowRuns**: `status`, `at`, `log`, `lease`, `live` are the run; `receipt` the
receipts of its steps; `effects` what happened outside or in other tables.  `moot`
are the steps that have no subject at present (no packet matches, the deal is gone,
the sequence is not found or not allowed): they are logged as skipped, which neither
halts the run nor makes it less than completed (`SkipStep`).  A step of a kind the
executor does not know is counted the same way and stands under the same entry.
`Skippable` are the steps this may happen to, and `ChangeSubjects` adds or deletes a
subject.  `omitted` is a history variable, the sends that were ever skipped.  An
executor holds its own copy of the log from entry to save, as the code does.
Sends claim a receipt before the call and settle it after; a local record and its
receipt are one transaction under the lease; other steps have neither.
`ReadForRetry` and `Reopen` are two statements, as the set of completed steps is
computed before the run is reopened.

**WebhookReceipts / Appointments**: a delivery stands for its claim token.
`TxCommit`, `TxReplay`, `TxFails` are the three ends of `runReceiptTxStep`, which
locks the receipt until effect and step row are committed; `CheckClaim`,
`ClaimRow`, `CompleteRow`, `ReleaseRow` are the statements of `runReceiptStep`.
`Transition` is `transitionGhlAppointment` under its advisory lock; `LocalStep`
the local transaction of each kind (`Booked`, `Showed`, `EndedOne`,
`TimeChange`), which for a cancellation or a no-show also retires the owed
confirmation under its occurrence lock.  `plan` is what the step rows keep as
results for a redelivery.  The hand-over is `Dispatch` (the ledger's claim) /
`Send` / `SettleSent` / `Defer`; the recovery worker is `Recover` / `Lock` (the
obligation is read again under its lock) / `DispatchRecovered` / `SendRecovered`
/ `SettleRecovered` / `Retire` or `Park`.

## 3. Runs

| Run | Instance | Shows |
| --- | --- | --- |
| `DealBoarding_safety` | 2 commands, 2 workers, 2 attempts, 1 revision; 953,844 states | exclusive claims, at most one application per command, marker discipline, a deal in flight agrees with row and processor, and that the outbox implements `BoardingPromise` |
| `DealBoarding_liveness` | 1 command, 2 workers, fair; 63,412 states | every command is settled or has spent its attempts |
| `BoardingSystem_safety` | 2 commands, 1 worker, 2 refreshes, log up to 3; 221,392 states | decisions are the processor's and final, the log keeps its submission, a queued deal is carried but for two named cases (one needs a resubmission after a decline, which `DealBoarding` alone does not reach) |
| `DealStage_safety` | 2 sweeps, 1 decision, 1 move; an effect that may be waived and a silent one; 445,015 states | at most one effect per intent, receipts that tell what was done, settled intents that stay |
| `DealStage_projection` | 3 onboarding stages, 1 sweep, fair; 17,932 states | the mirror is accounted for, every intent ends |
| `Lifecycle_safety` | 2 callers, 4 target states, 3 history rows; 58,913 states | steps back are overrides or overtaken calls |
| `EsignOutbox_safety` | 1 row, 2 workers, 3 attempts; 16,974 states | claims stay exclusive although waits lower the attempt, waits are free, one agreement until it is signed |
| `OutboundPause_safety` | 2 processes, 1 key, 4 epochs, leased mail; 1,458,084 states | the pause is a barrier, an edit keeps the state, holds survive approvals under a pause |
| `WorkflowRuns_safety` | wait, send that may be skipped, plain, local step; 2 executors, 1 fault, 1 edit; 1,059,513 states, fair | guarded steps once, nothing behind a send that was held, what is called completed was done or is logged as skipped, every run ends |
| `Appointments_safety` | 2 deliveries, 2 appointments, the scenarios below; 324,956 states | acknowledged is done, the lead's meeting is right, one confirmation, nothing owed is lost, nothing that was owed is sent after a cancellation or a no-show |
| `DealBoarding_duplicate`, `EsignOutbox_signed` | as above | the disagreements of section 5 |

Why the bounds are enough.  The conflicts are between two processes over one row
and two commands over one deal: two of each.  Two attempts give a first try, a
retry and the limit; the e-sign row has three, so that a wait, a loss and a
failure can meet before the limit.  One revision is a change between capture and
use.  Three onboarding stages give a deal that goes one by one and one that
jumps.  The log needs a submission, an observation and one lost entry.  Four
epochs hold a whole pause and a resumption, or a pause that another request
overtakes.  In `WorkflowRuns` one fault is one lost lease, death, or failing
statement, and one edit is a change of the definition or of what a step is about.

`Appointments` has no use for all events at once: `Scenarios` lists what the
provider may send and how many faults there may be.  Every three of eight events
(two bookings, an update, a move, a show, a no-show, two cancellations) arrive in
any order and overlap without faults; a booking of two contents with a no-show,
and a booking with a cancellation, have one fault; a booking alone has two.  In
development all sets of four events without a fault, some with one fault,
and the two-content scenario with two (1,142,797 states) were checked too.

`MaxTries` (DealStage), `MaxSends` (EsignOutbox), and the saturating `effects` and
`confirmed` only stop telling large counts apart.  Every bound is a guard or a
saturating counter and is named in the module.  Deadlock is checked except where
a finite instance really rests (all intents, rows, runs or deliveries settled):
the `.cfg` says so.

### Fairness

`setInterval` starts a tick for ever in every process, and both outbox workers take
the oldest eligible row, so claiming and reclaiming are weakly fair
(`WF(Reclaim)`, `WF(Claim(w))`).  A started tick runs on unless it fails, and the
transport ends every provider call by a timeout: `WF(WorkerStep(w))`.  Nothing is
assumed of users, of the case, or of the processor.  `DealBoarding` lets
processes die for ever: each death costs an attempt, so the bounded attempts end
the command.  `DealStage` needs more, since an intent whose process dies is
claimed again without a limit: in the long run no process dies and no lease is
outrun by its holder (a lease lasts two minutes).  `WorkflowRuns` assumes that the
scan (every few minutes) claims what is due and parks what is stuck, that an
executor's call comes to an end, and that the lease of a dead executor runs out;
triggers, retries, edits and faults are not fair.  No liveness is claimed of
`Appointments`: whether an owed confirmation is taken is the provider's choice, and
a redelivery would need strong fairness against the recovery worker, which may
hold the occurrence lock again and again.

## 4. Proofs

Every safety property that a passing run checks of `DealBoarding`, `BoardingSystem`,
`DealStage`, `EsignOutbox`, `OutboundPause`, `WorkflowRuns` and `Appointments` is
proved, for any sets of commands, workers, rows, stages, effects, refreshes, steps,
deliveries, events and appointments and for any bounds.  The assumptions are the named ones of each module (`DealBoarding`: the "no
command" value is no command, attempts are positive, revisions are a natural number;
`BoardingSystem`: a bound on the log; `DealStage`: the first stage is one, "override"
is none, "no lease" is no sweep; `EsignOutbox`: finitely many workers, "no row" is no
row; `OutboundPause`: no key is "none", there is an epoch; `WorkflowRuns`: the kinds
of step are disjoint, "no lease" is no executor; `WebhookReceipts`: "none" is no
delivery, event, content or step; `Appointments`: appointments are numbers and events
have a kind, an appointment and a time, `ApptsAreNumbers`, `EventsAreTyped`,
`ScenariosAreBounded`); TLC evaluates them on every run.
Two theorems have a hypothesis on the constants of their own, explained below:
`OneAgreementSent` (one row) and `MirrorTracked` (onboarding, one sweep).

| Theorem | Module | Statement |
| --- | --- | --- |
| `TypeCorrect` | `DealBoardingProofs` | `Spec => []TypeOK` |
| `ClaimsExclusive` | `DealBoardingProofs` | `Spec => []ClaimsAreExclusive` |
| `MarkerHolds` | `DealBoardingProofs` | `Spec => []MarkerDiscipline` |
| `OneApplication` | `DealBoardingProofs` | `Spec => []AtMostOneApplication` |
| `PromiseIsKept` | `DealBoardingProofs` | `Spec => PromiseKept`, i.e. `DealBoarding` implements `BoardingPromise` |
| `PromiseHolds` | `BoardingPromiseProofs` | the promise implies one open command, that a held command holds the deal, and true and final outcomes |
| `SubmissionHolds`, `DuplicateHolds` | `DealBoardingProofs` | `Spec => []SubmissionIsReal`, `[]DuplicateOnlyAfterRefusal` |
| `PauseTypeCorrect`, `BarrierHolds` | `OutboundPauseProofs` | `Spec => []TypeOK`, `Spec => []NoSendUnderPause` |
| `EditHolds`, `ReleaseHolds` | `OutboundPauseProofs` | `Spec => EditKeepsState`, `Spec => ReleaseNeedsResumption` |
| `RunsTypeCorrect`, `RunsActOnce` | `WorkflowRunsProofs` | `Spec => []TypeOK`, `[]GuardedOnce` |
| `RunsHold`, `CompletedRunsDelivered` | `WorkflowRunsProofs` | `Spec => []NothingBehindAHold`, `[]CompletedIsDelivered` |
| `DecisionsAreReal`, `SubmissionsStayLogged`, `ApprovalsFinal` | `BoardingSystemProofs` | `SysSpec => []DecisionIsReal`, `[]SubmissionStaysLogged`, `ApprovalIsFinal` |
| `QueuedHolds`, `OneApplicationInSystem` | `BoardingSystemProofs` | `SysSpec => []QueuedIsCarried`, `[]AtMostOneApplication` |
| `EsignTypeCorrect`, `ClaimsExclusive`, `WaitsFree`, `SettledRowsFinal` | `EsignOutboxProofs` | `Spec => []TypeOK`, `[]ClaimsAreExclusive`, `[]WaitsAreFree`, `SettledIsFinal` |
| `OneAgreementSent` | `EsignOutboxProofs` | with one row, `Spec => []OneAgreementUntilSigned` |
| `StageTypeCorrect`, `EffectsAtMostOnce`, `SuccessesAreReal`, `SettledIntentsFinal` | `DealStageProofs` | `Spec => []TypeOK`, `[]EffectAtMostOnce`, `[]SuccessIsReal`, `SettledIsFinal` |
| `MirrorTracked` | `DealStageProofs` | in the onboarding pipeline with one sweep, `Spec => []MirrorIsTracked` |
| `AppointmentsTypeCorrect`, `AcknowledgedIsDone`, `PointerIsAlwaysCurrent` | `AppointmentsProofs` | `Spec => []TypeOK`, `[]AckedIsDone`, `[]PointerIsCurrent` |
| `ConfirmedAtMostOnce`, `HandoffIsAlwaysOwned` | `AppointmentsProofs` | `Spec => []ConfirmedOnce`, `[]HandoffIsOwned` |
| `CanceledIsNeverRecovered`, `TardyNeverSends` | `AppointmentsProofs` | `Spec => CanceledIsNotRecovered`, `TardySendsNothing` |

**At most once.**  `AtMostOneApplication` is not inductive: nothing in it stops a
second process from being past the fence.  The invariant that carries it (`IInv`)
is `MarkerDiscipline` together with exclusive claims:

* *SendersAlone*: whoever is past the fence is the only one, and its command is
  held by nobody;
* *MarkerKept*: a command that may have reached the processor has its marker
  until it is settled;
* *MarkerSeen*: the owner of a row knows of the marker if there is one;
* *RetryIsSafe*: what an owner may put back to be sent again never arrived.

Every step is shown to be a frame step (nobody else moves), a quiet step (the
marker and the processor are untouched), the end of a claim, the fence, the
provider's answer, a claim or a change of the queue; each group has one lemma.
The exclusivity of attempt numbers is what makes `Owns` name one process.

**The refinement.**  `RInv` adds to `IInv` what deal and rows must agree on
(`DealAgrees`: an open command is alone and its deal queued, a held or delivered
command marks the deal) and what a process may rely on at each of its points even
when it has lost its row (`PointsAgree`: who is about to send has a command that is
open, held or refused, never failed or delivered).  Every action is then put into
one of four kinds (`Promised`): it changes nothing that was promised, the
processor takes a command, a request is accepted, or the owner of a row ends its
command.  `StepMaps` shows that each kind is a step or a stutter of
`BoardingPromise`, and `InitPromised` maps the initial states.  A late provider
call of a process whose row was settled as ambiguous or refused is the reason
that the promise lets a held or refused command be taken.

**What the deal says.**  `OInv` is proved from the four kinds of step rather than
from the actions: the application on file is a delivered, monitored command
(`Filed`); only what was neither unknown nor failed is at the processor, and what
is delivered is (`Taken`); one command at a
time is under way, held or delivered (`OneAtATime`); and a second one needs a
refusal (`Refusals`).  The lemma `SettledStays` (a settled row keeps its state and error) is what makes
a refusal citable for ever.

**The barrier.**  All four properties of `OutboundPause_safety` are proved, for any
processes, keys and bounds.  `BInv` says where a send may be and what the control
row then is: whoever is past registration has a row in the store, live or lapsed
(`Registered`); no process has read an epoch that does not exist yet, and who has
read the present one knows the state (`EpochsKnown`); and a pause that is past its
drain, in the epoch it activated, finds only lapsed sends (`Drained`); afterwards
a send is lapsed or leased in an epoch of that pause (`AllExcused`).  Every change of the control moves the epoch, so a
pause that commits in the epoch after its activation commits behind its own drain,
which gives `NoSendUnderPause`; what starts later fails its re-check, unless it is
leased mail whose lease is of the pause's own epoch or a later one: the re-check
compares epochs, so a lease of before the pause admits nothing.  `HoldsKept`
(jobs held under a pause are held in its name) carries `ReleaseNeedsResumption`.

**A run.**  `GuardedOnce` needs `Once`: between claim and settlement the receipt is
open (`CallsOpen`), so nobody else claims the step, with or without the lease
(`CallsAlone`), and a settled receipt tells how often the step took effect
(`ReceiptsTrue`).  The lease does not occur in it: receipts alone carry the property.
`NothingBehindAHold` needs `InOrder` on top: a log, and every copy of it in the hands
of an executor that may have lost the lease, calls a message sent only if it went out
(`LogTrue`); a retry leaves out only such messages; and every executor on its way to a
step has all earlier messages behind it (`PassTrue`), as has a waiting run
(`RunTrue`).  Behind it means `Cleared`: the message went out, or some executor
skipped it for want of a subject, which the history variable `omitted` remembers.  Settlement is the step where both meet: an entry "completed" needs an
accepted answer, and `CallsOpen` says what that answer means.

`CompletedIsDelivered` needs to know what a log leaves out.  An executor without the
lease may still write that the run is blocked, together with its stale copy of the
log, so a log may forget entries; what carries the proof is that nobody rewrites a
run that has not ended under its holder (`Undisturbed`).  `AllDone` says of the holder
that every step behind it took effect or is on its copy as not done (`Passed`), and of
every copy, in whatever hands, that a step it calls done took effect (`DoneTrue`), so
that a retry leaves out nothing else.  It speaks of messages and local records (`Due`),
the steps whose success a receipt vouches for, and takes an entry "skipped" as what it
is: the code counts it apart and calls the run completed, so the property does too.
A stage move, a tag or an enrolment is completed when its statements ran, also if they
found nothing to change, so nothing is claimed of it.

**The composed boarding system.**  Refreshes write the deal's status, so the agreement
of deal and rows that `DealBoardingProofs` proves of the outbox alone does not hold
here: after a decline the deal may be queued again and a late refresh may overwrite
that.  What does hold (`Filing`): before there is an application one command at most is
open and its deal queued; with an application nothing is open, unless the processor
declined it.  So an approved deal has nothing open that could settle it, and a
refresh that would move it conflicts.  `Filing` needs that a tick which owns a row of
a deal with an application only reconciles it (`OwnersLate`), which follows from the
one open command: when an application arrives, nobody else owns anything.  A refresh
under way always belongs to the application still on file, and its copy of the log
names the processor (`RefreshesTrue`); that is why the log may be overwritten.  The
steps of the outbox enter through three kinds (`Unseen`, `Opens`, `Closes`), and its
type, claim and marker lemmas are reused as they are.

`QueuedHolds` is proved here and not of `DealBoarding` alone, where no deal is ever
declined.  It needs `FiledIsDelivered` (the application on file is that of a delivered
row, and stays so).  The end of a command that leaves the deal queued is then one of
three (`SettlementCarries`): the row goes back to pending and carries the deal; the
refusal for want of a snapshot, the first exception; or a reconciliation, which happens
only when an application is on file, and with an open command beside it that one is a
declined one of another command, the second exception.  A refresh never writes
"queued" over another status, as the processor does not answer it.

**The e-sign outbox.**  A wait gives the attempt back to the row, so a number is handed
out again and "attempts only grow" is false.  `Claims` says instead that every claim
under way has a number not above its row's attempts (`TokensBounded`), so the number
that a wait returns belongs to nobody else.  `OneAgreementSent` counts: agreements sent
and calls under way together never exceed the unsettled markers (`Marked`), of which
there is at most one until the merchant signs (`OneMarker`).  The first is an argument
about the cardinality of the set of workers in the call, hence its finiteness.  Its hypothesis is one row: markers are counted per
application without a lock (`merchant-application-outbox-worker.ts:711`), and two rows
send twice.

**Stage effects.**  `EffectInv` puts a boundary at the receipt: a sweep that is past it
is the only one there (`OneBegun`), the receipt tells whether the effect took place
or was waived (`Recorded`, `Boundary`), and a sweep that takes an expired intent over finds the
receipt begun and does not perform it, so lease expiry needs no assumption on time.
`MirrorInv` is about a deal that only moves forward: no projection is ahead of the deal
(`Forward`), the present stage has a projection unless the deal never moved
(`Entered`), and once that took place the CRM shows the stage (`Shown`).  TLC refutes
`MirrorIsTracked` without either hypothesis: two sweeps project out of order, and a
sales deal that goes back meets its old intents.

**Appointments.**  The seven properties of `Appointments_safety` rest on one invariant
(`IInv`) in three parts, each of which uses the ones before it.

* *Receipts* (`ReceiptsAgree`): who holds a receipt handles its event with its content,
  every completed step ran with that content, and a delivery that has come to a point
  has behind it what the point needs (`Position`), whether or not it still holds the
  receipt.  Who reaches the end is therefore through (`Through`), and only then is a
  receipt marked applied, so `AckedIsDone` follows.  Nothing in it depends on time:
  a delivery whose lease ran out can only complete rows that a transaction fences.
* *The hand-over* (`HandoverAgrees`): whoever is between the request and its settlement,
  delivery or recovery, is the only one for its appointment, because the ledger says
  "started" (`OneRequest`), so the ledger knows how often the provider took the
  confirmation for all entries but a started one, which knows it is at most once
  (`LedgerAgrees`).  The recovery sends only what it found owed under the lock that a
  cancellation respects (`RecoveryAgrees`, `CutAgrees`), and a delivery that came too
  late never reaches the confirmation, since an appointment that ended never changes
  again (`EndedStays`, `TardyAgrees`).
* *The pointer* (`PointerAgrees`): between the transition of an event and its local step
  the lead may be wrong, but only about appointments for which such a step is still
  due (`Lagging`): in the meeting stage the pointer is at one of these, or before all
  open appointments that are none of these (`LeadPoints`).  When every event that came
  is through there are none, and the first open appointment is unique
  (`FirstIsCurrent`), which is `PointerIsCurrent`.  That `Current` is defined at all, for
  infinitely many appointments, needs the well-foundedness of the numbers
  (`FirstExists`).

`HandoffIsOwned` is inductive only in the form stated: a booking that reports "held"
has a confirmation, an obligation, a surrender (parked, or dropped by
`ghl-enrollment-recovery.ts:679` with no more than a warning in the server's log), or an
end.  A ledger entry "started" is not needed to
excuse it, since a held reply is deferred before it is reported.

Only model-checked: the property of `Lifecycle`, and all liveness (fairness and
ENABLED are outside the reach of the prover).  No module uses a recursive operator.

## 5. Where code and comments disagree

Two have a run of their own (`PROJECT.json`, findings):

| Run | What happens |
| --- | --- |
| `DealBoarding_duplicate` | the refusals for readiness, case and payload run before the surviving marker is looked at and overwrite it; the deal can be submitted again, and the processor holds two applications |
| `EsignOutbox_signed` | a retry after the merchant signed sends a second agreement |

Others were seen in the models (with another property, bound or instance) and are
stated as exceptions in the properties or listed as hazards.

*Boarding and merchant applications*

* a last attempt that is lost leaves a row that is pending for ever and a deal that is
  queued for ever (`deal-boarding-outbox-worker.ts:129`; its header, 13-14, says
  "Dead-letter after MAX_ATTEMPTS"); `EveryCommandEnds` states the exception.  The same pair of
  queries is in `merchant-application-outbox-worker.ts:184` and `:205`;
* after a decline the next command is "delivered" without a provider call, since the
  application id is never cleared (`deal-boarding-outbox-worker.ts:393`, against
  `src/server/routes/boarding.ts:659`).  The deal is left queued with nothing open, a
  status no request may submit from, until a refresh writes the processor's old answer
  over it; `QueuedIsCarried` names it as an exception;
* the refusal for a missing activation snapshot leaves the deal queued
  (`deal-boarding-outbox-worker.ts:613`, the other exception of `QueuedIsCarried`);
* a failed refresh writes a log from a stale read
  (`src/server/routes/boarding.ts:54`);
* a refresh that still sees the declined application may write its status over a
  deal that has been queued again; with three commands two rows are then open;
* two e-sign rows of one application (a second request after a refusal) can both
  pass the marker count (`merchant-application-outbox-worker.ts:711`);
* an e-sign send state whose write loses its race stays queued with no row
  (`merchant-application-outbox-worker.ts:727`).

*Stages and lifecycle*

* the second time a deal makes the same move none of its effects is created
  (`deal-stage-service.ts:229`, against `:254` "GHL opportunity stage sync is always
  guaranteed after a local update"); it needs a move back, which only the sales
  pipeline has, so `MirrorIsTracked` is checked in the onboarding pipeline;
* with two sweeps an older stage may be written to the CRM last
  (`deal-stage-effect-worker.ts:119`), so `MirrorIsTracked` is checked with one;
* an intent that found nothing to do is recorded as succeeded like one that was carried
  out (`deal-stage-effect-worker.ts:121`, `:134`, `:145`, `:160`, `:172`); only the
  disposition of its receipt tells them apart, and for a lifecycle projection or an
  underwriting initialisation not even that (`:116`, `:142`).  A projection that came up
  while no CRM was configured is never made up for: `MirrorIsTracked` accounts for it by
  the waived receipt, and `SuccessIsReal` says exactly what a receipt is worth;
* a lifecycle call that was overtaken moves the contact back
  (`lifecycle-service.ts:131`): `BackwardOnlyWhenOvertaken` says that nothing else does.

*Outbound pause*

* the second transaction of a pause asks whether the state is "activating", not
  whether its own request made it so (`outbound-control-service.ts:428`).  When the
  pause is resumed and another one begun in between, the first request commits
  "paused" although a sender registered after its drain is calling; the header
  (line 13) says "No provider request may begin after the pause activation
  linearization point".  `NoSendUnderPause` is stated for pauses whose two
  transactions are adjacent;
* the same header line holds of all mail but the two leased kinds, which
  `outbound-pause-authority.ts:367` and `:399` let through a standing pause by design.
  `NoSendUnderPause` excepts a send whose lease was granted in that pause, and no other;
* a change of the reason alone asks for the state that a cached or failed read gave
  (`src/server/routes/activation.ts:1573`), and so may pause or resume; `EditKeepsState`
  is stated for a read that was current, and so does not cover this case;
* an error of a statement about the holds is caught inside the transaction
  (`outbound-control-service.ts:485`, `:581`), which PostgreSQL then rolls back while
  the request reports success;
* the older flag is written after the commit of a resumption
  (`outbound-control-service.ts:591`), and so over a pause that has begun since (read from
the code: the flag is outside the model).

*Workflow runs*

* of two retries the later one executes steps that the earlier one completed, because
  the set of completed steps is read (`workflow-executor.ts:719`) before the run is
  reopened (`:723`); `:355` says that "a step that already completed ... is never
  repeated".  Steps with a receipt are safe (`GuardedOnce`), others are not;
* the two writes that block a run (`workflow-executor.ts:269`, `:298`) ask for no lease,
  against `:195` "a lost lease writes nothing";
* the mark of an interrupted run stays in its log, so that a retry that completes every step is
  still classified as blocked;
* a wait that cannot be saved is logged as failed and the loop goes on behind it;
* "completed" is not "all of it was done": a step that found no packet, deal or sequence
  (`workflow-executor.ts:508`, `:541`, `:561`, `:574`) or is of an unknown kind (`:669`)
  is skipped, holds nothing that comes behind it although it may be a send, and leaves
  the run completed; `:231` says that such steps stay visible in the log, which is what
  `CompletedIsDelivered` claims of them;
* a run without an occurrence key is never parked when its executor dies, and a step
  without a receipt is repeated after a crash.

*Appointments*

* a booking whose calls failed after its local step is replayed after a no-show and
  sets the outreach pause again, which nothing then lifts: the check for a
  superseded event is after the pause (`sdr/scheduling.ts:381`, `:385`);
  `ghl-appointment-events.ts:19` says of such an effect that it "is superseded and does not
  run".  TLC finds it with one booking, one no-show and one fault;
* that check and the hand-over are apart, so an appointment may end between them and its
  confirmation, when it is held by the provider, becomes owed after the cancellation;
  `CanceledIsNotRecovered` speaks of what was owed before;
* "showed" ends an appointment too (`ghl-appointment-events.ts:112`), but
  `handleAppointmentShowed` (`sdr/scheduling.ts:399`) retires nothing: a confirmation that
  was owed is still sent after the meeting took place, against
  `ghl-appointment-events.ts:19`.  TLC shows it with a booking and a show, so
  `CanceledIsNotRecovered` is stated for a cancellation and a no-show only;
* the claim check and the insert of a step row are two statements
  (`ghl-webhook-effects.ts:63`, `:66`), so a delivery that has lost its receipt may
  still make a call; its completion is fenced, and `AckedIsDone` holds;
* `ghl-webhook-receipts.ts:24` says that there is no effect marker, `:30` tests one, and the
  branch for a marked receipt (`:220`) is reached by no code in `src/`;
* a delivery that stalls in the provider call makes a take-over report "unknown",
  since its ledger row is still "started".

## 6. Not modelled, and why

Within the modelled parts: wording, logging, audit payloads, masking, back-off
times, the choice of the oldest row among several; the ten other handlers of the merchant
outbox; the onboarding kickoff's own writes; the adapters' HTTP (an HTTP 5xx of
`processors/nmi.adapter.ts:134` counts as the refusal that the worker sees, and so does
one of the mail and CRM providers for a send of a workflow and for the hand-over of a
booking, because the code does not count it among the ambiguous answers: a provider
that answers 5xx and acts all the same is outside the models); the stage
move that an approval commits with its observation (its failure is one reason
why a refresh fails); the second and third try of a settlement of a send; the
payload of a lead's next action; whether the sub-query of an adoption
(`ghl-webhook-receipts.ts:152`) may see an older snapshot after it waited for a lock
(the claim is one atomic statement here); expiry and revision of an owed enrollment;
rejected events; the older pause flag, which only other code reads.  `MaxAttempts` is 6 and 8 in the code.

Whole components, with the reason in `PROJECT.json`: statement commands and
the paid-provider budget repeat the lease-and-receipt pattern that is modelled
five times here; communication arbitration, CRM sync, staged imports and
enrichment are decisions over large data with little control; BullMQ is a library,
and its jobs appear as "a sweep may start"; pages, routes that only read, reports,
seeds and scrapers change no shared state that a property could be about.  They make up
most of the lines of the repository, so that the models cover a small share of it.

## 7. Plan

Done: `DealBoarding` with all its safety proofs and the refinement of
`BoardingPromise`; `BoardingSystem`, `DealStage`, `EsignOutbox`, `OutboundPause`,
`WorkflowRuns` and `Appointments` (with `WebhookReceipts`) with all their safety
properties proved; `Lifecycle`, model-checked.

What would come next: the type invariant and `BackwardOnlyWhenOvertaken` of `Lifecycle`
as theorems; `BoardingSystem` with the stage move of an approval; the other handlers of
the merchant outbox; statement commands on the lease of `WorkflowRuns`.
