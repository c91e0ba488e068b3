---------------------------- MODULE DealBoarding ----------------------------
(***************************************************************************)
(* Submission of ONE deal to a payment processor.                          *)
(*                                                                         *)
(* The submit route writes a command (a row of deal_boarding_outbox) and   *)
(* marks the deal "queued" in one transaction.  Server processes poll the  *)
(* outbox: each claims a row, re-checks the case, writes a durable marker, *)
(* calls the processor and settles the row.  A claim is identified by the  *)
(* row's attempt number, and every settlement is fenced on                 *)
(* (id, status = 'processing', attempts).  A row whose lock is ten minutes *)
(* old goes back to the queue although its former owner may still run.     *)
(*                                                                         *)
(* One action is one database transaction, one provider call, or one read  *)
(* that ends at an await.  Time is abstracted: a back-off may have passed  *)
(* and a lock may be stale at any moment.                                  *)
(***************************************************************************)
EXTENDS Naturals

CONSTANTS
  Commands,     \* idempotency keys, hence the possible rows of the outbox
  Workers,      \* server processes that run the outbox worker
  None,         \* "no application" / "no claim"
  MaxAttempts,  \* MAX_ATTEMPTS of the worker (6 in the code)
  MaxRevs       \* bound: how often the application or the case is revised

ASSUME NoneAssumption == None \notin Commands
ASSUME MaxAttemptsAssumption == MaxAttempts \in Nat \ {0}
ASSUME MaxRevsAssumption == MaxRevs \in Nat

VARIABLES
  dealStatus,   \* deals.boarding_status
  dealApp,      \* deals.processor_application_id, named by the command that got it
  monitored,    \* the submission audit and the monitoring task exist
  status,       \* [Commands -> state of the outbox row]
  attempts,     \* [Commands -> claims handed out so far]
  lastError,    \* [Commands -> last_error of the row]
  captured,     \* [Commands -> case tuple stored in the payload at enqueue]
  appRev,       \* merchant_applications.updated_at
  caseRev,      \* the rest of the case tuple: decision, policy, conditions
  ready,        \* verdict of evaluateBoardingReadiness on the current case
  snapshot,     \* the owner has confirmed an activation snapshot
  held,         \* [Commands -> applications the processor holds for it]
  pc, claim, token, sawMarker, permanent  \* [Workers -> local state of a tick]

dealVars   == <<dealStatus, dealApp, monitored>>
rowVars    == <<status, attempts, lastError, captured>>
caseVars   == <<appRev, caseRev, ready, snapshot>>
workerVars == <<pc, claim, token, sawMarker, permanent>>
vars       == <<dealVars, rowVars, caseVars, held, workerVars>>

DISPATCH_STARTED  == "DISPATCH_STARTED"
AMBIGUOUS         == "ambiguous_reconciliation_required"
SNAPSHOT_REQUIRED == "ACTIVATION_SNAPSHOT_REQUIRED"

\* "submitted" stands for the three in-flight statuses submitted,
\* under_review and more_info_needed.
DealStatuses == {"not_submitted", "queued", "submitted", "approved",
                 "declined", "dead_letter", AMBIGUOUS}
RowStatuses  == {"absent", "pending", "processing", "delivered", "dead_letter"}
\* "error" is any scrubbed error; "refused" any of BOARDING_NOT_READY,
\* BOARDING_CASE_CHANGED and BOARDING_PAYLOAD_INCOMPLETE.
RowErrors    == {"none", "error", "refused", DISPATCH_STARTED, AMBIGUOUS,
                 SNAPSHOT_REQUIRED}
\* Program points of the worker, named for the step that comes next.
BeforeFence  == {"load", "link", "check", "gate", "fence"}
Settling     == {"commit", "reconcile", "refuse", "unconfirmed",
                 "ambiguous", "retry"}
Points       == {"idle", "send", "thrown"} \cup BeforeFence \cup Settling
Captures     == [app: Nat, case: Nat, complete: BOOLEAN]

\* Deal, rows and processes only take the states that the code writes: no result
\* of one table is ever written to another.
TypeOK ==
  /\ dealStatus \in DealStatuses
  /\ dealApp \in Commands \cup {None}
  /\ monitored \in BOOLEAN
  /\ status \in [Commands -> RowStatuses]
  /\ attempts \in [Commands -> Nat]
  /\ lastError \in [Commands -> RowErrors]
  /\ captured \in [Commands -> Captures]
  /\ appRev \in Nat /\ caseRev \in Nat
  /\ ready \in BOOLEAN /\ snapshot \in BOOLEAN
  /\ held \in [Commands -> Nat]
  /\ pc \in [Workers -> Points]
  /\ claim \in [Workers -> Commands \cup {None}]
  /\ token \in [Workers -> Nat]
  /\ sawMarker \in [Workers -> BOOLEAN]
  /\ permanent \in [Workers -> BOOLEAN]

Init ==
  /\ dealStatus = "not_submitted" /\ dealApp = None /\ monitored = FALSE
  /\ status = [c \in Commands |-> "absent"]
  /\ attempts = [c \in Commands |-> 0]
  /\ lastError = [c \in Commands |-> "none"]
  /\ captured = [c \in Commands |-> [app |-> 0, case |-> 0, complete |-> TRUE]]
  /\ appRev = 0 /\ caseRev = 0 /\ ready = TRUE /\ snapshot = TRUE
  /\ held = [c \in Commands |-> 0]
  /\ pc = [w \in Workers |-> "idle"]
  /\ claim = [w \in Workers |-> None]
  /\ token = [w \in Workers |-> 0]
  /\ sawMarker = [w \in Workers |-> FALSE]
  /\ permanent = [w \in Workers |-> FALSE]

-----------------------------------------------------------------------------
(* State formulae *)

Open(c)    == status[c] \in {"pending", "processing"}
Settled(c) == status[c] \in {"delivered", "dead_letter"}

\* Slip: the fence forgets the attempt number.
OwnsByStatus(w) == status[claim[w]] = "processing"

\* The fence of every settlement: the row is still claimed, under this attempt.
Owns(w) == status[claim[w]] = "processing" /\ attempts[claim[w]] = token[w]

\* The case tuple of the readiness evaluation is the one captured at enqueue.
SameCase(c) == captured[c].app = appRev /\ captured[c].case = caseRev

\* The worker is done with its row.
Release(w) ==
  /\ pc' = [pc EXCEPT ![w] = "idle"]
  /\ claim' = [claim EXCEPT ![w] = None]
  /\ token' = [token EXCEPT ![w] = 0]
  /\ sawMarker' = [sawMarker EXCEPT ![w] = FALSE]
  /\ permanent' = [permanent EXCEPT ![w] = FALSE]

GoTo(w, point) ==
  /\ pc' = [pc EXCEPT ![w] = point]
  /\ UNCHANGED <<claim, token, sawMarker, permanent>>

\* A fenced write of the row that ends the claim.
SetRow(c, newStatus, newError) ==
  /\ status' = [status EXCEPT ![c] = newStatus]
  /\ lastError' = [lastError EXCEPT ![c] = newError]
  /\ UNCHANGED <<attempts, captured>>

-----------------------------------------------------------------------------
(* The submit route *)

Resubmittable == {"not_submitted", "declined", "dead_letter"}

\* One request with a fresh idempotency key.  A key that was used before only
\* reads the saved outcome.  Readiness is evaluated under the application lock.
\* "complete" is whether the protected fields decrypt to non-blank values,
\* which the route cannot see.
Submit(c) ==
  /\ status[c] = "absent"
  /\ ready
  /\ dealStatus \in Resubmittable
  /\ dealStatus' = "queued"
  /\ status' = [status EXCEPT ![c] = "pending"]
  /\ \E complete \in BOOLEAN :
       captured' = [captured EXCEPT ![c] =
                      [app |-> appRev, case |-> caseRev, complete |-> complete]]
  /\ UNCHANGED <<dealApp, monitored, attempts, lastError, caseVars, held,
                 workerVars>>

-----------------------------------------------------------------------------
(* The outbox worker: claims *)

\* Slip: a row with no attempt left is not put back.
ReclaimUnlessLast(c) ==
  /\ status[c] = "processing"
  /\ attempts[c] < MaxAttempts
  /\ status' = [status EXCEPT ![c] = "pending"]
  /\ UNCHANGED <<dealVars, attempts, lastError, captured, caseVars, held,
                 workerVars>>

\* reclaimStale puts back every row whose lock is old; the attempt count and
\* last_error stay.  The rows are put back one at a time here.
ReclaimStale(c) ==
  /\ status[c] = "processing"
  /\ status' = [status EXCEPT ![c] = "pending"]
  /\ UNCHANGED <<dealVars, attempts, lastError, captured, caseVars, held,
                 workerVars>>

\* Slip: the claim does not count the attempt.
ClaimUncounted(w, c) ==
  /\ pc[w] = "idle"
  /\ status[c] = "pending"
  /\ attempts[c] < MaxAttempts
  /\ status' = [status EXCEPT ![c] = "processing"]
  /\ pc' = [pc EXCEPT ![w] = "load"]
  /\ claim' = [claim EXCEPT ![w] = c]
  /\ token' = [token EXCEPT ![w] = attempts[c]]
  /\ sawMarker' = [sawMarker EXCEPT ![w] = lastError[c] = DISPATCH_STARTED]
  /\ UNCHANGED <<dealVars, attempts, lastError, captured, caseVars, held,
                 permanent>>

ClaimOne(w, c) ==
  /\ pc[w] = "idle"
  /\ status[c] = "pending"
  /\ attempts[c] < MaxAttempts
  /\ status' = [status EXCEPT ![c] = "processing"]
  /\ attempts' = [attempts EXCEPT ![c] = @ + 1]
  /\ pc' = [pc EXCEPT ![w] = "load"]
  /\ claim' = [claim EXCEPT ![w] = c]
  /\ token' = [token EXCEPT ![w] = attempts[c] + 1]
  /\ sawMarker' = [sawMarker EXCEPT ![w] = lastError[c] = DISPATCH_STARTED]
  /\ UNCHANGED <<dealVars, lastError, captured, caseVars, held, permanent>>

-----------------------------------------------------------------------------
(* The outbox worker: handleProcessorSubmit up to the provider call *)

\* A deal that already has an application id is only reconciled.
LoadDeal(w) ==
  /\ pc[w] = "load"
  /\ GoTo(w, IF dealApp = None THEN "link" ELSE "reconcile")
  /\ UNCHANGED <<dealVars, rowVars, caseVars, held>>

\* The application row must still have the revision stored at enqueue.
CheckLinkage(w) ==
  /\ pc[w] = "link"
  /\ GoTo(w, IF captured[claim[w]].app = appRev THEN "check" ELSE "thrown")
  /\ UNCHANGED <<dealVars, rowVars, caseVars, held>>

\* Readiness, then the case version, then the decrypted payload.
CheckReadiness(w) ==
  /\ pc[w] = "check"
  /\ GoTo(w, IF ready /\ SameCase(claim[w]) /\ captured[claim[w]].complete
             THEN "gate" ELSE "refuse")
  /\ UNCHANGED <<dealVars, rowVars, caseVars, held>>

\* Slip: the marker of an earlier attempt is not looked at.
CheckSnapshotOnly(w) ==
  /\ pc[w] = "gate"
  /\ GoTo(w, IF snapshot THEN "fence" ELSE "unconfirmed")
  /\ UNCHANGED <<dealVars, rowVars, caseVars, held>>

\* The activation snapshot, then the marker that an earlier attempt left.
CheckSnapshot(w) ==
  /\ pc[w] = "gate"
  /\ GoTo(w, IF ~snapshot THEN "unconfirmed"
             ELSE IF sawMarker[w] THEN "ambiguous" ELSE "fence")
  /\ UNCHANGED <<dealVars, rowVars, caseVars, held>>

\* The final fence: one transaction re-checks the application revision and the
\* case and writes the marker if the claim is still owned.
FinalFence(w) ==
  /\ pc[w] = "fence"
  /\ \/ /\ captured[claim[w]].app # appRev
        /\ GoTo(w, "thrown")
        /\ UNCHANGED rowVars
     \/ /\ captured[claim[w]].app = appRev
        /\ ~(ready /\ SameCase(claim[w]))
        /\ GoTo(w, "refuse")
        /\ UNCHANGED rowVars
     \/ /\ ready /\ SameCase(claim[w])
        /\ ~Owns(w)
        /\ Release(w)
        /\ UNCHANGED rowVars
     \/ /\ ready /\ SameCase(claim[w])
        /\ Owns(w)
        /\ lastError' = [lastError EXCEPT ![claim[w]] = DISPATCH_STARTED]
        /\ GoTo(w, "send")
        /\ UNCHANGED <<status, attempts, captured>>
  /\ UNCHANGED <<dealVars, caseVars, held>>

-----------------------------------------------------------------------------
(* The provider call *)

\* The processor takes the application and says so.
ProviderAccepts(w) ==
  /\ pc[w] = "send"
  /\ held' = [held EXCEPT ![claim[w]] = @ + 1]
  /\ GoTo(w, "commit")
  /\ UNCHANGED <<dealVars, rowVars, caseVars>>

\* A definite refusal, transient (rate limit) or permanent (bad request).
ProviderRefuses(w) ==
  /\ pc[w] = "send"
  /\ pc' = [pc EXCEPT ![w] = "retry"]
  /\ \E p \in BOOLEAN : permanent' = [permanent EXCEPT ![w] = p]
  /\ UNCHANGED <<dealVars, rowVars, caseVars, held, claim, token, sawMarker>>

\* Timeout, lost answer or an answer without an application id: the processor
\* may or may not hold the application.
ProviderUnclear(w) ==
  /\ pc[w] = "send"
  /\ \/ UNCHANGED held
     \/ held' = [held EXCEPT ![claim[w]] = @ + 1]
  /\ GoTo(w, "ambiguous")
  /\ UNCHANGED <<dealVars, rowVars, caseVars>>

-----------------------------------------------------------------------------
(* Settlements: each one writes only while the claim is owned *)

\* Slip: the settlement does not ask who owns the row.
SettleUnfenced(w, newStatus, newError, newDeal) ==
  /\ SetRow(claim[w], newStatus, newError)
  /\ dealStatus' = newDeal
  /\ Release(w)
  /\ UNCHANGED <<caseVars, held>>

\* Row and deal change together in one transaction, or not at all.
SettleWith(w, newStatus, newError, newDeal) ==
  /\ \/ /\ Owns(w)
        /\ SetRow(claim[w], newStatus, newError)
        /\ dealStatus' = newDeal
     \/ ~Owns(w) /\ UNCHANGED <<rowVars, dealStatus>>
  /\ Release(w)
  /\ UNCHANGED <<caseVars, held>>

\* Slip: the deal's own fields are written outside the fence.
CommitFieldsUnfenced(w) ==
  /\ pc[w] = "commit"
  /\ SettleWith(w, "delivered", "none", "submitted")
  /\ dealApp' = claim[w] /\ monitored' = TRUE

\* commitBoardingSuccess with setSubmittedFields: row, deal, audit and task.
CommitSuccess(w) ==
  /\ pc[w] = "commit"
  /\ SettleWith(w, "delivered", "none", "submitted")
  /\ \/ Owns(w) /\ dealApp' = claim[w] /\ monitored' = TRUE
     \/ ~Owns(w) /\ UNCHANGED <<dealApp, monitored>>

\* commitBoardingSuccess for a deal that already has an application id: the
\* row is delivered, the deal's own fields stay.
Reconcile(w) ==
  /\ pc[w] = "reconcile"
  /\ SettleWith(w, "delivered", "none", dealStatus)
  /\ \/ Owns(w) /\ monitored' = TRUE
     \/ ~Owns(w) /\ UNCHANGED monitored
  /\ UNCHANGED dealApp

\* Not ready, case changed or payload incomplete.
Refuse(w) ==
  /\ pc[w] = "refuse"
  /\ SettleWith(w, "dead_letter", "refused", "dead_letter")
  /\ UNCHANGED <<dealApp, monitored>>

\* No activation snapshot: the row is dead, the deal is not touched.
RefuseUnconfirmed(w) ==
  /\ pc[w] = "unconfirmed"
  /\ SettleWith(w, "dead_letter", SNAPSHOT_REQUIRED, dealStatus)
  /\ UNCHANGED <<dealApp, monitored>>

\* Slip: the deal's status is written to the row.
SettleAmbiguousOnRow(w) ==
  /\ pc[w] = "ambiguous"
  /\ SettleWith(w, AMBIGUOUS, AMBIGUOUS, AMBIGUOUS)
  /\ UNCHANGED <<dealApp, monitored>>

SettleAmbiguous(w) ==
  /\ pc[w] = "ambiguous"
  /\ SettleWith(w, "dead_letter", AMBIGUOUS, AMBIGUOUS)
  /\ UNCHANGED <<dealApp, monitored>>

\* Slip: the exhausted command does not take the deal with it.
MarkRetryOnly(w) ==
  /\ pc[w] = "retry"
  /\ IF permanent[w] \/ token[w] >= MaxAttempts
     THEN SettleWith(w, "dead_letter", "error", dealStatus)
     ELSE SettleWith(w, "pending", "error", dealStatus)
  /\ UNCHANGED <<dealApp, monitored>>

MarkRetryOrDeadLetter(w) ==
  /\ pc[w] = "retry"
  /\ IF permanent[w] \/ token[w] >= MaxAttempts
     THEN SettleWith(w, "dead_letter", "error", "dead_letter")
     ELSE SettleWith(w, "pending", "error", dealStatus)
  /\ UNCHANGED <<dealApp, monitored>>

\* Slip: every failure is retried.
CatchAsRetry(w) ==
  /\ pc[w] = "thrown"
  /\ GoTo(w, "retry")
  /\ UNCHANGED <<dealVars, rowVars, caseVars, held>>

\* The catch block of tick: a surviving marker makes the failure ambiguous.
CatchFailure(w) ==
  /\ pc[w] = "thrown"
  /\ GoTo(w, IF Owns(w) /\ lastError[claim[w]] = DISPATCH_STARTED
             THEN "ambiguous" ELSE "retry")
  /\ UNCHANGED <<dealVars, rowVars, caseVars, held>>

-----------------------------------------------------------------------------
(* Failures *)

\* An awaited read, transaction, decryption or provider call throws.  (When
\* settleAmbiguous throws inside the handler the catch block calls it again,
\* which changes nothing here.)
Fault(w) ==
  /\ pc[w] \in BeforeFence \cup {"send", "commit", "reconcile", "refuse",
                                 "unconfirmed"}
  /\ GoTo(w, "thrown")
  /\ UNCHANGED <<dealVars, rowVars, caseVars, held>>

\* The process dies and restarts, or a settlement in the catch block throws and
\* the tick ends: the row stays "processing".
Abandon(w) ==
  /\ pc[w] # "idle"
  /\ Release(w)
  /\ UNCHANGED <<dealVars, rowVars, caseVars, held>>

-----------------------------------------------------------------------------
(* The case changes under the command *)

\* The application is edited, bridged or relinked: updated_at moves.
ReviseApplication ==
  /\ appRev < MaxRevs
  /\ appRev' = appRev + 1
  /\ UNCHANGED <<dealVars, rowVars, caseRev, ready, snapshot, held, workerVars>>

\* A decision, a required condition or the policy matrix is recorded anew.
ReviseCase ==
  /\ caseRev < MaxRevs
  /\ caseRev' = caseRev + 1
  /\ UNCHANGED <<dealVars, rowVars, appRev, ready, snapshot, held, workerVars>>

\* A blocker that is not part of the case tuple appears or goes: the deal
\* changes pipeline, is archived, or changes record class.
ToggleReady ==
  /\ ready' = ~ready
  /\ UNCHANGED <<dealVars, rowVars, appRev, caseRev, snapshot, held, workerVars>>

\* The owner confirms or withdraws the processor's activation snapshot.
ToggleSnapshot ==
  /\ snapshot' = ~snapshot
  /\ UNCHANGED <<dealVars, rowVars, appRev, caseRev, ready, held, workerVars>>

-----------------------------------------------------------------------------
(* Specification *)

\* One step of a tick in progress.
WorkerStep(w) ==
  \/ LoadDeal(w) \/ CheckLinkage(w) \/ CheckReadiness(w) \/ CheckSnapshot(w)
  \/ FinalFence(w)
  \/ ProviderAccepts(w) \/ ProviderRefuses(w) \/ ProviderUnclear(w)
  \/ CommitSuccess(w) \/ Reconcile(w) \/ Refuse(w) \/ RefuseUnconfirmed(w)
  \/ SettleAmbiguous(w) \/ MarkRetryOrDeadLetter(w) \/ CatchFailure(w)

Claim(w)       == \E c \in Commands : ClaimOne(w, c)
Reclaim        == \E c \in Commands : ReclaimStale(c)
CaseChange     == ReviseApplication \/ ReviseCase \/ ToggleReady \/ ToggleSnapshot

Next ==
  \/ \E c \in Commands : Submit(c)
  \/ Reclaim
  \/ \E w \in Workers : Claim(w) \/ WorkerStep(w) \/ Fault(w) \/ Abandon(w)
  \/ CaseChange

Spec == Init /\ [][Next]_vars

\* The poll timer of every process fires for ever (setInterval), a started
\* tick runs on unless it fails, and the transport ends every provider call.
Fairness ==
  /\ WF_vars(Reclaim)
  /\ \A w \in Workers : WF_vars(Claim(w)) /\ WF_vars(WorkerStep(w))

FairSpec == Spec /\ Fairness

-----------------------------------------------------------------------------
(* Properties *)

\* No two processes hold the same claim: an attempt number is handed out once,
\* so the fence (id, processing, attempts) names one process.  The row's own
\* counter never falls behind a claim that is still running somewhere.
ClaimsAreExclusive ==
  \A v, w \in Workers :
    pc[w] # "idle" =>
      /\ claim[w] \in Commands
      /\ token[w] <= attempts[claim[w]]
      /\ (pc[v] # "idle" /\ claim[v] = claim[w] /\ token[v] = token[w]) => v = w

\* The worker never sends one command twice to a processor that took it: over
\* all retries, crashes and take-overs a command becomes at most one application.
AtMostOneApplication == \A c \in Commands : held[c] <= 1

\* A command is on its way to the processor, or the processor holds it.
Reached(c) == held[c] > 0 \/ \E w \in Workers : pc[w] = "send" /\ claim[w] = c

\* The parts of the marker discipline.  One process at a time is past the
\* fence, and only with a command nobody holds.
SendersAlone ==
  \A v, w \in Workers :
    pc[w] = "send" => /\ held[claim[w]] = 0
                      /\ (pc[v] = "send" /\ claim[v] = claim[w]) => v = w

\* A command that may have reached the processor keeps its marker until it is
\* settled.
MarkerKept ==
  \A c \in Commands : Reached(c) => lastError[c] = DISPATCH_STARTED \/ Settled(c)

\* A process that has seen no marker and still owns its claim is right.
MarkerSeen ==
  \A w \in Workers :
    /\ (pc[w] \in BeforeFence /\ Owns(w) /\ ~sawMarker[w]) =>
         lastError[claim[w]] # DISPATCH_STARTED
    /\ pc[w] = "fence" => ~sawMarker[w]

\* A claim that may put its row back to be sent again never arrived.
RetryIsSafe ==
  \A w \in Workers : (pc[w] = "retry" /\ Owns(w)) => ~Reached(claim[w])

\* The DISPATCH_STARTED marker does what its comment says: while it survives
\* the outcome is unknown, and where it is gone a send is safe.
MarkerDiscipline == SendersAlone /\ MarkerKept /\ MarkerSeen /\ RetryIsSafe

\* What the deal says about a submission is true: an in-flight deal names an
\* application, which the processor holds, whose command is settled as
\* delivered, and which is audited and monitored.
SubmissionIsReal ==
  /\ dealStatus = "submitted" => dealApp # None
  /\ dealApp # None => /\ status[dealApp] = "delivered"
                       /\ held[dealApp] = 1
                       /\ monitored

\* A second application for the deal takes one way only: a command whose earlier
\* attempt had reached the processor was refused afterwards because the case was
\* no longer ready or had changed.
DuplicateOnlyAfterRefusal ==
  \A c, d \in Commands :
    held[c] > 0 /\ held[d] > 0 /\ c # d =>
      lastError[c] = "refused" \/ lastError[d] = "refused"

\* How a command and the deal stand to the outside.
Dead(c, errors) == status[c] = "dead_letter" /\ lastError[c] \in errors

Outcome(c) ==
  CASE status[c] = "absent"                                       -> "none"
    [] Open(c)                                                    -> "open"
    [] status[c] = "delivered"                                    -> "delivered"
    [] Dead(c, {AMBIGUOUS})                                       -> "held"
    [] Dead(c, {"error"})                                         -> "failed"
    [] Dead(c, {"none", "refused", DISPATCH_STARTED, SNAPSHOT_REQUIRED}) -> "refused"

DealStanding ==
  CASE dealStatus = "queued"                   -> "carried"
    [] dealStatus = AMBIGUOUS                  -> "held"
    [] dealStatus \in {"submitted", "approved"} -> "submitted"
    [] OTHER                                   -> "free"

Promise == INSTANCE BoardingPromise WITH
  outcome <- [c \in Commands |-> Outcome(c)],
  taken   <- held,
  deal    <- DealStanding

\* The outbox keeps the promise: how a command ended is final and true of the
\* processor and of the deal, whatever a process that lost its claim still does.
PromiseKept == Promise!PromiseSpec

\* A row that went back to the queue with no attempt left.
Stranded(c) == status[c] = "pending" /\ attempts[c] >= MaxAttempts

\* Every command ends settled, or stranded by the loss of its last attempt.
EveryCommandEnds ==
  \A c \in Commands : Open(c) ~> Settled(c) \/ Stranded(c)

-----------------------------------------------------------------------------
(* What the comments of the worker say and the code does not do *)

\* "A surviving marker means the outcome is unknown"; "re-sending could create
\* a duplicate": the processor never holds two applications for one deal.
OneApplicationPerDeal ==
  \A c, d \in Commands : held[c] > 0 /\ held[d] > 0 => c = d
=============================================================================
