---------------------------- MODULE WorkflowRuns ----------------------------
(***************************************************************************)
(* One run of a workflow: a list of steps that send messages, change local *)
(* records or wait, executed by whichever process holds the run's lease.   *)
(*                                                                         *)
(* An event starts the run.  A step that waits saves the run and lets it   *)
(* go; a scan claims it again when it is due.  A run that stays "running"  *)
(* under a lapsed lease is parked as "blocked".  The reminder scan may ask *)
(* for a retry of a failed or blocked run.  What must not happen twice is  *)
(* guarded by a receipt of the step: for a message it is written before    *)
(* the call, for a local record together with it; other steps have none.   *)
(*                                                                         *)
(* A step may also be skipped: it finds nothing to send, to enrol in or to *)
(* act upon, or is of a kind the executor does not know.  Its log entry    *)
(* says so, and the run goes on.                                           *)
(*                                                                         *)
(* One action is one transaction, one statement or one provider call.  The *)
(* provider is configured (no send is "queued" for want of one), and no    *)
(* send is marked as one that the run may do without.                      *)
(***************************************************************************)
EXTENDS Naturals, FiniteSets

CONSTANTS
  Workers,   \* executors: event handlers, scans and retries of any process
  Last,      \* number of steps
  Sends, Locals, Waits, \* steps by kind; any other step writes no receipt
  Skippable, \* steps of a kind that can be without a subject
  None,      \* no lease
  MaxFaults, \* bound on deaths, stalls and failing statements
  MaxEdits   \* bound on changes of the workflow and of what is there

Steps == 1 .. Last

ASSUME StepsAssumption ==
  /\ Last \in Nat \ {0}
  /\ Sends \subseteq Steps /\ Locals \subseteq Steps /\ Waits \subseteq Steps
  /\ Sends \cap Locals = {} /\ Sends \cap Waits = {} /\ Locals \cap Waits = {}
  /\ Skippable \subseteq Steps \ Waits
ASSUME NoneAssumption == None \notin Workers
ASSUME BoundsAssumption == MaxFaults \in Nat /\ MaxEdits \in Nat

VARIABLES
  status, at, log, lease, live, \* workflow_runs; live: the lease has not lapsed
  enabled, pinned, edits,
              \* workflows: enabled; the definition is the run's own; changes
  moot,       \* the steps whose subject is not there at present
  receipt,    \* followup_effect_receipts of the steps
  effects,    \* [Steps -> how often the step has taken effect]
  omitted,    \* the sends that some executor has skipped
  pc, mode, step, copy, skip, answer, \* the executors
  faults

runVars      == <<status, at, log, lease, live>>
workflowVars == <<enabled, pinned, edits, moot>>
stepVars     == <<receipt, effects, omitted>>
taskVars     == <<mode, step, copy, skip, answer>>
vars == <<runVars, workflowVars, stepVars, pc, taskVars, faults>>

TERMINAL     == {"completed", "failed", "blocked"}
RunStatuses  == {"none", "running", "waiting"} \cup TERMINAL
\* "skipped" stands for "unknown_action" too: both are counted as skipped.
Entries      == {"none", "completed", "skipped", "failed", "unknown", "blocked",
                 "scheduled"}
\* Entries that belong to no step: the run was parked, its definition changed.
Marks        == {"parked", "changed"}
Logs         == [entry : [Steps -> Entries], marks : SUBSET Marks]
Receipts     == {"none", "started", "accepted", "refused", "unknown"}
Answers      == {"none", "accepted", "refused", "unknown"}
Modes        == {"new", "resume", "retry"}
\* From "enter" on the executor believes that it holds the lease.
Points       == {"idle", "reopen", "enter", "block", "step", "do", "send",
                 "settle", "finish"}

NOT_DELIVERED == {"failed", "unknown", "blocked"}
EmptyLog      == [entry |-> [s \in Steps |-> "none"], marks |-> {}]

\* A run ends in one of the three statuses that its readers know; log, receipts
\* and executors only take the states that the code writes.
TypeOK ==
  /\ status \in RunStatuses /\ at \in 0 .. Last /\ log \in Logs
  /\ lease \in Workers \cup {None} /\ live \in BOOLEAN
  /\ enabled \in BOOLEAN /\ pinned \in BOOLEAN /\ edits \in 0 .. MaxEdits
  /\ moot \subseteq Skippable
  /\ receipt \in [Steps -> Receipts] /\ effects \in [Steps -> 0 .. 2]
  /\ omitted \subseteq Sends
  /\ pc \in [Workers -> Points] /\ mode \in [Workers -> Modes]
  /\ step \in [Workers -> 0 .. Last + 1] /\ copy \in [Workers -> Logs]
  /\ skip \in [Workers -> SUBSET Steps] /\ answer \in [Workers -> Answers]
  /\ faults \in 0 .. MaxFaults

\* An event that has started no run yet.
Init ==
  /\ status = "none" /\ at = 0 /\ log = EmptyLog /\ lease = None /\ live = FALSE
  /\ enabled = TRUE /\ pinned = TRUE /\ edits = 0
  /\ moot \in SUBSET Skippable
  /\ receipt = [s \in Steps |-> "none"] /\ effects = [s \in Steps |-> 0]
  /\ omitted = {}
  /\ pc = [w \in Workers |-> "idle"] /\ mode = [w \in Workers |-> "new"]
  /\ step = [w \in Workers |-> 0] /\ copy = [w \in Workers |-> EmptyLog]
  /\ skip = [w \in Workers |-> {}] /\ answer = [w \in Workers |-> "none"]
  /\ faults = 0

-----------------------------------------------------------------------------
(* The lease *)

Free         == lease = None \/ ~live
Holds(w)     == lease = w /\ live
Take(w)      == lease' = w /\ live' = TRUE
LetGo        == lease' = None /\ live' = FALSE
KeepLease    == UNCHANGED <<lease, live>>

Faulty == faults < MaxFaults /\ faults' = faults + 1

GoTo(w, point) == pc' = [pc EXCEPT ![w] = point]

Rest(w) ==
  /\ GoTo(w, "idle")
  /\ mode' = [mode EXCEPT ![w] = "new"] /\ step' = [step EXCEPT ![w] = 0]
  /\ copy' = [copy EXCEPT ![w] = EmptyLog] /\ skip' = [skip EXCEPT ![w] = {}]
  /\ answer' = [answer EXCEPT ![w] = "none"]

\* The executor returns or throws: a scan then releases its own lease.
Leave(w) ==
  /\ Rest(w)
  /\ IF mode[w] = "resume" /\ lease = w THEN LetGo ELSE KeepLease

\* The loop over the steps, from s on, without those a retry leaves out.
Proceed(w, s) ==
  LET ahead == {t \in s .. Last : t \notin skip[w]}
  IN \/ /\ ahead # {} /\ GoTo(w, "step")
        /\ step' = [step EXCEPT ![w] = CHOOSE t \in ahead : \A u \in ahead : t <= u]
     \/ ahead = {} /\ GoTo(w, "finish") /\ step' = [step EXCEPT ![w] = 0]

-----------------------------------------------------------------------------
(* How a run comes to an executor *)

\* A first event; the same event again finds the run and changes nothing.
Trigger(w) ==
  /\ pc[w] = "idle" /\ status = "none" /\ enabled
  /\ status' = "running" /\ Take(w) /\ pinned' = TRUE
  /\ Proceed(w, 1)
  /\ UNCHANGED <<at, log, enabled, edits, moot, stepVars, mode, copy, skip, answer, faults>>

\* Slip: only a run that somebody let go is due.
ClaimUnleased(w) ==
  /\ pc[w] = "idle" /\ status = "waiting" /\ lease = None
  /\ Take(w)
  /\ GoTo(w, "enter") /\ mode' = [mode EXCEPT ![w] = "resume"]
  /\ step' = [step EXCEPT ![w] = at + 1]
  /\ UNCHANGED <<status, at, log, workflowVars, stepVars, copy, skip, answer, faults>>

\* claimDueWorkflowRuns: the status stays "waiting" until the run is saved.
ClaimDue(w) ==
  /\ pc[w] = "idle" /\ status = "waiting" /\ Free
  /\ Take(w)
  /\ GoTo(w, "enter") /\ mode' = [mode EXCEPT ![w] = "resume"]
  /\ step' = [step EXCEPT ![w] = at + 1]
  /\ UNCHANGED <<status, at, log, workflowVars, stepVars, copy, skip, answer, faults>>

\* parkInterruptedWorkflowRuns
ParkInterrupted ==
  /\ status = "running" /\ lease # None /\ ~live
  /\ status' = "blocked" /\ LetGo
  /\ log' = [log EXCEPT !.marks = @ \cup {"parked"}]
  /\ UNCHANGED <<at, workflowVars, stepVars, pc, taskVars, faults>>

\* retryFailedWorkflowRun up to its update: nothing uncertain is retried.
ReadForRetry(w) ==
  /\ pc[w] = "idle" /\ status \in {"failed", "blocked"}
  /\ \A s \in Steps : log.entry[s] # "unknown"
  /\ "changed" \notin log.marks /\ enabled /\ pinned
  /\ GoTo(w, "reopen")
  /\ skip' = [skip EXCEPT ![w] =
                {s \in Steps : log.entry[s] \in {"completed", "scheduled"}}]
  /\ UNCHANGED <<runVars, workflowVars, stepVars, mode, step, copy, answer, faults>>

Reopen(w) ==
  /\ pc[w] = "reopen"
  /\ \/ /\ status \in {"failed", "blocked"} /\ Free
        /\ status' = "running" /\ Take(w)
        /\ GoTo(w, "enter") /\ mode' = [mode EXCEPT ![w] = "retry"]
        /\ step' = [step EXCEPT ![w] = 1]
        /\ UNCHANGED <<copy, skip, answer>>
     \/ ~(status \in {"failed", "blocked"} /\ Free) /\ Rest(w)
        /\ UNCHANGED <<status, lease, live>>
  /\ UNCHANGED <<at, log, workflowVars, stepVars, faults>>

\* An operator disables, enables or changes the workflow, or changes it back.
EditWorkflow ==
  /\ status # "none"
  /\ edits < MaxEdits /\ edits' = edits + 1
  /\ \/ enabled' = ~enabled /\ UNCHANGED pinned
     \/ pinned' = ~pinned /\ UNCHANGED enabled
  /\ UNCHANGED <<runVars, moot, stepVars, pc, taskVars, faults>>

\* What a step is about is deleted, or is added: a packet, the deal, a sequence.
ChangeSubjects ==
  /\ status # "none"
  /\ edits < MaxEdits /\ edits' = edits + 1
  /\ \E s \in Skippable : moot' = IF s \in moot THEN moot \ {s} ELSE moot \cup {s}
  /\ UNCHANGED <<runVars, enabled, pinned, stepVars, pc, taskVars, faults>>

-----------------------------------------------------------------------------
(* executeWorkflowActions of a run that exists, before its first step *)

\* A run that has ended is left alone.  One whose workflow is disabled or
\* changed is to be blocked; the log of any other is copied.
Enter(w) ==
  /\ pc[w] = "enter"
  /\ \/ status \in TERMINAL /\ Leave(w)
     \/ /\ status \notin TERMINAL /\ ~(enabled /\ pinned)
        /\ LET mark == IF enabled THEN "changed" ELSE "parked"
           IN copy' = [copy EXCEPT ![w] = [log EXCEPT !.marks = @ \cup {mark}]]
        /\ GoTo(w, "block") /\ KeepLease
        /\ UNCHANGED <<mode, step, skip, answer>>
     \/ /\ status \notin TERMINAL /\ enabled /\ pinned
        /\ copy' = [copy EXCEPT ![w] = log]
        /\ Proceed(w, step[w]) /\ KeepLease
        /\ UNCHANGED <<mode, skip, answer>>
  /\ UNCHANGED <<status, at, log, workflowVars, stepVars, faults>>

\* The write that blocks the run does not ask for the lease.
Block(w) ==
  /\ pc[w] = "block"
  /\ status' = "blocked" /\ log' = copy[w]
  /\ Leave(w)
  /\ UNCHANGED <<at, workflowVars, stepVars, faults>>

-----------------------------------------------------------------------------
(* One step *)

\* Slip: a step that is not the last one never stops the run.
HaltsNowhere(s, e) == FALSE

Halts(s, e) == s \in Sends /\ e \in NOT_DELIVERED /\ s < Last

\* The step ends with the entry e in the executor's copy of the log.
Record(w, e) ==
  /\ copy' = [copy EXCEPT ![w].entry[step[w]] = e]
  /\ \/ Halts(step[w], e) /\ GoTo(w, "finish") /\ step' = [step EXCEPT ![w] = 0]
     \/ ~Halts(step[w], e) /\ Proceed(w, step[w] + 1)
  /\ UNCHANGED <<mode, skip>>

\* The head of the loop: the fence, and for a send the workflow once more.
NextStep(w) ==
  /\ pc[w] = "step"
  /\ \/ ~Holds(w) /\ Leave(w)
     \/ /\ Holds(w) /\ KeepLease
        /\ \/ /\ step[w] \in Sends /\ ~enabled
              /\ copy' = [copy EXCEPT ![w].entry[step[w]] = "blocked"]
              /\ GoTo(w, "finish") /\ step' = [step EXCEPT ![w] = 0]
              /\ UNCHANGED <<mode, skip, answer>>
           \/ /\ step[w] \in Sends => enabled
              /\ GoTo(w, "do") /\ UNCHANGED taskVars
  /\ UNCHANGED <<status, at, log, workflowVars, stepVars, faults>>

SetReceipt(s, r) == receipt' = [receipt EXCEPT ![s] = r]
\* Counted up to two: more often is no worse.
TakeEffect(s)    == effects' = [effects EXCEPT ![s] = IF @ = 0 THEN 1 ELSE 2]

\* Slip: an open receipt may be claimed again.
ClaimOpenReceipt(w) ==
  /\ pc[w] = "do" /\ step[w] \in Sends \ moot
  /\ \/ /\ receipt[step[w]] \in {"none", "started", "refused"}
        /\ SetReceipt(step[w], "started") /\ GoTo(w, "send")
        /\ UNCHANGED taskVars
     \/ /\ receipt[step[w]] = "accepted"
        /\ Record(w, "completed") /\ UNCHANGED <<receipt, answer>>
     \/ /\ receipt[step[w]] = "unknown"
        /\ Record(w, "unknown") /\ UNCHANGED <<receipt, answer>>
  /\ UNCHANGED <<runVars, workflowVars, effects, omitted, faults>>

\* runFollowupEffect: the claim.
ClaimReceipt(w) ==
  /\ pc[w] = "do" /\ step[w] \in Sends \ moot
  /\ \/ /\ receipt[step[w]] \in {"none", "refused"}
        /\ SetReceipt(step[w], "started") /\ GoTo(w, "send")
        /\ UNCHANGED taskVars
     \/ /\ receipt[step[w]] = "accepted"
        /\ Record(w, "completed") /\ UNCHANGED <<receipt, answer>>
     \/ /\ receipt[step[w]] \in {"started", "unknown"}
        /\ Record(w, "unknown") /\ UNCHANGED <<receipt, answer>>
  /\ UNCHANGED <<runVars, workflowVars, effects, omitted, faults>>

\* The provider takes the message or not; the answer may be lost.
ProviderCall(w) ==
  /\ pc[w] = "send"
  /\ \/ /\ TakeEffect(step[w])
        /\ \E a \in {"accepted", "unknown"} : answer' = [answer EXCEPT ![w] = a]
     \/ /\ \E a \in {"refused", "unknown"} : answer' = [answer EXCEPT ![w] = a]
        /\ UNCHANGED effects
  /\ GoTo(w, "settle")
  /\ UNCHANGED <<runVars, workflowVars, receipt, omitted, mode, step, copy, skip,
                 faults>>

EntryFor(a) ==
  CASE a = "accepted" -> "completed" [] a = "refused" -> "failed"
    [] OTHER -> "unknown"

\* The settlement; one that cannot be written leaves the receipt open, and the
\* step is unknown whatever the provider said.
Settle(w) ==
  /\ pc[w] = "settle"
  /\ \/ /\ IF receipt[step[w]] = "started"
             THEN SetReceipt(step[w], answer[w]) ELSE UNCHANGED receipt
        /\ Record(w, EntryFor(answer[w]))
     \/ UNCHANGED receipt /\ Record(w, "unknown")
  /\ answer' = [answer EXCEPT ![w] = "none"]
  /\ UNCHANGED <<runVars, workflowVars, effects, omitted, faults>>

\* applyLocalEffectOnce: lease, receipt and record in one transaction.
ApplyLocal(w) ==
  /\ pc[w] = "do" /\ step[w] \in Locals \ moot
  /\ \/ ~Holds(w) /\ Leave(w) /\ UNCHANGED stepVars
     \/ /\ Holds(w) /\ KeepLease
        /\ \/ receipt[step[w]] = "accepted" /\ UNCHANGED stepVars
           \/ /\ receipt[step[w]] # "accepted"
              /\ TakeEffect(step[w]) /\ SetReceipt(step[w], "accepted")
              /\ UNCHANGED omitted
        /\ Record(w, "completed") /\ UNCHANGED answer
  /\ UNCHANGED <<status, at, log, workflowVars, faults>>

\* A step without a receipt: a stage move, an enrolment, tags.  Every pass may do
\* it again; whether it was ever done is all that counts.  It is completed when
\* its statements ran, also when they found nothing to change.
ApplyPlain(w) ==
  /\ pc[w] = "do" /\ step[w] \in Steps \ (Sends \cup Locals \cup Waits)
  /\ effects' = IF step[w] \in moot THEN effects ELSE [effects EXCEPT ![step[w]] = 1]
  /\ Record(w, "completed")
  /\ UNCHANGED <<runVars, workflowVars, receipt, omitted, answer, faults>>

\* No packet matches, the deal or the contact is missing, the sequence is not
\* found or not allowed, the checklist is there: nothing is done, and neither
\* this step nor the run waits for it, although it may be a send.
SkipStep(w) ==
  /\ pc[w] = "do" /\ step[w] \in moot
  /\ omitted' = omitted \cup (Sends \cap {step[w]})
  /\ Record(w, "skipped")
  /\ UNCHANGED <<runVars, workflowVars, receipt, effects, answer, faults>>

\* saveRunFenced of a wait: the run is let go until it is due.
SaveWait(w) ==
  /\ pc[w] = "do" /\ step[w] \in Waits
  /\ \/ /\ Holds(w)
        /\ status' = "waiting" /\ at' = step[w] /\ LetGo
        /\ log' = [copy[w] EXCEPT !.entry[step[w]] = "scheduled"]
        /\ Rest(w)
     \/ ~Holds(w) /\ Leave(w) /\ UNCHANGED <<status, at, log>>
  /\ UNCHANGED <<workflowVars, stepVars, faults>>

\* The step throws before it has done anything: a message that cannot be
\* rendered, a contact that may not be written to, a failed statement.  The
\* loop goes on; behind a wait that could not be saved, too.
StepThrows(w) ==
  /\ pc[w] = "do"
  /\ Record(w, "failed")
  /\ IF step[w] \in Waits THEN Faulty ELSE UNCHANGED faults
  /\ UNCHANGED <<runVars, workflowVars, stepVars, answer>>

-----------------------------------------------------------------------------
(* The end of a run *)

\* Slip: what is unknown is not counted.
OutcomeLenient(l) ==
  IF \E s \in Steps : l.entry[s] = "failed" THEN "failed"
  ELSE IF l.marks # {} THEN "blocked" ELSE "completed"

\* Slip: an unknown step is reported as such.
OutcomeAsEntry(l) ==
  IF \E s \in Steps : l.entry[s] = "failed" THEN "failed"
  ELSE IF \E s \in Steps : l.entry[s] = "unknown" THEN "unknown"
  ELSE IF l.marks # {} \/ \E s \in Steps : l.entry[s] = "blocked"
    THEN "blocked" ELSE "completed"

\* classifyWorkflowRunOutcome: the last entry of each step, and all marks.
Outcome(l) ==
  IF \E s \in Steps : l.entry[s] = "failed" THEN "failed"
  ELSE IF l.marks # {} \/ \E s \in Steps : l.entry[s] \in {"unknown", "blocked"}
    THEN "blocked" ELSE "completed"

Finish(w) ==
  /\ pc[w] = "finish"
  /\ \/ /\ Holds(w)
        /\ status' = Outcome(copy[w]) /\ at' = Last /\ log' = copy[w] /\ LetGo
        /\ Rest(w)
     \/ ~Holds(w) /\ Leave(w) /\ UNCHANGED <<status, at, log>>
  /\ UNCHANGED <<workflowVars, stepVars, faults>>

-----------------------------------------------------------------------------
(* Faults *)

Working(w) == pc[w] \notin {"idle", "reopen"}

\* A statement outside of a step fails: the executor throws.
Throw(w) ==
  /\ pc[w] \in {"reopen", "enter", "block", "step", "finish"}
  /\ Faulty /\ Leave(w)
  /\ UNCHANGED <<status, at, log, workflowVars, stepVars>>

\* The process dies; so does a statement that took effect and was not told.
Crash(w) ==
  /\ pc[w] # "idle"
  /\ Faulty /\ Rest(w)
  /\ UNCHANGED <<runVars, workflowVars, stepVars>>

\* Ten minutes pass.  The holder is gone, or it is stuck in a call.
Lapse ==
  /\ lease # None /\ live
  /\ live' = FALSE
  /\ IF Working(lease) THEN Faulty ELSE UNCHANGED faults
  /\ UNCHANGED <<status, at, log, lease, workflowVars, stepVars, pc, taskVars>>

-----------------------------------------------------------------------------
(* Specification *)

WorkerStep(w) ==
  \/ Reopen(w)
  \/ Enter(w) \/ Block(w)
  \/ NextStep(w) \/ ClaimReceipt(w) \/ ProviderCall(w) \/ Settle(w)
  \/ ApplyLocal(w) \/ ApplyPlain(w) \/ SkipStep(w) \/ SaveWait(w) \/ StepThrows(w)
  \/ Finish(w)

Next ==
  \/ \E w \in Workers :
       \/ Trigger(w) \/ ClaimDue(w) \/ ReadForRetry(w)
       \/ WorkerStep(w) \/ Throw(w) \/ Crash(w)
  \/ ParkInterrupted \/ EditWorkflow \/ ChangeSubjects \/ Lapse

Spec == Init /\ [][Next]_vars

\* The scan runs every few minutes and claims and parks; a call comes to an end;
\* time passes.
FairSpec ==
  /\ Spec
  /\ \A w \in Workers : WF_vars(WorkerStep(w))
  /\ WF_vars(\E w \in Workers : ClaimDue(w))
  /\ WF_vars(ParkInterrupted)
  /\ WF_vars(Lapse /\ ~Working(lease))
-----------------------------------------------------------------------------
(* Properties *)

\* Over waits, crashes, take-overs and retries a contact gets the message of a
\* step once at most, and a local record is written once at most.
GuardedOnce == \A s \in Sends \cup Locals : effects[s] <= 1

\* The message of the step went out, or an executor skipped it on purpose.
Cleared(s) == effects[s] > 0 \/ s \in omitted

\* No step takes effect behind a required message that was refused, that is not
\* known to have gone out or that was blocked, in this pass over the steps or in
\* any other.  The exception is a message that was skipped: it holds nothing.
NothingBehindAHold ==
  \A s \in Sends, t \in Steps :
    s < t /\ effects[t] > 0 => Cleared(s)

\* A run that is called completed sent every message and wrote every local
\* record, but for the steps whose last entry in its log says skipped: nothing
\* that failed, is unknown or was blocked is called completed, and nothing is
\* called completed by a log that is out of date.
CompletedIsDelivered ==
  status = "completed" =>
    \A s \in Sends \cup Locals : effects[s] > 0 \/ log.entry[s] = "skipped"

\* A run that is started or woken is not lost: it comes to its end, or a scan
\* resumes or parks it when its executor is gone.
EveryRunEnds == status \in {"running", "waiting"} ~> status \in TERMINAL
=============================================================================
