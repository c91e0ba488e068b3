------------------------- MODULE WorkflowRunsProofs -------------------------
(***************************************************************************)
(* Proofs about WorkflowRuns, for any number of executors, steps, faults   *)
(* and changes of the workflow: type correctness, that what is guarded by  *)
(* a receipt happens once, that nothing happens behind a send that neither *)
(* went out nor was skipped, and what a completed run has done.            *)
(***************************************************************************)
EXTENDS WorkflowRuns, WellFoundedInduction, TLAPS

-----------------------------------------------------------------------------
(* The next step of a pass *)

\* A set of steps that is not empty has a first one.
LEMMA LeastStep ==
  ASSUME NEW T \in SUBSET Nat, T # {}
  PROVE  \E t \in T : \A u \in T : t <= u
<1> DEFINE R == {ss \in Nat \X Nat : ss[1] < ss[2]}
<1>1. IsWellFoundedOn(R, Nat)
  BY NatLessThanWellFounded DEF OpToRel
<1>2. PICK x \in T : \A y \in T : ~ (<<y, x>> \in R)
  BY <1>1, WFMin
<1>3. \A y \in T : ~(y < x)
  BY <1>2
<1>4. QED
  BY <1>3

\* The executor goes to the first step that is not left out, or to the end.
LEMMA ProceedGoes ==
  ASSUME TypeOK, NEW w \in Workers, NEW s \in 0 .. Last + 2, Proceed(w, s)
  PROVE  /\ pc' \in [Workers -> Points] /\ step' \in [Workers -> 0 .. Last + 1]
         /\ \A v \in Workers \ {w} : pc'[v] = pc[v] /\ step'[v] = step[v]
         /\ \/ /\ pc'[w] = "step" /\ step'[w] \in s .. Last
               /\ \A t \in s .. Last : t < step'[w] => t \in skip[w]
            \/ /\ pc'[w] = "finish" /\ step'[w] = 0
               /\ \A t \in s .. Last : t \in skip[w]
<1> DEFINE ahead == {t \in s .. Last : t \notin skip[w]}
<1>1. Last \in Nat /\ Last > 0 /\ s \in Nat
  BY StepsAssumption
<1>2. pc \in [Workers -> Points] /\ step \in [Workers -> 0 .. Last + 1]
  BY DEF TypeOK
<1>3. CASE ahead # {} /\ GoTo(w, "step")
           /\ step' = [step EXCEPT ![w] = CHOOSE t \in ahead : \A u \in ahead : t <= u]
  <2> DEFINE first == CHOOSE t \in ahead : \A u \in ahead : t <= u
  <2>1. ahead \in SUBSET Nat
    BY <1>1
  <2>2. \E t \in ahead : \A u \in ahead : t <= u
    BY <2>1, <1>3, LeastStep
  <2>3. first \in ahead /\ \A u \in ahead : first <= u
    BY <2>2
  <2>4. first \in s .. Last
    BY <2>3
  <2>5. \A t \in s .. Last : t < first => t \in skip[w]
    BY <2>3, <2>4, <1>1
  <2> HIDE DEF first
  <2>6. step' = [step EXCEPT ![w] = first] /\ first \in 0 .. Last + 1
    BY <1>3, <2>4, <1>1 DEF first
  <2>7. step' \in [Workers -> 0 .. Last + 1] /\ step'[w] = first
        /\ \A v \in Workers \ {w} : step'[v] = step[v]
    BY <2>6, <1>2
  <2>8. pc' \in [Workers -> Points] /\ pc'[w] = "step" /\ \A v \in Workers \ {w} : pc'[v] = pc[v]
    BY <1>2, <1>3 DEF GoTo, Points
  <2>9. QED
    BY <2>4, <2>5, <2>7, <2>8
<1>4. CASE ahead = {} /\ GoTo(w, "finish") /\ step' = [step EXCEPT ![w] = 0]
  BY <1>1, <1>2, <1>4 DEF GoTo, Points
<1>5. QED
  BY <1>3, <1>4 DEF Proceed

-----------------------------------------------------------------------------
(* Types *)

TasksTyped ==
  /\ pc \in [Workers -> Points] /\ mode \in [Workers -> Modes]
  /\ step \in [Workers -> 0 .. Last + 1] /\ copy \in [Workers -> Logs]
  /\ skip \in [Workers -> SUBSET Steps] /\ answer \in [Workers -> Answers]

\* The empty log, a changed entry and a further mark are logs.
LEMMA LogTyped ==
  /\ EmptyLog \in Logs
  /\ \A l \in Logs, s \in 0 .. Last + 1, e \in Entries : [l EXCEPT !.entry[s] = e] \in Logs
  /\ \A l \in Logs, m \in Marks : [l EXCEPT !.marks = @ \cup {m}] \in Logs
BY DEF EmptyLog, Logs, Entries

\* An executor that rests or leaves is typed.
LEMMA RestTyped ==
  ASSUME TypeOK, NEW w \in Workers, Rest(w)
  PROVE  TasksTyped' /\ pc'[w] = "idle" /\ \A v \in Workers \ {w} : pc'[v] = pc[v]
<1>1. Last \in Nat /\ 0 \in 0 .. Last + 1
  BY StepsAssumption
<1>2. EmptyLog \in Logs /\ {} \in SUBSET Steps /\ "none" \in Answers /\ "new" \in Modes /\ "idle" \in Points
  BY LogTyped DEF Answers, Modes, Points
<1>3. QED
  BY <1>1, <1>2 DEF TypeOK, Rest, GoTo, TasksTyped

LEMMA LeaveTyped ==
  ASSUME TypeOK, NEW w \in Workers, Leave(w)
  PROVE  TasksTyped' /\ lease' \in Workers \cup {None} /\ live' \in BOOLEAN
BY RestTyped DEF TypeOK, Leave, LetGo, KeepLease

\* So is one that records a step.
LEMMA RecordTyped ==
  ASSUME TypeOK, NEW w \in Workers, NEW e \in Entries, Record(w, e),
         answer' \in [Workers -> Answers]
  PROVE  TasksTyped'
<1>1. Last \in Nat /\ step[w] + 1 \in 0 .. Last + 2 /\ 0 \in 0 .. Last + 1
  BY StepsAssumption DEF TypeOK
<1>2. copy' \in [Workers -> Logs]
  <2>1. copy' = [copy EXCEPT ![w] = [copy[w] EXCEPT !.entry[step[w]] = e]]
    BY DEF Record
  <2>2. copy[w] \in Logs /\ [copy[w] EXCEPT !.entry[step[w]] = e] \in Logs
    BY LogTyped DEF TypeOK
  <2>3. QED
    BY <2>1, <2>2 DEF TypeOK
<1>3. pc' \in [Workers -> Points] /\ step' \in [Workers -> 0 .. Last + 1]
  BY <1>1, ProceedGoes DEF TypeOK, Record, GoTo, Points
<1>4. QED
  BY <1>2, <1>3 DEF TypeOK, Record, TasksTyped

RunTyped ==
  /\ status \in RunStatuses /\ at \in 0 .. Last /\ log \in Logs
  /\ lease \in Workers \cup {None} /\ live \in BOOLEAN
WorkflowTyped == enabled \in BOOLEAN /\ pinned \in BOOLEAN /\ edits \in 0 .. MaxEdits
                 /\ moot \subseteq Skippable
StepsTyped == receipt \in [Steps -> Receipts] /\ effects \in [Steps -> 0 .. 2]
              /\ omitted \subseteq Sends

LEMMA TypeParts == TypeOK <=> RunTyped /\ WorkflowTyped /\ StepsTyped /\ TasksTyped
                               /\ faults \in 0 .. MaxFaults
BY DEF TypeOK, RunTyped, WorkflowTyped, StepsTyped, TasksTyped

\* The same after a step.
LEMMA TypePartsNext == TypeOK' <=> RunTyped' /\ WorkflowTyped' /\ StepsTyped' /\ TasksTyped'
                                    /\ faults' \in 0 .. MaxFaults
BY DEF TypeOK, RunTyped, WorkflowTyped, StepsTyped, TasksTyped

\* The initial state is typed.
LEMMA InitTyped == Init => TypeOK
<1> SUFFICES ASSUME Init PROVE TypeOK
  OBVIOUS
<1>1. Last \in Nat /\ MaxFaults \in Nat /\ MaxEdits \in Nat /\ EmptyLog \in Logs
  BY StepsAssumption, BoundsAssumption, LogTyped
<1>2. RunTyped /\ WorkflowTyped /\ faults \in 0 .. MaxFaults
  <2>1. 0 \in 0 .. Last /\ 0 \in 0 .. MaxEdits /\ 0 \in 0 .. MaxFaults
    BY <1>1
  <2>2. "none" \in RunStatuses /\ None \in Workers \cup {None} /\ TRUE \in BOOLEAN /\ FALSE \in BOOLEAN
    BY DEF RunStatuses
  <2>3. QED
    BY <1>1, <2>1, <2>2, Zenon DEF Init, RunTyped, WorkflowTyped
<1>3. StepsTyped
  BY <1>1 DEF Init, StepsTyped, Receipts
<1>4. TasksTyped
  <2>1. 0 \in 0 .. Last + 1 /\ {} \in SUBSET Steps
    BY <1>1
  <2>2. "idle" \in Points /\ "new" \in Modes /\ "none" \in Answers
    BY DEF Points, Modes, Answers
  <2>3. QED
    BY <1>1, <2>1, <2>2 DEF Init, TasksTyped
<1>5. QED
  BY <1>2, <1>3, <1>4, TypeParts

\* The ways in which a run comes to an executor.
LEMMA TakeTyped ==
  ASSUME TypeOK, NEW w \in Workers,
         Trigger(w) \/ ClaimDue(w) \/ ReadForRetry(w) \/ Reopen(w)
  PROVE  TypeOK'
<1> USE DEF runVars, workflowVars, stepVars, taskVars
<1>0. Last \in Nat /\ Last > 0 /\ 1 \in 0 .. Last + 2 /\ 1 \in 0 .. Last + 1
  BY StepsAssumption
<1>1. CASE Trigger(w)
  <2>1. Proceed(w, 1) /\ UNCHANGED <<mode, copy, skip, answer>>
    BY <1>1 DEF Trigger
  <2>2. TasksTyped'
    BY <2>1, <1>0, ProceedGoes DEF TypeOK, TasksTyped
  <2>3. QED
    BY <1>1, <2>2, TypePartsNext DEF TypeOK, Trigger, Take, RunTyped, WorkflowTyped, StepsTyped, RunStatuses
<1>2. CASE ClaimDue(w)
  <2>1. at + 1 \in 0 .. Last + 1
    BY <1>0 DEF TypeOK
  <2>2. TasksTyped'
    BY <2>1, <1>2 DEF TypeOK, ClaimDue, GoTo, TasksTyped, Points, Modes
  <2>3. QED
    BY <1>2, <2>2, TypePartsNext DEF TypeOK, ClaimDue, Take, RunTyped, WorkflowTyped, StepsTyped
<1>3. CASE ReadForRetry(w)
  BY <1>3 DEF TypeOK, ReadForRetry, GoTo, Points
<1>4. CASE Reopen(w)
  <2>1. CASE Rest(w) /\ UNCHANGED <<status, lease, live>>
    BY <1>4, <2>1, RestTyped, TypePartsNext
       DEF TypeOK, Reopen, RunTyped, WorkflowTyped, StepsTyped
  <2>2. CASE /\ status' = "running" /\ Take(w) /\ GoTo(w, "enter")
             /\ mode' = [mode EXCEPT ![w] = "retry"] /\ step' = [step EXCEPT ![w] = 1]
             /\ UNCHANGED <<copy, skip, answer>>
    <3>1. TasksTyped'
      BY <2>2, <1>0 DEF TypeOK, GoTo, TasksTyped, Points, Modes
    <3>2. QED
      BY <1>4, <2>2, <3>1, TypePartsNext
         DEF TypeOK, Reopen, Take, RunTyped, RunStatuses, WorkflowTyped, StepsTyped
  <2>3. QED
    BY <1>4, <2>1, <2>2 DEF Reopen
<1>5. QED
  BY <1>1, <1>2, <1>3, <1>4

\* The way to the first step.
LEMMA EnterTyped ==
  ASSUME TypeOK, NEW w \in Workers, Enter(w) \/ Block(w) \/ NextStep(w)
  PROVE  TypeOK'
<1> USE DEF runVars, workflowVars, stepVars, taskVars
<1>0. Last \in Nat /\ 0 \in 0 .. Last + 1 /\ step[w] \in 0 .. Last + 1
  BY StepsAssumption DEF TypeOK
<1>1. CASE Enter(w)
  <2>1. UNCHANGED <<status, at, log, workflowVars, stepVars, faults>>
    BY <1>1 DEF Enter
  <2>2. CASE Leave(w)
    BY <2>1, <2>2, LeaveTyped, TypePartsNext DEF TypeOK, RunTyped, WorkflowTyped, StepsTyped
  <2>3. ASSUME NEW mark \in Marks,
               copy' = [copy EXCEPT ![w] = [log EXCEPT !.marks = @ \cup {mark}]],
               GoTo(w, "block"), KeepLease, UNCHANGED <<mode, step, skip, answer>>
        PROVE  TypeOK'
    <3>1. copy' \in [Workers -> Logs]
      BY <2>3, LogTyped DEF TypeOK
    <3>2. QED
      BY <2>1, <2>3, <3>1 DEF TypeOK, GoTo, KeepLease, Points
  <2>4. CASE /\ copy' = [copy EXCEPT ![w] = log] /\ Proceed(w, step[w])
             /\ KeepLease /\ UNCHANGED <<mode, skip, answer>>
    <3>1. step[w] \in 0 .. Last + 2
      BY <1>0
    <3>2. pc' \in [Workers -> Points] /\ step' \in [Workers -> 0 .. Last + 1]
      BY <3>1, <2>4, ProceedGoes
    <3>3. QED
      BY <2>1, <2>4, <3>2 DEF TypeOK, KeepLease
  <2>5. QED
    BY <1>1, <2>2, <2>3, <2>4 DEF Enter, Marks
<1>2. CASE Block(w)
  BY <1>2, LeaveTyped, TypePartsNext DEF TypeOK, Block, RunTyped, RunStatuses, TERMINAL, WorkflowTyped, StepsTyped
<1>3. CASE NextStep(w)
  <2>1. UNCHANGED <<status, at, log, workflowVars, stepVars, faults>>
    BY <1>3 DEF NextStep
  <2>2. CASE Leave(w)
    BY <2>1, <2>2, LeaveTyped, TypePartsNext DEF TypeOK, RunTyped, WorkflowTyped, StepsTyped
  <2>3. CASE /\ copy' = [copy EXCEPT ![w].entry[step[w]] = "blocked"]
             /\ GoTo(w, "finish") /\ step' = [step EXCEPT ![w] = 0]
             /\ KeepLease /\ UNCHANGED <<mode, skip, answer>>
    <3>1. [copy[w] EXCEPT !.entry[step[w]] = "blocked"] \in Logs
      BY <1>0, LogTyped DEF TypeOK, Entries
    <3>2. copy' \in [Workers -> Logs]
      BY <2>3, <3>1 DEF TypeOK
    <3>3. QED
      BY <2>1, <2>3, <3>2, <1>0 DEF TypeOK, GoTo, KeepLease, Points
  <2>4. CASE GoTo(w, "do") /\ KeepLease /\ UNCHANGED taskVars
    BY <2>1, <2>4 DEF TypeOK, GoTo, KeepLease, Points
  <2>5. QED
    BY <1>3, <2>2, <2>3, <2>4 DEF NextStep
<1>4. QED
  BY <1>1, <1>2, <1>3

\* What a step does: claim, call, settlement.
LEMMA SendTyped ==
  ASSUME TypeOK, NEW w \in Workers, ClaimReceipt(w) \/ ProviderCall(w) \/ Settle(w)
  PROVE  TypeOK'
<1> USE DEF runVars, workflowVars, stepVars, taskVars
<1>1. CASE ClaimReceipt(w)
  <2>1. UNCHANGED <<runVars, workflowVars, effects, omitted, faults>>
    BY <1>1 DEF ClaimReceipt
  <2>2. CASE SetReceipt(step[w], "started") /\ GoTo(w, "send") /\ UNCHANGED taskVars
    BY <2>1, <2>2 DEF TypeOK, SetReceipt, GoTo, Points, Receipts
  <2>3. ASSUME NEW e \in Entries, Record(w, e), UNCHANGED <<receipt, answer>>
        PROVE  TypeOK'
    <3>1. TasksTyped'
      BY <2>3, RecordTyped DEF TypeOK
    <3>2. QED
      BY <2>1, <2>3, <3>1, TypePartsNext DEF TypeOK, RunTyped, WorkflowTyped, StepsTyped
  <2>4. "completed" \in Entries /\ "unknown" \in Entries
    BY DEF Entries
  <2>5. QED
    BY <1>1, <2>2, <2>3, <2>4 DEF ClaimReceipt
<1>2. CASE ProviderCall(w)
  <2>1. effects' \in [Steps -> 0 .. 2]
    BY <1>2 DEF TypeOK, ProviderCall, TakeEffect
  <2>2. answer' \in [Workers -> Answers]
    BY <1>2 DEF TypeOK, ProviderCall, Answers
  <2>3. pc' \in [Workers -> Points]
    BY <1>2 DEF TypeOK, ProviderCall, GoTo, Points
  <2>4. QED
    BY <1>2, <2>1, <2>2, <2>3 DEF TypeOK, ProviderCall
<1>3. CASE Settle(w)
  <2>1. UNCHANGED <<runVars, workflowVars, effects, omitted, faults>>
        /\ answer' = [answer EXCEPT ![w] = "none"]
    BY <1>3 DEF Settle
  <2>2. answer' \in [Workers -> Answers]
    BY <2>1 DEF TypeOK, Answers
  <2>3. PICK e \in Entries : Record(w, e)
    BY <1>3 DEF Settle, EntryFor, Entries
  <2>4. receipt' \in [Steps -> Receipts]
    <3>1. answer[w] \in Receipts
      BY DEF TypeOK, Answers, Receipts
    <3>2. QED
      BY <1>3, <3>1 DEF TypeOK, Settle, SetReceipt
  <2>5. TasksTyped'
    BY <2>2, <2>3, RecordTyped
  <2>6. QED
    BY <2>1, <2>4, <2>5, TypePartsNext DEF TypeOK, RunTyped, WorkflowTyped, StepsTyped
<1>4. QED
  BY <1>1, <1>2, <1>3

\* Local records, steps without a receipt or without a subject, waits, and steps
\* that throw.
LEMMA ApplyTyped ==
  ASSUME TypeOK, NEW w \in Workers,
         \/ ApplyLocal(w) \/ ApplyPlain(w) \/ SkipStep(w) \/ SaveWait(w)
         \/ StepThrows(w) \/ Finish(w)
  PROVE  TypeOK'
<1> USE DEF runVars, workflowVars, stepVars, taskVars
<1>0. Last \in Nat /\ MaxFaults \in Nat /\ "completed" \in Entries /\ "failed" \in Entries
  BY StepsAssumption, BoundsAssumption DEF Entries
<1>1. CASE ApplyLocal(w)
  <2>1. UNCHANGED <<status, at, log, workflowVars, faults>>
    BY <1>1 DEF ApplyLocal
  <2>2. CASE Leave(w) /\ UNCHANGED stepVars
    BY <2>1, <2>2, LeaveTyped, TypePartsNext DEF TypeOK, RunTyped, WorkflowTyped, StepsTyped
  <2>3. CASE /\ KeepLease /\ Record(w, "completed") /\ UNCHANGED answer
             /\ \/ UNCHANGED stepVars
                \/ /\ TakeEffect(step[w]) /\ SetReceipt(step[w], "accepted")
                   /\ UNCHANGED omitted
    <3>1. TasksTyped'
      BY <2>3, <1>0, RecordTyped DEF TypeOK
    <3>2. StepsTyped'
      BY <2>3 DEF TypeOK, StepsTyped, TakeEffect, SetReceipt, Receipts
    <3>3. QED
      BY <2>1, <2>3, <3>1, <3>2, TypePartsNext DEF TypeOK, KeepLease, RunTyped, WorkflowTyped
  <2>4. QED
    BY <1>1, <2>2, <2>3 DEF ApplyLocal
<1>2. CASE ApplyPlain(w)
  <2>1. TasksTyped'
    BY <1>2, <1>0, RecordTyped DEF TypeOK, ApplyPlain
  <2>2. StepsTyped'
    BY <1>2 DEF TypeOK, ApplyPlain, StepsTyped
  <2>3. QED
    BY <1>2, <2>1, <2>2, TypePartsNext DEF TypeOK, ApplyPlain, RunTyped, WorkflowTyped
<1>3. CASE SaveWait(w)
  <2>1. CASE Holds(w) /\ status' = "waiting" /\ at' = step[w] /\ LetGo /\ Rest(w)
             /\ log' = [copy[w] EXCEPT !.entry[step[w]] = "scheduled"]
    <3>1. step[w] \in 0 .. Last
      BY <1>0, <1>3, StepsAssumption DEF SaveWait, Steps
    <3>2. log' \in Logs
      <4>1. copy[w] \in Logs /\ step[w] \in 0 .. Last + 1 /\ "scheduled" \in Entries
        BY DEF TypeOK, Entries
      <4>2. QED
        BY <2>1, <4>1, LogTyped
    <3>3. TasksTyped'
      BY <2>1, RestTyped
    <3>4. RunTyped'
      BY <2>1, <3>1, <3>2 DEF RunTyped, RunStatuses, LetGo
    <3>5. QED
      BY <1>3, <3>3, <3>4, TypePartsNext DEF TypeOK, SaveWait, WorkflowTyped, StepsTyped
  <2>2. CASE Leave(w) /\ UNCHANGED <<status, at, log>>
    BY <1>3, <2>2, LeaveTyped, TypePartsNext DEF TypeOK, SaveWait, RunTyped, WorkflowTyped, StepsTyped
  <2>3. QED
    BY <1>3, <2>1, <2>2 DEF SaveWait
<1>4. CASE StepThrows(w)
  <2>1. TasksTyped'
    BY <1>4, <1>0, RecordTyped DEF TypeOK, StepThrows
  <2>2. faults' \in 0 .. MaxFaults
    BY <1>4, <1>0 DEF TypeOK, StepThrows, Faulty
  <2>3. QED
    BY <1>4, <2>1, <2>2, TypePartsNext DEF TypeOK, StepThrows, RunTyped, WorkflowTyped, StepsTyped
<1>5. CASE Finish(w)
  <2>1. CASE Holds(w) /\ status' = Outcome(copy[w]) /\ at' = Last /\ log' = copy[w] /\ LetGo /\ Rest(w)
    <3>1. Outcome(copy[w]) \in RunStatuses
      BY DEF Outcome, RunStatuses, TERMINAL
    <3>2. Last \in 0 .. Last /\ copy[w] \in Logs
      BY <1>0 DEF TypeOK
    <3>3. RunTyped'
      BY <2>1, <3>1, <3>2 DEF RunTyped, LetGo
    <3>4. QED
      BY <1>5, <2>1, <3>3, RestTyped, TypePartsNext DEF TypeOK, Finish, WorkflowTyped, StepsTyped
  <2>2. CASE Leave(w) /\ UNCHANGED <<status, at, log>>
    BY <1>5, <2>2, LeaveTyped, TypePartsNext DEF TypeOK, Finish, RunTyped, WorkflowTyped, StepsTyped
  <2>3. QED
    BY <1>5, <2>1, <2>2 DEF Finish
<1>6. CASE SkipStep(w)
  <2>1. TasksTyped'
    <3>1. "skipped" \in Entries
      BY DEF Entries
    <3>2. QED
      BY <1>6, <3>1, RecordTyped DEF TypeOK, SkipStep
  <2>2. StepsTyped'
    BY <1>6 DEF TypeOK, SkipStep, StepsTyped
  <2>3. QED
    BY <1>6, <2>1, <2>2, TypePartsNext DEF TypeOK, SkipStep, RunTyped, WorkflowTyped
<1>7. QED
  BY <1>1, <1>2, <1>3, <1>4, <1>5, <1>6

\* Parking, changes of the workflow and of what is there, and faults.
LEMMA FaultTyped ==
  ASSUME TypeOK,
         \/ ParkInterrupted \/ EditWorkflow \/ ChangeSubjects \/ Lapse
         \/ \E w \in Workers : Throw(w) \/ Crash(w)
  PROVE  TypeOK'
<1> USE DEF runVars, workflowVars, stepVars, taskVars
<1>0. MaxFaults \in Nat /\ MaxEdits \in Nat
  BY BoundsAssumption
<1>1. CASE ParkInterrupted
  <2>1. log' \in Logs
    BY <1>1, LogTyped DEF TypeOK, ParkInterrupted, Marks
  <2>2. status' \in RunStatuses
    BY <1>1 DEF ParkInterrupted, RunStatuses, TERMINAL
  <2>3. QED
    BY <1>1, <2>1, <2>2 DEF TypeOK, ParkInterrupted, LetGo
<1>2. CASE EditWorkflow
  <2>1. edits' \in 0 .. MaxEdits
    BY <1>0, <1>2 DEF TypeOK, EditWorkflow
  <2>2. enabled' \in BOOLEAN /\ pinned' \in BOOLEAN
    BY <1>2 DEF TypeOK, EditWorkflow
  <2>3. QED
    BY <1>2, <2>1, <2>2 DEF TypeOK, EditWorkflow
<1>3. CASE Lapse
  <2>1. faults' \in 0 .. MaxFaults
    BY <1>0, <1>3 DEF TypeOK, Lapse, Faulty
  <2>2. QED
    BY <1>3, <2>1 DEF TypeOK, Lapse
<1>4. ASSUME NEW w \in Workers, Throw(w)
      PROVE  TypeOK'
  <2>1. faults' \in 0 .. MaxFaults
    BY <1>0, <1>4 DEF TypeOK, Throw, Faulty
  <2>2. QED
    BY <1>4, <2>1, LeaveTyped, TypePartsNext
       DEF TypeOK, Throw, RunTyped, WorkflowTyped, StepsTyped
<1>5. ASSUME NEW w \in Workers, Crash(w)
      PROVE  TypeOK'
  <2>1. faults' \in 0 .. MaxFaults
    BY <1>0, <1>5 DEF TypeOK, Crash, Faulty
  <2>2. QED
    BY <1>5, <2>1, RestTyped, TypePartsNext
       DEF TypeOK, Crash, RunTyped, WorkflowTyped, StepsTyped
<1>6. CASE ChangeSubjects
  <2>1. edits' \in 0 .. MaxEdits /\ moot' \subseteq Skippable
    BY <1>0, <1>6 DEF TypeOK, ChangeSubjects
  <2>2. QED
    BY <1>6, <2>1 DEF TypeOK, ChangeSubjects
<1>7. QED
  BY <1>1, <1>2, <1>3, <1>4, <1>5, <1>6

LEMMA NextTyped == TypeOK /\ [Next]_vars => TypeOK'
<1> SUFFICES ASSUME TypeOK, [Next]_vars PROVE TypeOK'
  OBVIOUS
<1>1. CASE UNCHANGED vars
  BY <1>1 DEF TypeOK, vars, runVars, workflowVars, stepVars, taskVars
<1>2. CASE Next
  BY <1>2, TakeTyped, EnterTyped, SendTyped, ApplyTyped, FaultTyped DEF Next, WorkerStep
<1>3. QED
  BY <1>1, <1>2

\* A run ends in one of the statuses its readers know, and receipts, log and
\* executors take no other state than the code writes.
THEOREM RunsTypeCorrect == Spec => []TypeOK
<1>1. QED
  BY InitTyped, NextTyped, PTL DEF Spec

-----------------------------------------------------------------------------
(* Once *)

InCall(w) == pc[w] \in {"send", "settle"}

\* Between claim and settlement the receipt is open, and until the call nothing
\* has happened; after it the answer tells, unless it was lost.
CallsOpen == \A w \in Workers : InCall(w) =>
  /\ step[w] \in Sends /\ receipt[step[w]] = "started"
  /\ pc[w] = "send" => effects[step[w]] = 0
  /\ pc[w] = "settle" =>
       /\ answer[w] # "none"
       /\ answer[w] = "refused" => effects[step[w]] = 0
       /\ answer[w] = "accepted" => effects[step[w]] = 1

\* No two executors are in the call of one step, with or without the lease.
CallsAlone ==
  \A v, w \in Workers : InCall(v) /\ InCall(w) /\ step[v] = step[w] => v = w

\* What a receipt says of its step.
ReceiptsTrue ==
  /\ \A s \in Locals : receipt[s] # "accepted" => effects[s] = 0
  /\ \A s \in Sends : receipt[s] \in {"none", "refused"} => effects[s] = 0
  /\ \A s \in Sends : receipt[s] = "accepted" => effects[s] = 1

Once == CallsOpen /\ CallsAlone /\ ReceiptsTrue /\ GuardedOnce

\* A step of the run that touches no receipt, has no effect and brings no
\* executor into a call.
Quiet ==
  /\ UNCHANGED <<receipt, effects>>
  /\ \A w \in Workers : InCall(w)' =>
       InCall(w) /\ pc'[w] = pc[w] /\ step'[w] = step[w] /\ answer'[w] = answer[w]

LEMMA QuietOnce == Once /\ Quiet => Once'
<1> SUFFICES ASSUME Once, Quiet PROVE Once'
  OBVIOUS
<1>1. receipt' = receipt /\ effects' = effects
  BY DEF Quiet
<1>2. CallsOpen'
  BY <1>1 DEF Once, Quiet, CallsOpen, InCall
<1>3. CallsAlone'
  BY DEF Once, Quiet, CallsAlone, InCall
<1>4. ReceiptsTrue' /\ GuardedOnce'
  BY <1>1 DEF Once, ReceiptsTrue, GuardedOnce
<1>5. QED
  BY <1>2, <1>3, <1>4 DEF Once

\* What becomes of the executor that records a step or leaves.
LEMMA RecordMoves ==
  ASSUME TypeOK, NEW w \in Workers, NEW e \in Entries, Record(w, e)
  PROVE  /\ pc'[w] \in {"step", "finish"}
         /\ \A v \in Workers \ {w} : pc'[v] = pc[v] /\ step'[v] = step[v]
<1>1. Last \in Nat /\ step[w] + 1 \in 0 .. Last + 2
  BY StepsAssumption DEF TypeOK
<1>2. CASE Proceed(w, step[w] + 1)
  BY <1>1, <1>2, ProceedGoes
<1>3. CASE GoTo(w, "finish") /\ step' = [step EXCEPT ![w] = 0]
  BY <1>3 DEF TypeOK, GoTo
<1>4. QED
  BY <1>2, <1>3 DEF Record

LEMMA RestMoves ==
  ASSUME TypeOK, NEW w \in Workers, Rest(w)
  PROVE  /\ pc'[w] = "idle"
         /\ \A v \in Workers \ {w} :
              pc'[v] = pc[v] /\ step'[v] = step[v] /\ answer'[v] = answer[v]
BY DEF TypeOK, Rest, GoTo

\* Only a claim, a call, a settlement and a local record are not quiet; a step
\* without a receipt only counts for itself.
LEMMA TakeQuiet ==
  ASSUME TypeOK, NEW w \in Workers,
         Trigger(w) \/ ClaimDue(w) \/ ReadForRetry(w) \/ Reopen(w)
  PROVE  Quiet
<1> USE DEF stepVars, taskVars, Quiet, InCall
<1>1. CASE Trigger(w)
  <2>1. 1 \in 0 .. Last + 2
    BY StepsAssumption
  <2>2. pc'[w] \in {"step", "finish"}
        /\ \A v \in Workers \ {w} : pc'[v] = pc[v] /\ step'[v] = step[v]
    BY <1>1, <2>1, ProceedGoes DEF Trigger
  <2>3. QED
    BY <1>1, <2>2 DEF Trigger
<1>2. CASE ClaimDue(w)
  BY <1>2 DEF TypeOK, ClaimDue, GoTo
<1>3. CASE ReadForRetry(w)
  BY <1>3 DEF TypeOK, ReadForRetry, GoTo
<1>4. CASE Reopen(w)
  <2>1. CASE Rest(w)
    BY <1>4, <2>1, RestMoves DEF Reopen
  <2>2. CASE GoTo(w, "enter") /\ step' = [step EXCEPT ![w] = 1] /\ UNCHANGED answer
    BY <1>4, <2>2 DEF TypeOK, Reopen, GoTo
  <2>3. QED
    BY <1>4, <2>1, <2>2 DEF Reopen
<1>5. QED
  BY <1>1, <1>2, <1>3, <1>4

LEMMA EnterQuiet ==
  ASSUME TypeOK, NEW w \in Workers, Enter(w) \/ Block(w) \/ NextStep(w)
  PROVE  Quiet
<1> USE DEF stepVars, taskVars, Quiet, InCall
<1>1. UNCHANGED stepVars
  BY DEF Enter, Block, NextStep
<1>2. CASE Leave(w)
  BY <1>1, <1>2, RestMoves DEF Leave
<1>3. CASE GoTo(w, "block") /\ UNCHANGED <<step, answer>>
  BY <1>1, <1>3 DEF TypeOK, GoTo
<1>4. CASE Proceed(w, step[w]) /\ UNCHANGED answer
  <2>1. step[w] \in 0 .. Last + 2
    BY StepsAssumption DEF TypeOK
  <2>2. QED
    BY <1>1, <1>4, <2>1, ProceedGoes
<1>5. CASE GoTo(w, "finish") /\ step' = [step EXCEPT ![w] = 0] /\ UNCHANGED answer
  BY <1>1, <1>5 DEF TypeOK, GoTo
<1>6. CASE GoTo(w, "do") /\ UNCHANGED taskVars
  BY <1>1, <1>6 DEF TypeOK, GoTo
<1>7. QED
  BY <1>2, <1>3, <1>4, <1>5, <1>6 DEF Enter, Block, NextStep

LEMMA RestQuiet ==
  ASSUME TypeOK,
         \/ ParkInterrupted \/ EditWorkflow \/ ChangeSubjects \/ Lapse
         \/ \E w \in Workers : \/ SkipStep(w) \/ SaveWait(w) \/ StepThrows(w)
                               \/ Finish(w) \/ Throw(w) \/ Crash(w)
  PROVE  Quiet
<1> USE DEF stepVars, taskVars, Quiet, InCall
<1>1. CASE ParkInterrupted \/ EditWorkflow \/ ChangeSubjects \/ Lapse
  BY <1>1 DEF ParkInterrupted, EditWorkflow, ChangeSubjects, Lapse
<1>2. ASSUME NEW w \in Workers, SaveWait(w) \/ Finish(w) \/ Throw(w) \/ Crash(w)
      PROVE  Quiet
  BY <1>2, RestMoves DEF SaveWait, Finish, Throw, Crash, Leave
<1>3. ASSUME NEW w \in Workers, StepThrows(w) \/ SkipStep(w)
      PROVE  Quiet
  <2>1. "failed" \in Entries /\ "skipped" \in Entries
    BY DEF Entries
  <2>2. QED
    BY <1>3, <2>1, RecordMoves DEF StepThrows, SkipStep
<1>4. QED
  BY <1>1, <1>2, <1>3

\* A claim finds that nothing has happened, and that nobody is in the call.
LEMMA ClaimOnce ==
  ASSUME TypeOK, Once, NEW w \in Workers, ClaimReceipt(w)
  PROVE  Once'
<1>1. pc[w] = "do" /\ step[w] \in Sends /\ effects' = effects
  BY DEF ClaimReceipt
<1>2. CASE /\ receipt[step[w]] \in {"none", "refused"}
           /\ SetReceipt(step[w], "started") /\ GoTo(w, "send") /\ UNCHANGED taskVars
  <2> DEFINE s == step[w]
  <2>1. step' = step /\ answer' = answer
    BY <1>2 DEF taskVars
  <2>2. pc'[w] = "send" /\ \A v \in Workers \ {w} : pc'[v] = pc[v]
    BY <1>2 DEF TypeOK, GoTo
  <2>3. s \in Sends /\ s \in Steps
    BY <1>1, StepsAssumption
  <2>4. receipt'[s] = "started" /\ \A t \in Steps \ {s} : receipt'[t] = receipt[t]
    BY <1>2, <2>3 DEF TypeOK, SetReceipt
  <2>5. effects[s] = 0
    BY <1>2, <2>3 DEF Once, ReceiptsTrue
  <2>6. \A v \in Workers \ {w} : InCall(v) => step[v] # s
    BY <1>2 DEF Once, CallsOpen
  <2>7. CallsOpen'
    <3> SUFFICES ASSUME NEW v \in Workers, InCall(v)'
                 PROVE  /\ step'[v] \in Sends /\ receipt'[step'[v]] = "started"
                        /\ pc'[v] = "send" => effects'[step'[v]] = 0
                        /\ pc'[v] = "settle" =>
                             /\ answer'[v] # "none"
                             /\ answer'[v] = "refused" => effects'[step'[v]] = 0
                             /\ answer'[v] = "accepted" => effects'[step'[v]] = 1
      BY DEF CallsOpen
    <3>1. CASE v = w
      BY <3>1, <1>1, <2>1, <2>2, <2>4, <2>5
    <3>2. CASE v # w
      <4>1. InCall(v) /\ pc'[v] = pc[v] /\ step[v] # s
        BY <3>2, <2>2, <2>6 DEF InCall
      <4>2. step[v] \in Steps
        BY <4>1, StepsAssumption DEF Once, CallsOpen
      <4>3. QED
        BY <4>1, <4>2, <1>1, <2>1, <2>4 DEF Once, CallsOpen
    <3>3. QED
      BY <3>1, <3>2
  <2>8. CallsAlone'
    BY <2>1, <2>2, <2>6 DEF Once, CallsAlone, InCall
  <2>9. ReceiptsTrue'
    BY <1>1, <2>3, <2>4, StepsAssumption DEF Once, ReceiptsTrue
  <2>10. QED
    BY <1>1, <2>7, <2>8, <2>9 DEF Once, GuardedOnce
<1>3. ASSUME NEW e \in Entries, Record(w, e), UNCHANGED <<receipt, answer>>
      PROVE  Once'
  <2>1. Quiet
    BY <1>1, <1>3, RecordMoves DEF Quiet, InCall, stepVars
  <2>2. QED
    BY <2>1, QuietOnce
<1>4. "completed" \in Entries /\ "unknown" \in Entries
  BY DEF Entries
<1>5. QED
  BY <1>2, <1>3, <1>4 DEF ClaimReceipt

\* The call is the first effect of its step.
LEMMA CallOnce ==
  ASSUME TypeOK, Once, NEW w \in Workers, ProviderCall(w)
  PROVE  Once'
<1> DEFINE s == step[w]
<1>1. /\ pc[w] = "send" /\ receipt' = receipt /\ step' = step
      /\ pc'[w] = "settle" /\ \A v \in Workers \ {w} : pc'[v] = pc[v] /\ answer'[v] = answer[v]
  BY DEF TypeOK, ProviderCall, GoTo
<1>2. s \in Sends /\ s \in Steps /\ receipt[s] = "started" /\ effects[s] = 0
  BY <1>1, StepsAssumption DEF Once, CallsOpen, InCall
<1>3. /\ \A t \in Steps \ {s} : effects'[t] = effects[t]
      /\ \/ effects'[s] = 1 /\ answer'[w] \in {"accepted", "unknown"}
         \/ effects'[s] = 0 /\ answer'[w] \in {"refused", "unknown"}
  BY <1>2 DEF TypeOK, ProviderCall, TakeEffect
<1>4. \A v \in Workers \ {w} : InCall(v) => step[v] # s
  BY <1>1 DEF Once, CallsAlone, InCall
<1>5. CallsOpen'
  <2> SUFFICES ASSUME NEW v \in Workers, InCall(v)'
               PROVE  /\ step'[v] \in Sends /\ receipt'[step'[v]] = "started"
                      /\ pc'[v] = "send" => effects'[step'[v]] = 0
                      /\ pc'[v] = "settle" =>
                           /\ answer'[v] # "none"
                           /\ answer'[v] = "refused" => effects'[step'[v]] = 0
                           /\ answer'[v] = "accepted" => effects'[step'[v]] = 1
    BY DEF CallsOpen
  <2>1. CASE v = w
    BY <2>1, <1>1, <1>2, <1>3
  <2>2. CASE v # w
    <3>1. InCall(v) /\ pc'[v] = pc[v] /\ answer'[v] = answer[v] /\ step[v] # s
      BY <2>2, <1>1, <1>4 DEF InCall
    <3>2. step[v] \in Steps
      BY <3>1, StepsAssumption DEF Once, CallsOpen
    <3>3. QED
      BY <3>1, <3>2, <1>1, <1>3 DEF Once, CallsOpen
  <2>3. QED
    BY <2>1, <2>2
<1>6. CallsAlone'
  BY <1>1 DEF Once, CallsAlone, InCall
<1>7. ReceiptsTrue'
  BY <1>1, <1>2, <1>3, StepsAssumption DEF Once, ReceiptsTrue
<1>8. GuardedOnce'
  BY <1>2, <1>3, StepsAssumption DEF Once, GuardedOnce
<1>9. QED
  BY <1>5, <1>6, <1>7, <1>8 DEF Once

\* A settlement writes what the answer said of the one call.
LEMMA SettleOnce ==
  ASSUME TypeOK, Once, NEW w \in Workers, Settle(w)
  PROVE  Once'
<1> DEFINE s == step[w]
<1>1. pc[w] = "settle" /\ effects' = effects /\ answer' = [answer EXCEPT ![w] = "none"]
  BY DEF Settle
<1>2. PICK e \in Entries : Record(w, e)
  BY DEF Settle, EntryFor, Entries
<1>3. /\ pc'[w] \in {"step", "finish"}
      /\ \A v \in Workers \ {w} :
           pc'[v] = pc[v] /\ step'[v] = step[v] /\ answer'[v] = answer[v]
  BY <1>1, <1>2, RecordMoves DEF TypeOK
<1>4. s \in Sends /\ s \in Steps /\ receipt[s] = "started"
      /\ answer[w] \in {"accepted", "refused", "unknown"}
      /\ (answer[w] = "refused" => effects[s] = 0)
      /\ (answer[w] = "accepted" => effects[s] = 1)
  BY <1>1, StepsAssumption DEF TypeOK, Answers, Once, CallsOpen, InCall
<1>5. /\ \A t \in Steps \ {s} : receipt'[t] = receipt[t]
      /\ receipt'[s] \in {"started", answer[w]}
  BY <1>4 DEF TypeOK, Settle, SetReceipt
<1>6. \A v \in Workers \ {w} : InCall(v) => step[v] # s
  BY <1>1 DEF Once, CallsAlone, InCall
<1>7. CallsOpen'
  <2> SUFFICES ASSUME NEW v \in Workers, InCall(v)'
               PROVE  /\ step'[v] \in Sends /\ receipt'[step'[v]] = "started"
                      /\ pc'[v] = "send" => effects'[step'[v]] = 0
                      /\ pc'[v] = "settle" =>
                           /\ answer'[v] # "none"
                           /\ answer'[v] = "refused" => effects'[step'[v]] = 0
                           /\ answer'[v] = "accepted" => effects'[step'[v]] = 1
    BY DEF CallsOpen
  <2>1. v # w /\ InCall(v) /\ step[v] # s
    BY <1>3, <1>6 DEF InCall
  <2>2. step[v] \in Steps
    BY <2>1, StepsAssumption DEF Once, CallsOpen
  <2>3. QED
    BY <2>1, <2>2, <1>1, <1>3, <1>5 DEF Once, CallsOpen
<1>8. CallsAlone'
  BY <1>3 DEF Once, CallsAlone, InCall
<1>9. ReceiptsTrue' /\ GuardedOnce'
  BY <1>1, <1>4, <1>5, StepsAssumption DEF Once, ReceiptsTrue, GuardedOnce
<1>10. QED
  BY <1>7, <1>8, <1>9 DEF Once

\* Local records, and the steps without a receipt.
LEMMA ApplyOnce ==
  ASSUME TypeOK, Once, NEW w \in Workers, ApplyLocal(w) \/ ApplyPlain(w)
  PROVE  Once'
<1> DEFINE s == step[w]
<1>1. CASE UNCHANGED stepVars /\ Leave(w)
  <2>1. Quiet
    BY <1>1, RestMoves DEF Leave, Quiet, InCall, stepVars
  <2>2. QED
    BY <2>1, QuietOnce
<1>2. ASSUME Record(w, "completed"), pc[w] = "do", UNCHANGED answer,
             \/ UNCHANGED stepVars
             \/ /\ s \in Locals /\ receipt[s] # "accepted"
                /\ TakeEffect(s) /\ SetReceipt(s, "accepted")
             \/ /\ UNCHANGED receipt
                /\ \A t \in Sends \cup Locals : effects'[t] = effects[t]
      PROVE  Once'
  <2>1. /\ ~InCall(w)'
        /\ \A v \in Workers \ {w} : pc'[v] = pc[v] /\ step'[v] = step[v]
    <3>1. "completed" \in Entries
      BY DEF Entries
    <3>2. QED
      BY <1>2, <3>1, RecordMoves DEF InCall
  <2>2. \A t \in Sends : receipt'[t] = receipt[t] /\ effects'[t] = effects[t]
    BY <1>2, StepsAssumption DEF TypeOK, stepVars, TakeEffect, SetReceipt
  <2>3. \A t \in Locals : \/ receipt'[t] = receipt[t] /\ effects'[t] = effects[t]
                          \/ receipt'[t] = "accepted" /\ receipt[t] # "accepted"
                             /\ effects'[t] = IF effects[t] = 0 THEN 1 ELSE 2
    BY <1>2, StepsAssumption DEF TypeOK, stepVars, TakeEffect, SetReceipt
  <2>4. CallsOpen'
    BY <1>2, <2>1, <2>2 DEF Once, CallsOpen, InCall
  <2>5. CallsAlone'
    BY <2>1 DEF Once, CallsAlone, InCall
  <2>6. ReceiptsTrue' /\ GuardedOnce'
    BY <2>2, <2>3 DEF Once, ReceiptsTrue, GuardedOnce
  <2>7. QED
    BY <2>4, <2>5, <2>6 DEF Once
<1>3. CASE ApplyLocal(w)
  BY <1>1, <1>2, <1>3 DEF ApplyLocal
<1>4. CASE ApplyPlain(w)
  <2>1. \A t \in Sends \cup Locals : t \in Steps /\ t # step[w]
    BY <1>4, StepsAssumption DEF ApplyPlain
  <2>2. \A t \in Sends \cup Locals : effects'[t] = effects[t]
    BY <1>4, <2>1 DEF TypeOK, ApplyPlain
  <2>3. QED
    BY <1>2, <1>4, <2>2 DEF ApplyPlain
<1>5. QED
  BY <1>3, <1>4

LEMMA InitOnce == Init => Once
BY StepsAssumption DEF Init, Once, CallsOpen, CallsAlone, ReceiptsTrue, GuardedOnce, InCall

LEMMA NextOnce == TypeOK /\ Once /\ [Next]_vars => Once'
<1> SUFFICES ASSUME TypeOK, Once, [Next]_vars PROVE Once'
  OBVIOUS
<1>1. CASE UNCHANGED vars
  BY <1>1 DEF Once, CallsOpen, CallsAlone, ReceiptsTrue, GuardedOnce, InCall,
              vars, stepVars, taskVars
<1>2. ASSUME NEW w \in Workers,
             \/ Trigger(w) \/ ClaimDue(w) \/ ReadForRetry(w) \/ Reopen(w)
             \/ Enter(w) \/ Block(w) \/ NextStep(w)
      PROVE  Once'
  BY <1>2, TakeQuiet, EnterQuiet, QuietOnce
<1>3. ASSUME NEW w \in Workers,
             ClaimReceipt(w) \/ ProviderCall(w) \/ Settle(w) \/ ApplyLocal(w) \/ ApplyPlain(w)
      PROVE  Once'
  BY <1>3, ClaimOnce, CallOnce, SettleOnce, ApplyOnce
<1>4. CASE \/ ParkInterrupted \/ EditWorkflow \/ ChangeSubjects \/ Lapse
           \/ \E w \in Workers : \/ SkipStep(w) \/ SaveWait(w) \/ StepThrows(w)
                                 \/ Finish(w) \/ Throw(w) \/ Crash(w)
  BY <1>4, RestQuiet, QuietOnce
<1>5. QED
  BY <1>1, <1>2, <1>3, <1>4 DEF Next, WorkerStep

\* However often a run is taken over, retried or interrupted: the message of a
\* step goes out once at most, and a local record is written once at most.
THEOREM RunsActOnce == Spec => []GuardedOnce
<1>1. Init => TypeOK /\ Once
  BY InitTyped, InitOnce
<1>2. TypeOK /\ Once /\ [Next]_vars => (TypeOK /\ Once)'
  BY NextTyped, NextOnce
<1>3. Once => GuardedOnce
  BY DEF Once
<1>4. QED
  BY <1>1, <1>2, <1>3, PTL DEF Spec

-----------------------------------------------------------------------------
(* Nothing behind a hold *)

\* Every message before step n went out or was skipped.
Reached(n) == \A s \in Sends : s < n => Cleared(s)

\* A log calls a message sent only if it went out.
LogTrue(l) ==
  \A s \in Sends : l.entry[s] \in {"completed", "scheduled"} => effects[s] > 0

\* Whatever an executor is about to do, and whatever it leaves out.
PassTrue(w) ==
  /\ pc[w] \in {"enter", "step", "do", "send", "settle"} => Reached(step[w])
  /\ LogTrue(copy[w])
  /\ \A s \in Sends \cap skip[w] : effects[s] > 0

RunTrue == LogTrue(log) /\ (status = "waiting" => Reached(at + 1))

InOrder == NothingBehindAHold /\ RunTrue /\ \A w \in Workers : PassTrue(w)

EffectsGrow ==
  /\ \A s \in Steps : effects[s] > 0 => effects'[s] > 0
  /\ omitted \subseteq omitted'

OthersRest(w) == \A v \in Workers \ {w} :
  pc'[v] = pc[v] /\ step'[v] = step[v] /\ copy'[v] = copy[v] /\ skip'[v] = skip[v]

\* What is reached stays reached, for the run and for the other executors.
LEMMA OrderKept ==
  ASSUME InOrder, EffectsGrow, NEW w \in Workers, OthersRest(w), PassTrue(w)',
         NothingBehindAHold', RunTrue'
  PROVE  InOrder'
<1> SUFFICES ASSUME NEW v \in Workers \ {w} PROVE PassTrue(v)'
  BY DEF InOrder
<1>1. PassTrue(v) /\ pc'[v] = pc[v] /\ step'[v] = step[v] /\ copy'[v] = copy[v] /\ skip'[v] = skip[v]
  BY DEF InOrder, OthersRest
<1>2. \A s \in Sends : (effects[s] > 0 => effects'[s] > 0) /\ (Cleared(s) => Cleared(s)')
  BY StepsAssumption DEF EffectsGrow, Cleared
<1>3. QED
  BY <1>1, <1>2 DEF PassTrue, Reached, LogTrue

LEMMA RunKept ==
  ASSUME InOrder, EffectsGrow, log' = log, at' = at, status' = "waiting" => status = "waiting"
  PROVE  RunTrue'
<1>1. \A s \in Sends : (effects[s] > 0 => effects'[s] > 0) /\ (Cleared(s) => Cleared(s)')
  BY StepsAssumption DEF EffectsGrow, Cleared
<1>2. QED
  BY <1>1 DEF InOrder, RunTrue, Reached, LogTrue

\* An effect of a step that is reached has every message before it behind it.
LEMMA EffectKept ==
  ASSUME TypeOK, InOrder, NEW s \in Steps, Reached(s), UNCHANGED omitted,
         TakeEffect(s) \/ effects' = [effects EXCEPT ![s] = 1]
  PROVE  EffectsGrow /\ NothingBehindAHold' /\ effects'[s] > 0
<1>1. effects'[s] \in {1, 2} /\ \A t \in Steps : t # s => effects'[t] = effects[t]
  BY DEF TypeOK, TakeEffect
<1>2. EffectsGrow /\ effects'[s] > 0
  BY <1>1 DEF EffectsGrow
<1>3. \A t \in Sends : t \in Steps /\ (Cleared(t) => Cleared(t)')
  BY <1>2, StepsAssumption DEF EffectsGrow, Cleared
<1>4. NothingBehindAHold'
  BY <1>1, <1>3 DEF InOrder, NothingBehindAHold, Reached
<1>5. QED
  BY <1>2, <1>4

\* The next step of a pass is reached if its beginning is.
LEMMA ProceedOrder ==
  ASSUME TypeOK, EffectsGrow, NEW w \in Workers, NEW n \in 0 .. Last + 2, Proceed(w, n),
         \A s \in Sends : s < n /\ n <= Last => Cleared(s)',
         \A s \in Sends \cap skip[w] : effects'[s] > 0
  PROVE  pc'[w] \in {"enter", "step", "do", "send", "settle"} => Reached(step[w])'
<1> SUFFICES ASSUME pc'[w] \in {"enter", "step", "do", "send", "settle"},
                    NEW s \in Sends, s < step'[w]
             PROVE  Cleared(s)'
  BY DEF Reached
<1>1. step'[w] \in n .. Last /\ \A t \in n .. Last : t < step'[w] => t \in skip[w]
  BY ProceedGoes
<1>2. s \in Nat /\ Last \in Nat /\ n \in Nat /\ s <= Last
  BY StepsAssumption DEF Steps
<1>3. CASE s < n
  BY <1>1, <1>2, <1>3
<1>4. CASE ~(s < n)
  BY <1>1, <1>2, <1>4 DEF Cleared
<1>5. QED
  BY <1>3, <1>4

\* A step that is recorded: a required message that did not go out and was not
\* skipped holds the rest of the run.
LEMMA RecordOrder ==
  ASSUME TypeOK, InOrder, EffectsGrow, NEW w \in Workers,
         NEW e \in {"completed", "skipped", "failed", "unknown"}, Record(w, e),
         Reached(step[w]),
         step[w] \in Sends /\ e = "completed" => effects'[step[w]] > 0,
         step[w] \in Sends /\ e = "skipped" => step[w] \in omitted'
  PROVE  PassTrue(w)' /\ OthersRest(w)
<1> DEFINE n == step[w]
<1>0. e \in Entries /\ Last \in Nat /\ n \in 0 .. Last + 1 /\ n + 1 \in 0 .. Last + 2
  BY StepsAssumption DEF TypeOK, Entries
<1>1. /\ copy' = [copy EXCEPT ![w].entry[n] = e] /\ skip' = skip
  BY DEF Record
<1>2. \A s \in Sends : /\ s \in Steps /\ s \in Nat /\ s <= Last
                      /\ (effects[s] > 0 => effects'[s] > 0) /\ (Cleared(s) => Cleared(s)')
  BY StepsAssumption DEF EffectsGrow, Steps, Cleared
<1>3. LogTrue(copy[w])'
  <2>1. \A s \in Steps : copy'[w].entry[s] = IF s = n THEN e ELSE copy[w].entry[s]
    <3>1. copy[w].entry \in [Steps -> Entries] /\ copy'[w].entry = [copy[w].entry EXCEPT ![n] = e]
      BY <1>1 DEF TypeOK, Logs
    <3>2. QED
      BY <3>1
  <2>2. LogTrue(copy[w])
    BY DEF InOrder, PassTrue
  <2>3. QED
    BY <1>2, <2>1, <2>2 DEF LogTrue
<1>4. \A s \in Sends \cap skip[w] : effects'[s] > 0
  BY <1>2 DEF InOrder, PassTrue
<1>5. pc'[w] \in {"enter", "step", "do", "send", "settle"} => Reached(step[w])'
  <2>1. CASE GoTo(w, "finish")
    BY <2>1 DEF TypeOK, GoTo
  <2>2. CASE ~Halts(n, e) /\ Proceed(w, n + 1)
    <3>1. ASSUME NEW s \in Sends, s < n + 1, n + 1 <= Last
          PROVE  Cleared(s)'
      <4>1. CASE s < n
        BY <1>2, <4>1 DEF Reached
      <4>2. CASE s = n
        <5>1. e \in {"completed", "skipped"}
          BY <1>0, <2>2, <3>1, <4>2 DEF Halts, NOT_DELIVERED
        <5>2. QED
          BY <3>1, <4>2, <5>1 DEF Cleared
      <4>3. QED
        BY <1>0, <1>2, <3>1, <4>1, <4>2
    <3>2. QED
      BY <1>0, <1>4, <2>2, <3>1, ProceedOrder
  <2>3. QED
    BY <2>1, <2>2 DEF Record
<1>6. PassTrue(w)'
  BY <1>1, <1>3, <1>4, <1>5 DEF PassTrue
<1>7. OthersRest(w)
  BY <1>0, <1>1, RecordMoves DEF TypeOK, OthersRest
<1>8. QED
  BY <1>6, <1>7

\* An executor at rest has no pass to get wrong.
LEMMA RestOrder ==
  ASSUME TypeOK, NEW w \in Workers, Rest(w)
  PROVE  PassTrue(w)' /\ OthersRest(w)
<1>1. pc'[w] = "idle" /\ copy'[w] = EmptyLog /\ skip'[w] = {}
  BY DEF TypeOK, Rest, GoTo
<1>2. LogTrue(copy[w])'
  BY <1>1, StepsAssumption DEF LogTrue, EmptyLog
<1>3. OthersRest(w)
  BY DEF TypeOK, Rest, GoTo, OthersRest
<1>4. QED
  BY <1>1, <1>2, <1>3 DEF PassTrue

LEMMA Still ==
  effects' = effects /\ omitted' = omitted =>
    EffectsGrow /\ (NothingBehindAHold => NothingBehindAHold')
BY DEF EffectsGrow, NothingBehindAHold, Cleared

\* A run is started at its first step, and resumed behind what is reached; a
\* retry leaves out only messages that went out.
LEMMA TakeOrder ==
  ASSUME TypeOK, InOrder, NEW w \in Workers,
         Trigger(w) \/ ClaimDue(w) \/ ReadForRetry(w) \/ Reopen(w)
  PROVE  InOrder'
<1> USE DEF runVars, stepVars, taskVars
<1>0. effects' = effects /\ omitted' = omitted /\ log' = log /\ at' = at
  BY DEF Trigger, ClaimDue, ReadForRetry, Reopen
<1>1. EffectsGrow /\ NothingBehindAHold' /\ RunTrue'
  <2>1. status' = "waiting" => status = "waiting"
    BY DEF Trigger, ClaimDue, ReadForRetry, Reopen
  <2>2. QED
    BY <1>0, <2>1, Still, RunKept DEF InOrder
<1>2. PassTrue(w) /\ RunTrue /\ 1 \in 0 .. Last + 2
  BY StepsAssumption DEF InOrder
<1>3. \A s \in Sends : s \in Steps /\ ~(s < 1)
  BY StepsAssumption DEF Steps
<1>4. CASE Trigger(w)
  <2>1. Proceed(w, 1) /\ copy' = copy /\ skip' = skip
    BY <1>4 DEF Trigger
  <2>2. OthersRest(w)
    BY <2>1, <1>2, ProceedGoes DEF OthersRest
  <2>3. pc'[w] \in {"enter", "step", "do", "send", "settle"} => Reached(step[w])'
    BY <2>1, <1>0, <1>1, <1>2, <1>3, ProceedOrder DEF PassTrue
  <2>4. PassTrue(w)'
    BY <2>1, <2>3, <1>0, <1>2 DEF PassTrue, LogTrue
  <2>5. QED
    BY <2>2, <2>4, <1>1, OrderKept
<1>5. CASE ClaimDue(w)
  <2>1. /\ step'[w] = at + 1 /\ status = "waiting" /\ copy' = copy /\ skip' = skip
        /\ OthersRest(w)
    BY <1>5 DEF TypeOK, ClaimDue, GoTo, OthersRest
  <2>2. PassTrue(w)'
    BY <2>1, <1>0, <1>2 DEF PassTrue, RunTrue, Reached, Cleared, LogTrue
  <2>3. QED
    BY <2>1, <2>2, <1>1, OrderKept
<1>6. CASE ReadForRetry(w)
  <2>1. /\ pc'[w] = "reopen" /\ copy' = copy
        /\ skip'[w] = {s \in Steps : log.entry[s] \in {"completed", "scheduled"}}
        /\ OthersRest(w)
    BY <1>6 DEF TypeOK, ReadForRetry, GoTo, OthersRest
  <2>2. \A s \in Sends \cap skip'[w] : effects'[s] > 0
    BY <2>1, <1>0, <1>2 DEF RunTrue, LogTrue
  <2>3. PassTrue(w)'
    BY <2>1, <2>2, <1>0, <1>2 DEF PassTrue, LogTrue
  <2>4. QED
    BY <2>1, <2>3, <1>1, OrderKept
<1>7. CASE Reopen(w)
  <2>1. CASE Rest(w)
    BY <2>1, <1>1, RestOrder, OrderKept
  <2>2. CASE /\ GoTo(w, "enter") /\ step' = [step EXCEPT ![w] = 1]
             /\ UNCHANGED <<copy, skip, answer>>
    <3>1. step'[w] = 1 /\ OthersRest(w)
      BY <2>2, StepsAssumption DEF TypeOK, GoTo, OthersRest
    <3>2. PassTrue(w)'
      BY <2>2, <3>1, <1>0, <1>2, <1>3 DEF PassTrue, Reached, Cleared, LogTrue
    <3>3. QED
      BY <3>1, <3>2, <1>1, OrderKept
  <2>3. QED
    BY <1>7, <2>1, <2>2 DEF Reopen
<1>8. QED
  BY <1>4, <1>5, <1>6, <1>7

\* Before the first step.
LEMMA EnterOrder ==
  ASSUME TypeOK, InOrder, NEW w \in Workers, Enter(w) \/ Block(w) \/ NextStep(w)
  PROVE  InOrder'
<1> USE DEF stepVars, taskVars
<1>0. effects' = effects /\ omitted' = omitted /\ at' = at /\ (status' = "waiting" => status = "waiting")
  BY DEF Enter, Block, NextStep
<1>1. EffectsGrow /\ NothingBehindAHold' /\ PassTrue(w) /\ RunTrue
  BY <1>0, Still DEF InOrder
<1>2. RunTrue'
  <2>1. log' = log \/ log' = copy[w]
    BY DEF Enter, Block, NextStep
  <2>2. LogTrue(log)'
    BY <2>1, <1>0, <1>1 DEF PassTrue, RunTrue, LogTrue
  <2>3. QED
    BY <2>2, <1>0, <1>1 DEF RunTrue, Reached, Cleared
<1>3. CASE Leave(w)
  BY <1>1, <1>2, <1>3, RestOrder, OrderKept DEF Leave
<1>4. ASSUME NEW m \in SUBSET Marks,
             copy' = [copy EXCEPT ![w] = [log EXCEPT !.marks = @ \cup m]],
             GoTo(w, "block"), UNCHANGED <<step, skip>>
      PROVE  InOrder'
  <2>1. pc'[w] = "block" /\ copy'[w].entry = log.entry /\ OthersRest(w)
    BY <1>4 DEF TypeOK, GoTo, OthersRest, Logs
  <2>2. PassTrue(w)'
    BY <2>1, <1>0, <1>1, <1>4 DEF PassTrue, RunTrue, LogTrue
  <2>3. QED
    BY <2>1, <2>2, <1>1, <1>2, OrderKept
<1>5. CASE /\ pc[w] = "enter" /\ copy' = [copy EXCEPT ![w] = log]
           /\ Proceed(w, step[w]) /\ UNCHANGED skip
  <2>1. step[w] \in 0 .. Last + 2
    BY StepsAssumption DEF TypeOK
  <2>2. pc'[w] \in {"enter", "step", "do", "send", "settle"} => Reached(step[w])'
    BY <2>1, <1>0, <1>1, <1>5, ProceedOrder DEF PassTrue, Reached, Cleared
  <2>3. copy'[w] = log /\ OthersRest(w)
    BY <2>1, <1>5, ProceedGoes DEF TypeOK, OthersRest
  <2>4. PassTrue(w)'
    BY <2>2, <2>3, <1>0, <1>1, <1>5 DEF PassTrue, RunTrue, LogTrue
  <2>5. QED
    BY <2>3, <2>4, <1>1, <1>2, OrderKept
<1>6. CASE /\ copy' = [copy EXCEPT ![w].entry[step[w]] = "blocked"]
           /\ GoTo(w, "finish") /\ step' = [step EXCEPT ![w] = 0] /\ UNCHANGED skip
  <2>1. pc'[w] = "finish" /\ OthersRest(w)
    BY <1>6 DEF TypeOK, GoTo, OthersRest
  <2>2. \A s \in Steps : copy'[w].entry[s] \in {copy[w].entry[s], "blocked"}
    <3>1. copy[w].entry \in [Steps -> Entries]
          /\ copy'[w].entry = [copy[w].entry EXCEPT ![step[w]] = "blocked"]
      BY <1>6 DEF TypeOK, Logs
    <3>2. QED
      BY <3>1
  <2>3. PassTrue(w)'
    BY <2>1, <2>2, <1>0, <1>1, <1>6, StepsAssumption DEF PassTrue, LogTrue
  <2>4. QED
    BY <2>1, <2>3, <1>1, <1>2, OrderKept
<1>7. CASE pc[w] = "step" /\ GoTo(w, "do") /\ UNCHANGED taskVars
  <2>1. OthersRest(w)
    BY <1>7 DEF TypeOK, GoTo, OthersRest
  <2>2. PassTrue(w)'
    BY <1>0, <1>1, <1>7 DEF PassTrue, Reached, Cleared, LogTrue
  <2>3. QED
    BY <2>1, <2>2, <1>1, <1>2, OrderKept
<1>8. CASE Enter(w)
  <2>1. ASSUME NEW mark \in Marks,
               copy' = [copy EXCEPT ![w] = [log EXCEPT !.marks = @ \cup {mark}]],
               GoTo(w, "block"), UNCHANGED <<step, skip>>
        PROVE  InOrder'
    BY <1>4, <2>1
  <2>2. QED
    BY <1>3, <1>5, <1>8, <2>1 DEF Enter, Marks
<1>9. CASE Block(w) \/ NextStep(w)
  BY <1>3, <1>6, <1>7, <1>9 DEF Block, NextStep
<1>10. QED
  BY <1>8, <1>9

\* A send: what the receipt or the answer calls accepted went out.
LEMMA SendOrder ==
  ASSUME TypeOK, Once, InOrder, NEW w \in Workers,
         ClaimReceipt(w) \/ ProviderCall(w) \/ Settle(w)
  PROVE  InOrder'
<1> USE DEF runVars, stepVars, taskVars
<1>0. /\ PassTrue(w) /\ log' = log /\ at' = at /\ status' = status
      /\ Reached(step[w])
  <2>1. PassTrue(w) /\ log' = log /\ at' = at /\ status' = status
    BY DEF InOrder, ClaimReceipt, ProviderCall, Settle
  <2>2. QED
    BY <2>1 DEF PassTrue, ClaimReceipt, ProviderCall, Settle
<1>1. EffectsGrow => RunTrue'
  BY <1>0, RunKept
<1>2. CASE ClaimReceipt(w)
  <2>1. EffectsGrow /\ NothingBehindAHold' /\ effects' = effects /\ omitted' = omitted /\ step[w] \in Sends
    BY <1>2, Still DEF InOrder, ClaimReceipt
  <2>2. CASE GoTo(w, "send") /\ UNCHANGED taskVars
    <3>1. OthersRest(w)
      BY <2>2 DEF TypeOK, GoTo, OthersRest
    <3>2. PassTrue(w)'
      BY <2>1, <2>2, <1>0 DEF PassTrue, Reached, Cleared, LogTrue
    <3>3. QED
      BY <3>1, <3>2, <2>1, <1>1, OrderKept
  <2>3. CASE receipt[step[w]] = "accepted" /\ Record(w, "completed")
    <3>1. effects'[step[w]] > 0
      BY <2>1, <2>3 DEF Once, ReceiptsTrue
    <3>2. QED
      BY <3>1, <2>1, <2>3, <1>0, <1>1, RecordOrder, OrderKept
  <2>4. CASE Record(w, "unknown")
    BY <2>1, <2>4, <1>0, <1>1, RecordOrder, OrderKept
  <2>5. QED
    BY <1>2, <2>2, <2>3, <2>4 DEF ClaimReceipt
<1>3. CASE ProviderCall(w)
  <2>1. step[w] \in Steps
    BY <1>3, StepsAssumption DEF ProviderCall, Once, CallsOpen, InCall
  <2>2. EffectsGrow /\ NothingBehindAHold'
    BY <1>3, <1>0, <2>1, Still, EffectKept DEF InOrder, ProviderCall
  <2>3. OthersRest(w) /\ step' = step /\ copy' = copy /\ skip' = skip
    BY <1>3 DEF TypeOK, ProviderCall, GoTo, OthersRest
  <2>4. PassTrue(w)'
    <3>1. \A s \in Sends : (effects[s] > 0 => effects'[s] > 0) /\ (Cleared(s) => Cleared(s)')
      BY <2>2, StepsAssumption DEF EffectsGrow, Cleared
    <3>2. QED
      BY <3>1, <2>3, <1>0 DEF PassTrue, Reached, LogTrue
  <2>5. QED
    BY <2>2, <2>3, <2>4, <1>1, OrderKept
<1>4. CASE Settle(w)
  <2>1. EffectsGrow /\ NothingBehindAHold' /\ effects' = effects /\ omitted' = omitted
    BY <1>4, Still DEF InOrder, Settle
  <2>2. answer[w] = "accepted" => effects[step[w]] = 1
    BY <1>4 DEF Settle, Once, CallsOpen, InCall
  <2>3. CASE Record(w, EntryFor(answer[w]))
    <3>1. EntryFor(answer[w]) \in {"completed", "failed", "unknown"}
          /\ (EntryFor(answer[w]) = "completed" => answer[w] = "accepted")
      BY DEF EntryFor
    <3>2. EntryFor(answer[w]) = "completed" => effects'[step[w]] > 0
      BY <3>1, <2>1, <2>2
    <3> HIDE DEF EntryFor
    <3>3. QED
      BY <3>1, <3>2, <2>1, <2>3, <1>0, <1>1, RecordOrder, OrderKept
  <2>4. CASE Record(w, "unknown")
    BY <2>1, <2>4, <1>0, <1>1, RecordOrder, OrderKept
  <2>5. QED
    BY <1>4, <2>3, <2>4 DEF Settle
<1>5. QED
  BY <1>2, <1>3, <1>4

\* A step that is not a send, a step that throws, and the writes of the run.
LEMMA ApplyOrder ==
  ASSUME TypeOK, InOrder, NEW w \in Workers,
         \/ ApplyLocal(w) \/ ApplyPlain(w) \/ SkipStep(w) \/ SaveWait(w)
         \/ StepThrows(w) \/ Finish(w)
  PROVE  InOrder'
<1> USE DEF runVars, stepVars, taskVars
<1>0. PassTrue(w) /\ RunTrue /\ NothingBehindAHold
  BY DEF InOrder
<1>1. ASSUME Leave(w), effects' = effects /\ omitted' = omitted, UNCHANGED <<status, at, log>>
      PROVE  InOrder'
  BY <1>0, <1>1, Still, RunKept, RestOrder, OrderKept DEF Leave
<1>2. ASSUME pc[w] = "do", step[w] \notin Sends, Record(w, "completed"),
             UNCHANGED <<status, at, log>>,
             omitted' = omitted,
             \/ UNCHANGED effects
             \/ /\ step[w] \in Steps
                /\ TakeEffect(step[w]) \/ effects' = [effects EXCEPT ![step[w]] = 1]
      PROVE  InOrder'
  <2>1. Reached(step[w])
    BY <1>0, <1>2 DEF PassTrue
  <2>2. EffectsGrow /\ NothingBehindAHold'
    BY <1>0, <1>2, <2>1, Still, EffectKept
  <2>3. RunTrue'
    BY <1>2, <2>2, RunKept
  <2>4. QED
    BY <1>2, <2>1, <2>2, <2>3, RecordOrder, OrderKept
<1>3. CASE ApplyLocal(w) \/ ApplyPlain(w)
  <2>1. ApplyLocal(w) => step[w] \in Steps /\ step[w] \notin Sends
    BY StepsAssumption DEF ApplyLocal
  <2>2. CASE ApplyLocal(w)
    BY <1>1, <1>2, <2>1, <2>2 DEF ApplyLocal
  <2>3. CASE ApplyPlain(w)
    <3>1. /\ pc[w] = "do" /\ step[w] \in Steps /\ step[w] \notin Sends
          /\ Record(w, "completed") /\ UNCHANGED <<status, at, log>> /\ omitted' = omitted
      BY <2>3 DEF ApplyPlain
    <3>2. effects' = effects \/ effects' = [effects EXCEPT ![step[w]] = 1]
      BY <2>3 DEF ApplyPlain
    <3>3. QED
      BY <1>2, <3>1, <3>2
  <2>4. QED
    BY <1>3, <2>2, <2>3
<1>4. CASE SaveWait(w) /\ Rest(w)
  <2>1. pc[w] = "do" /\ step[w] \in Waits /\ effects' = effects /\ omitted' = omitted
    BY <1>4 DEF SaveWait
  <2>2. CASE /\ status' = "waiting" /\ at' = step[w]
             /\ log' = [copy[w] EXCEPT !.entry[step[w]] = "scheduled"]
    <3>1. \A s \in Sends : s \in Nat /\ s # step[w] /\ s \in Steps
      <4>1. \A s \in Sends : s \in Steps /\ s \notin Waits
        BY StepsAssumption
      <4>2. \A s \in Steps : s \in Nat
        BY DEF Steps
      <4>3. QED
        BY <2>1, <4>1, <4>2
    <3>2. \A s \in Sends : log'.entry[s] = copy[w].entry[s]
      <4>1. copy[w].entry \in [Steps -> Entries]
            /\ log'.entry = [copy[w].entry EXCEPT ![step[w]] = "scheduled"]
        BY <2>2 DEF TypeOK, Logs
      <4>2. QED
        BY <3>1, <4>1
    <3>3. LogTrue(log)'
      BY <1>0, <2>1, <3>2 DEF PassTrue, LogTrue
    <3>4. Reached(at + 1)'
      <4>1. step[w] \in Nat
        BY StepsAssumption DEF TypeOK
      <4>2. QED
        BY <1>0, <2>1, <2>2, <3>1, <4>1 DEF PassTrue, Reached, Cleared
    <3>5. RunTrue'
      BY <3>3, <3>4 DEF RunTrue
    <3>6. QED
      BY <1>0, <1>4, <2>1, <3>5, Still, RestOrder, OrderKept
  <2>3. CASE UNCHANGED <<status, at, log>>
    BY <1>0, <1>4, <2>1, <2>3, Still, RunKept, RestOrder, OrderKept
  <2>4. QED
    BY <1>4, <2>2, <2>3 DEF SaveWait
<1>5. CASE StepThrows(w)
  <2>1. /\ pc[w] = "do" /\ Record(w, "failed") /\ effects' = effects /\ omitted' = omitted
        /\ UNCHANGED <<status, at, log>>
    BY <1>5 DEF StepThrows
  <2>2. Reached(step[w]) /\ EffectsGrow /\ NothingBehindAHold' /\ RunTrue'
    BY <1>0, <2>1, Still, RunKept DEF PassTrue
  <2>3. QED
    BY <2>1, <2>2, RecordOrder, OrderKept
<1>6. CASE Finish(w) /\ Rest(w)
  <2>1. effects' = effects /\ omitted' = omitted
    BY <1>6 DEF Finish
  <2>2. CASE status' = Outcome(copy[w]) /\ log' = copy[w]
    <3>1. RunTrue'
      BY <1>0, <2>1, <2>2 DEF PassTrue, RunTrue, LogTrue, Outcome
    <3>2. QED
      BY <1>0, <1>6, <2>1, <3>1, Still, RestOrder, OrderKept
  <2>3. CASE UNCHANGED <<status, at, log>>
    BY <1>0, <1>6, <2>1, <2>3, Still, RunKept, RestOrder, OrderKept
  <2>4. QED
    BY <1>6, <2>2, <2>3 DEF Finish
<1>7. CASE SkipStep(w)
  <2>1. /\ pc[w] = "do" /\ Record(w, "skipped") /\ effects' = effects
        /\ UNCHANGED <<status, at, log>>
        /\ omitted' = omitted \cup (Sends \cap {step[w]})
    BY <1>7 DEF SkipStep
  <2>2. Reached(step[w]) /\ EffectsGrow
    BY <1>0, <2>1 DEF PassTrue, EffectsGrow
  <2>3. NothingBehindAHold' /\ RunTrue'
    BY <1>0, <2>1, <2>2, RunKept DEF NothingBehindAHold, Cleared
  <2>4. step[w] \in Sends => step[w] \in omitted'
    BY <2>1
  <2>5. QED
    BY <2>1, <2>2, <2>3, <2>4, RecordOrder, OrderKept
<1>8. QED
  BY <1>3, <1>4, <1>5, <1>6, <1>7 DEF SaveWait, Finish, Leave

\* Parking, changes of the workflow and faults write no entry and start no pass.
LEMMA FaultOrder ==
  ASSUME TypeOK, InOrder,
         \/ ParkInterrupted \/ EditWorkflow \/ ChangeSubjects \/ Lapse
         \/ \E w \in Workers : Throw(w) \/ Crash(w)
  PROVE  InOrder'
<1> USE DEF runVars, stepVars, taskVars
<1>1. effects' = effects /\ omitted' = omitted
  BY DEF ParkInterrupted, EditWorkflow, ChangeSubjects, Lapse, Throw, Crash
<1>2. EffectsGrow /\ NothingBehindAHold'
  BY <1>1, Still DEF InOrder
<1>3. CASE ParkInterrupted \/ EditWorkflow \/ ChangeSubjects \/ Lapse
  <2>1. UNCHANGED <<pc, step, copy, skip>>
    BY <1>3 DEF ParkInterrupted, EditWorkflow, ChangeSubjects, Lapse
  <2>2. \A w \in Workers : PassTrue(w)'
    BY <1>1, <2>1 DEF InOrder, PassTrue, Reached, Cleared, LogTrue
  <2>3. log'.entry = log.entry /\ at' = at /\ (status' = "waiting" => status = "waiting")
    BY <1>3 DEF TypeOK, Logs, ParkInterrupted, EditWorkflow, ChangeSubjects, Lapse
  <2>4. RunTrue'
    BY <1>1, <2>3 DEF InOrder, RunTrue, Reached, Cleared, LogTrue
  <2>5. QED
    BY <1>2, <2>2, <2>4 DEF InOrder
<1>4. ASSUME NEW w \in Workers, Throw(w) \/ Crash(w)
      PROVE  InOrder'
  <2>1. Rest(w) /\ UNCHANGED <<status, at, log>>
    BY <1>4 DEF Throw, Crash, Leave
  <2>2. QED
    BY <1>2, <2>1, RunKept, RestOrder, OrderKept
<1>5. QED
  BY <1>3, <1>4

LEMMA InitOrder == Init => InOrder
BY StepsAssumption
   DEF Init, InOrder, NothingBehindAHold, RunTrue, PassTrue, LogTrue, EmptyLog

LEMMA NextOrder == TypeOK /\ Once /\ InOrder /\ [Next]_vars => InOrder'
<1> SUFFICES ASSUME TypeOK, Once, InOrder, [Next]_vars PROVE InOrder'
  OBVIOUS
<1>1. CASE UNCHANGED vars
  BY <1>1 DEF InOrder, NothingBehindAHold, RunTrue, PassTrue, Reached, Cleared, LogTrue,
              vars, runVars, stepVars, taskVars
<1>2. CASE Next
  BY <1>2, TakeOrder, EnterOrder, SendOrder, ApplyOrder, FaultOrder DEF Next, WorkerStep
<1>3. QED
  BY <1>1, <1>2

\* No step takes effect behind a message that neither went out nor was skipped:
\* not in the pass that held the run, nor in one that resumed or retried it.
THEOREM RunsHold == Spec => []NothingBehindAHold
<1>1. Init => TypeOK /\ Once /\ InOrder
  BY InitTyped, InitOnce, InitOrder
<1>2. TypeOK /\ Once /\ InOrder /\ [Next]_vars => (TypeOK /\ Once /\ InOrder)'
  BY NextTyped, NextOnce, NextOrder
<1>3. InOrder => NothingBehindAHold
  BY DEF InOrder
<1>4. QED
  BY <1>1, <1>2, <1>3, PTL DEF Spec

-----------------------------------------------------------------------------
(* A completed run is done *)

\* What a completed run has done: its messages and its local records.
Due == Sends \cup Locals

Undone == {"failed", "unknown", "blocked"}
Told   == Undone \cup {"skipped"}

LEMMA DueSteps == Due \subseteq Steps
BY StepsAssumption DEF Due

\* Every step before n has taken effect, or the log says that it has not.
Passed(l, n) ==
  \A s \in Due : s < n => effects[s] > 0 \/ l.entry[s] \in Told

\* A log calls a step done only if it took effect.
DoneTrue(l) ==
  \A s \in Due : l.entry[s] \in {"completed", "scheduled"} => effects[s] > 0

\* What an executor knows of the steps behind it.  One that has lost the lease
\* may go by a log that is out of date, but writes no outcome.
PassDone(w) ==
  /\ DoneTrue(copy[w])
  /\ \A s \in Due : s \in skip[w] => effects[s] > 0
  /\ pc[w] = "enter" /\ Holds(w) /\ status \notin TERMINAL => Passed(log, step[w])
  /\ pc[w] \in {"step", "do", "send", "settle"} /\ Holds(w) => Passed(copy[w], step[w])
  /\ pc[w] = "finish" /\ Holds(w) =>
       (Passed(copy[w], Last + 1) \/ Outcome(copy[w]) # "completed")

RunDone ==
  /\ DoneTrue(log) /\ (status = "waiting" => Passed(log, at + 1))
  /\ CompletedIsDelivered

\* The receipt of a local record is written together with it.
LocalsDone == \A s \in Locals : receipt[s] = "accepted" => effects[s] > 0

AllDone == RunDone /\ LocalsDone /\ \A w \in Workers : PassDone(w)

\* Nobody but w takes the lease, and a run that has not ended is not rewritten
\* under its holder.
Undisturbed(w) ==
  \A v \in Workers \ {w} :
    Holds(v)' => /\ Holds(v)
                 /\ status' \notin TERMINAL => status \notin TERMINAL /\ log' = log

\* What is done stays done, for the run and for the other executors.
LEMMA DoneKept ==
  ASSUME AllDone, EffectsGrow, NEW w \in Workers, OthersRest(w), Undisturbed(w),
         PassDone(w)', RunDone', LocalsDone'
  PROVE  AllDone'
<1> SUFFICES ASSUME NEW v \in Workers \ {w} PROVE PassDone(v)'
  BY DEF AllDone
<1>1. /\ PassDone(v) /\ pc'[v] = pc[v] /\ step'[v] = step[v]
      /\ copy'[v] = copy[v] /\ skip'[v] = skip[v]
  BY DEF AllDone, OthersRest
<1>2. Holds(v)' => /\ Holds(v)
                   /\ status' \notin TERMINAL => status \notin TERMINAL /\ log' = log
  BY DEF Undisturbed
<1>3. \A s \in Due : effects[s] > 0 => effects'[s] > 0
  BY DueSteps DEF EffectsGrow
<1> HIDE DEF Holds, Outcome
<1>4. DoneTrue(copy[v])' /\ \A s \in Due : s \in skip'[v] => effects'[s] > 0
  BY <1>1, <1>3 DEF PassDone, DoneTrue
<1>5. pc'[v] = "enter" /\ Holds(v)' /\ status' \notin TERMINAL => Passed(log, step[v])'
  BY <1>1, <1>2, <1>3 DEF PassDone, Passed
<1>6. pc'[v] \in {"step", "do", "send", "settle"} /\ Holds(v)' => Passed(copy[v], step[v])'
  BY <1>1, <1>2, <1>3 DEF PassDone, Passed
<1>7. pc'[v] = "finish" /\ Holds(v)' =>
        (Passed(copy[v], Last + 1)' \/ Outcome(copy[v])' # "completed")
  BY <1>1, <1>2, <1>3 DEF PassDone, Passed, Outcome
<1>8. QED
  BY <1>4, <1>5, <1>6, <1>7 DEF PassDone

LEMMA RunDoneKept ==
  ASSUME AllDone, EffectsGrow, log'.entry = log.entry, at' = at,
         status' = "waiting" => status = "waiting",
         status' = "completed" => status = "completed"
  PROVE  RunDone'
<1>1. \A s \in Due : effects[s] > 0 => effects'[s] > 0
  BY DueSteps DEF EffectsGrow
<1>2. QED
  BY <1>1 DEF AllDone, RunDone, DoneTrue, Passed, CompletedIsDelivered, Due

LEMMA LocalsKept ==
  ASSUME AllDone, EffectsGrow, \A s \in Locals : receipt'[s] = receipt[s]
  PROVE  LocalsDone'
BY StepsAssumption DEF AllDone, LocalsDone, EffectsGrow

\* The lease goes to w or to nobody; the run changes with it or ends.
LEMMA Calm ==
  ASSUME NEW w \in Workers, KeepLease \/ LetGo \/ Take(w),
         \/ UNCHANGED <<status, log>> \/ status' \in TERMINAL \/ LetGo \/ Take(w)
  PROVE  Undisturbed(w)
BY DEF Undisturbed, Holds, KeepLease, LetGo, Take

\* The executor goes on with what it passed, or to the end with everything.
LEMMA ProceedDone ==
  ASSUME TypeOK, NEW w \in Workers, NEW n \in 0 .. Last + 2, Proceed(w, n), NEW l,
         \A s \in Due : s < n => effects'[s] > 0 \/ l.entry[s] \in Told,
         \A s \in Due : s \in skip[w] => effects'[s] > 0
  PROVE  \/ /\ pc'[w] = "step"
            /\ \A s \in Due : s < step'[w] =>
                 effects'[s] > 0 \/ l.entry[s] \in Told
         \/ /\ pc'[w] = "finish"
            /\ \A s \in Due : effects'[s] > 0 \/ l.entry[s] \in Told
<1>1. \/ /\ pc'[w] = "step" /\ step'[w] \in n .. Last
         /\ \A t \in n .. Last : t < step'[w] => t \in skip[w]
      \/ pc'[w] = "finish" /\ \A t \in n .. Last : t \in skip[w]
  BY ProceedGoes
<1>2. Last \in Nat /\ n \in Nat /\ \A s \in Steps : s \in Nat /\ s <= Last
  BY StepsAssumption DEF Steps
<1>3. \A s \in Steps : ~(s < n) => s \in n .. Last
  BY <1>2
<1>4. \A s \in Due : s \in Steps
  BY DueSteps
<1>5. QED
  BY <1>1, <1>3, <1>4

\* A log with a step that was not done has no outcome "completed".
LEMMA OutcomeFails ==
  ASSUME NEW l, NEW s \in Steps, l.entry[s] \in Undone
  PROVE  Outcome(l) # "completed"
BY DEF Outcome, Undone

\* A step that is recorded as done has taken effect.
LEMMA RecordDone ==
  ASSUME TypeOK, AllDone, EffectsGrow, NEW w \in Workers,
         NEW e \in {"completed", "skipped", "failed", "unknown"}, Record(w, e),
         pc[w] \in {"do", "settle"}, KeepLease,
         step[w] \in Due /\ e = "completed" => effects'[step[w]] > 0
  PROVE  PassDone(w)' /\ OthersRest(w)
<1> DEFINE n == step[w]
<1>0. e \in Entries /\ Last \in Nat /\ n \in 0 .. Last + 1 /\ n + 1 \in 0 .. Last + 2
  BY StepsAssumption DEF TypeOK, Entries
<1>1. copy' = [copy EXCEPT ![w].entry[n] = e] /\ skip' = skip /\ PassDone(w)
  BY DEF Record, AllDone
<1>2. \A s \in Due : s \in Nat /\ (effects[s] > 0 => effects'[s] > 0)
  BY DueSteps DEF EffectsGrow, Steps
<1>3. \A s \in Steps : copy'[w].entry[s] = IF s = n THEN e ELSE copy[w].entry[s]
  <2>1. copy[w].entry \in [Steps -> Entries] /\ copy'[w].entry = [copy[w].entry EXCEPT ![n] = e]
    BY <1>1 DEF TypeOK, Logs
  <2>2. QED
    BY <2>1
<1>4. DoneTrue(copy[w])'
  BY <1>1, <1>2, <1>3 DEF PassDone, DoneTrue
<1>5. \A s \in Due : s \in skip[w] => effects'[s] > 0
  BY <1>1, <1>2 DEF PassDone
<1>6. ASSUME Holds(w)
      PROVE  \A s \in Due :
               s < n + 1 => effects'[s] > 0 \/ copy'[w].entry[s] \in Told
  <2> SUFFICES ASSUME NEW s \in Due, s < n + 1
               PROVE  effects'[s] > 0 \/ copy'[w].entry[s] \in Told
    OBVIOUS
  <2>1. CASE s < n
    <3>1. effects[s] > 0 \/ copy[w].entry[s] \in Told
      BY <1>1, <1>6, <2>1 DEF PassDone, Passed
    <3>2. s # n
      BY <1>0, <1>2, <2>1
    <3>3. QED
      BY <1>2, <1>3, <3>1, <3>2, DueSteps
  <2>2. CASE s = n
    BY <1>3, <2>2, DueSteps DEF Undone, Told
  <2>3. QED
    BY <1>0, <1>2, <2>1, <2>2
<1>7. (lease' = lease /\ live' = live) /\ (Holds(w)' <=> Holds(w))
  BY DEF KeepLease, Holds
<1>8. ASSUME Halts(n, e) /\ GoTo(w, "finish") PROVE PassDone(w)'
  <2>1. pc'[w] = "finish"
    BY <1>8 DEF TypeOK, GoTo
  <2>2. n \in Steps /\ copy'[w].entry[n] \in Undone
    BY <1>3, <1>8, StepsAssumption DEF Halts, NOT_DELIVERED, Undone
  <2>3. Outcome(copy'[w]) # "completed"
    BY <2>2, OutcomeFails
  <2>4. Outcome(copy[w])' # "completed"
    BY <2>3 DEF Outcome
  <2>5. QED
    BY <1>1, <1>4, <1>5, <2>1, <2>4 DEF PassDone
<1>9. ASSUME Proceed(w, n + 1) PROVE PassDone(w)'
  <2>1. ASSUME Holds(w)
        PROVE  \/ pc'[w] = "step" /\ Passed(copy[w], step[w])'
               \/ pc'[w] = "finish" /\ Passed(copy[w], Last + 1)'
    BY <1>0, <1>5, <1>6, <1>9, <2>1, ProceedDone DEF Passed
  <2>2. pc'[w] \in {"step", "finish"}
    BY <1>0, <1>9, ProceedGoes
  <2> HIDE DEF Passed, Holds, Outcome
  <2>3. QED
    BY <1>1, <1>4, <1>5, <1>7, <2>1, <2>2 DEF PassDone
<1>10. PassDone(w)'
  BY <1>8, <1>9 DEF Record
<1>11. OthersRest(w)
  BY <1>0, <1>1, RecordMoves DEF TypeOK, OthersRest
<1>12. QED
  BY <1>10, <1>11

LEMMA RestDone ==
  ASSUME TypeOK, NEW w \in Workers, Rest(w)
  PROVE  PassDone(w)' /\ OthersRest(w)
<1>1. pc'[w] = "idle" /\ copy'[w] = EmptyLog /\ skip'[w] = {}
  BY DEF TypeOK, Rest, GoTo
<1>2. DoneTrue(copy[w])'
  BY <1>1, DueSteps DEF DoneTrue, EmptyLog
<1>3. OthersRest(w)
  BY DEF TypeOK, Rest, GoTo, OthersRest
<1>4. QED
  BY <1>1, <1>2, <1>3 DEF PassDone

\* An executor that gives up leaves the run as it was.
LEMMA LeaveDone ==
  ASSUME TypeOK, AllDone, NEW w \in Workers, Rest(w), KeepLease \/ LetGo,
         UNCHANGED <<status, at, log, receipt, effects, omitted>>
  PROVE  AllDone'
<1>1. EffectsGrow
  BY DEF EffectsGrow
<1>2. PassDone(w)' /\ OthersRest(w)
  BY RestDone
<1>3. Undisturbed(w)
  BY Calm
<1>4. RunDone' /\ LocalsDone'
  BY <1>1, RunDoneKept, LocalsKept
<1>5. QED
  BY <1>1, <1>2, <1>3, <1>4, DoneKept

\* A run begins with nothing behind it, is resumed behind what its log covers,
\* and a retry leaves out what took effect.
LEMMA TakeDone ==
  ASSUME TypeOK, AllDone, NEW w \in Workers,
         Trigger(w) \/ ClaimDue(w) \/ ReadForRetry(w) \/ Reopen(w)
  PROVE  AllDone'
<1> USE DEF runVars, stepVars, taskVars
<1>0. UNCHANGED <<effects, omitted, receipt>> /\ log' = log /\ at' = at
  BY DEF Trigger, ClaimDue, ReadForRetry, Reopen
<1>1. EffectsGrow
  BY <1>0 DEF EffectsGrow
<1>2. RunDone' /\ LocalsDone'
  <2>1. (status' = "waiting" => status = "waiting") /\ (status' = "completed" => status = "completed")
    BY DEF Trigger, ClaimDue, ReadForRetry, Reopen
  <2>2. QED
    BY <1>0, <1>1, <2>1, RunDoneKept, LocalsKept
<1>3. PassDone(w) /\ RunDone /\ 1 \in 0 .. Last + 2
  BY StepsAssumption DEF AllDone
<1>4. \A s \in Due : ~(s < 1)
  BY DueSteps DEF Steps
<1>5. DoneTrue(copy[w])' \/ copy'[w] # copy[w]
  BY <1>0, <1>3 DEF PassDone, DoneTrue
<1>6. CASE Trigger(w)
  <2>1. Proceed(w, 1) /\ copy' = copy /\ skip' = skip /\ Take(w)
    BY <1>6 DEF Trigger
  <2>2. OthersRest(w)
    BY <2>1, <1>3, ProceedGoes DEF OthersRest
  <2>3. \/ pc'[w] = "step" /\ Passed(copy[w], step[w])'
        \/ pc'[w] = "finish" /\ Passed(copy[w], Last + 1)'
    BY <1>0, <1>3, <1>4, <2>1, ProceedDone DEF PassDone, Passed
  <2>4. PassDone(w)'
    BY <1>0, <1>3, <1>5, <2>1, <2>3 DEF PassDone
  <2>5. QED
    BY <1>1, <1>2, <2>1, <2>2, <2>4, Calm, DoneKept
<1>7. CASE ClaimDue(w)
  <2>1. /\ step'[w] = at + 1 /\ status = "waiting" /\ copy' = copy /\ skip' = skip
        /\ pc'[w] = "enter" /\ OthersRest(w) /\ Take(w)
    BY <1>7 DEF TypeOK, ClaimDue, GoTo, OthersRest
  <2>2. Passed(log, step[w])'
    BY <1>0, <1>3, <2>1 DEF RunDone, Passed
  <2>3. PassDone(w)'
    BY <1>0, <1>3, <1>5, <2>1, <2>2 DEF PassDone
  <2>4. QED
    BY <1>1, <1>2, <2>1, <2>3, Calm, DoneKept
<1>8. CASE ReadForRetry(w)
  <2>1. /\ pc'[w] = "reopen" /\ copy' = copy
        /\ skip'[w] = {s \in Steps : log.entry[s] \in {"completed", "scheduled"}}
        /\ OthersRest(w) /\ KeepLease /\ UNCHANGED <<status, log>>
    BY <1>8 DEF TypeOK, ReadForRetry, GoTo, OthersRest, KeepLease
  <2>2. \A s \in Due : s \in skip'[w] => effects'[s] > 0
    BY <1>0, <1>3, <2>1 DEF RunDone, DoneTrue
  <2>3. PassDone(w)'
    BY <1>0, <1>3, <1>5, <2>1, <2>2 DEF PassDone
  <2>4. QED
    BY <1>1, <1>2, <2>1, <2>3, Calm, DoneKept
<1>9. CASE Reopen(w)
  <2>1. CASE Rest(w) /\ UNCHANGED <<status, lease, live>>
    BY <1>0, <2>1, LeaveDone DEF KeepLease
  <2>2. CASE /\ GoTo(w, "enter") /\ step' = [step EXCEPT ![w] = 1] /\ Take(w)
             /\ UNCHANGED <<copy, skip, answer>>
    <3>1. step'[w] = 1 /\ pc'[w] = "enter" /\ OthersRest(w)
      BY <2>2, StepsAssumption DEF TypeOK, GoTo, OthersRest
    <3>2. Passed(log, step[w])'
      BY <1>4, <3>1 DEF Passed
    <3>3. PassDone(w)'
      BY <1>0, <1>3, <1>5, <2>2, <3>1, <3>2 DEF PassDone
    <3>4. QED
      BY <1>1, <1>2, <2>2, <3>1, <3>3, Calm, DoneKept
  <2>3. QED
    BY <1>9, <2>1, <2>2 DEF Reopen
<1>10. QED
  BY <1>6, <1>7, <1>8, <1>9

\* Before the first step: the holder of a run that has not ended reads the log
\* that covers what is behind it.
LEMMA EnterDone ==
  ASSUME TypeOK, AllDone, NEW w \in Workers, Enter(w) \/ Block(w) \/ NextStep(w)
  PROVE  AllDone'
<1> USE DEF stepVars, taskVars
<1>0. UNCHANGED <<effects, omitted, receipt>> /\ at' = at
  BY DEF Enter, Block, NextStep
<1>1. EffectsGrow /\ PassDone(w) /\ RunDone
  BY <1>0 DEF EffectsGrow, AllDone
<1>2. LocalsDone'
  BY <1>0, <1>1, LocalsKept
<1>3. ASSUME UNCHANGED <<status, log>>, KeepLease, PassDone(w)', OthersRest(w)
      PROVE  AllDone'
  BY <1>0, <1>1, <1>2, <1>3, RunDoneKept, Calm, DoneKept
<1>4. CASE Leave(w) /\ UNCHANGED <<status, log>>
  BY <1>0, <1>4, LeaveDone DEF Leave
<1>5. CASE Block(w)
  <2>1. status' = "blocked" /\ log' = copy[w] /\ Rest(w) /\ (KeepLease \/ LetGo)
    BY <1>5 DEF Block, Leave
  <2>2. RunDone'
    BY <1>0, <1>1, <2>1 DEF PassDone, RunDone, DoneTrue, CompletedIsDelivered, Due
  <2>3. Undisturbed(w)
    BY <2>1, Calm DEF TERMINAL
  <2>4. QED
    BY <1>1, <1>2, <2>1, <2>2, <2>3, RestDone, DoneKept
<1>6. ASSUME NEW m \in SUBSET Marks,
             copy' = [copy EXCEPT ![w] = [log EXCEPT !.marks = @ \cup m]],
             GoTo(w, "block"), UNCHANGED <<step, skip, status, log>>, KeepLease
      PROVE  AllDone'
  <2>1. pc'[w] = "block" /\ copy'[w].entry = log.entry /\ OthersRest(w)
    BY <1>6 DEF TypeOK, GoTo, OthersRest, Logs
  <2>2. DoneTrue(copy[w])'
    BY <1>0, <1>1, <2>1 DEF RunDone, DoneTrue
  <2>3. PassDone(w)'
    BY <1>0, <1>1, <1>6, <2>1, <2>2 DEF PassDone
  <2>4. QED
    BY <1>3, <1>6, <2>1, <2>3
<1>7. CASE /\ pc[w] = "enter" /\ status \notin TERMINAL /\ copy' = [copy EXCEPT ![w] = log]
           /\ Proceed(w, step[w]) /\ UNCHANGED <<skip, status, log>> /\ KeepLease
  <2>1. step[w] \in 0 .. Last + 2
    BY StepsAssumption DEF TypeOK
  <2>2. copy'[w] = log /\ OthersRest(w)
    BY <2>1, <1>7, ProceedGoes DEF TypeOK, OthersRest
  <2>3. Holds(w)' <=> Holds(w)
    BY <1>7 DEF KeepLease, Holds
  <2>4. ASSUME Holds(w)
        PROVE  \/ pc'[w] = "step" /\ Passed(copy[w], step[w])'
               \/ pc'[w] = "finish" /\ Passed(copy[w], Last + 1)'
    <3>1. Passed(log, step[w])
      BY <1>1, <1>7, <2>4 DEF PassDone
    <3>2. \/ /\ pc'[w] = "step"
             /\ \A s \in Due : s < step'[w] =>
                  effects'[s] > 0 \/ log.entry[s] \in Told
          \/ /\ pc'[w] = "finish"
             /\ \A s \in Due : effects'[s] > 0 \/ log.entry[s] \in Told
      BY <1>0, <1>1, <1>7, <2>1, <3>1, ProceedDone DEF PassDone, Passed
    <3>3. QED
      BY <2>2, <3>2 DEF Passed
  <2>5. pc'[w] \in {"step", "finish"}
    BY <1>7, <2>1, ProceedGoes
  <2>6. DoneTrue(copy[w])'
    BY <1>0, <1>1, <2>2 DEF RunDone, DoneTrue
  <2> HIDE DEF Passed, Holds, Outcome
  <2>7. PassDone(w)'
    BY <1>0, <1>1, <1>7, <2>3, <2>4, <2>5, <2>6 DEF PassDone
  <2>8. QED
    BY <1>3, <1>7, <2>2, <2>7
<1>8. CASE /\ copy' = [copy EXCEPT ![w].entry[step[w]] = "blocked"] /\ step[w] \in Sends
           /\ GoTo(w, "finish") /\ step' = [step EXCEPT ![w] = 0]
           /\ UNCHANGED <<skip, status, log>> /\ KeepLease
  <2>1. pc'[w] = "finish" /\ OthersRest(w) /\ step[w] \in Steps
    BY <1>8, StepsAssumption DEF TypeOK, GoTo, OthersRest
  <2>2. \A s \in Steps : copy'[w].entry[s] = IF s = step[w] THEN "blocked" ELSE copy[w].entry[s]
    <3>1. copy[w].entry \in [Steps -> Entries]
          /\ copy'[w].entry = [copy[w].entry EXCEPT ![step[w]] = "blocked"]
      BY <1>8 DEF TypeOK, Logs
    <3>2. QED
      BY <3>1
  <2>3. DoneTrue(copy[w])'
    BY <1>0, <1>1, <2>2, DueSteps DEF PassDone, DoneTrue
  <2>4. Outcome(copy'[w]) # "completed"
    BY <2>1, <2>2, OutcomeFails DEF Undone
  <2>5. Outcome(copy[w])' # "completed"
    BY <2>4 DEF Outcome
  <2>6. PassDone(w)'
    BY <1>0, <1>1, <1>8, <2>1, <2>3, <2>5 DEF PassDone
  <2>7. QED
    BY <1>3, <1>8, <2>1, <2>6
<1>9. CASE /\ pc[w] = "step" /\ GoTo(w, "do") /\ UNCHANGED taskVars
           /\ UNCHANGED <<status, log>> /\ KeepLease
  <2>1. pc'[w] = "do" /\ OthersRest(w) /\ (Holds(w)' <=> Holds(w))
    BY <1>9 DEF TypeOK, GoTo, OthersRest, KeepLease, Holds
  <2>2. DoneTrue(copy[w])' /\ (Passed(copy[w], step[w]) => Passed(copy[w], step[w])')
    BY <1>0, <1>1, <1>9 DEF PassDone, DoneTrue, Passed
  <2> HIDE DEF Passed, Holds, Outcome
  <2>3. PassDone(w)'
    BY <1>0, <1>1, <1>9, <2>1, <2>2 DEF PassDone
  <2>4. QED
    BY <1>3, <1>9, <2>1, <2>3
<1>10. CASE Enter(w)
  <2>1. ASSUME NEW mark \in Marks,
               copy' = [copy EXCEPT ![w] = [log EXCEPT !.marks = @ \cup {mark}]],
               GoTo(w, "block"), UNCHANGED <<step, skip, status, log>>, KeepLease
        PROVE  AllDone'
    BY <1>6, <2>1
  <2>2. QED
    BY <1>4, <1>7, <1>10, <2>1 DEF Enter, Marks
<1>11. CASE NextStep(w)
  BY <1>4, <1>8, <1>9, <1>11 DEF NextStep
<1>12. QED
  BY <1>5, <1>10, <1>11

\* A send: what the receipt or the answer calls accepted took effect.
LEMMA SendDone ==
  ASSUME TypeOK, Once, AllDone, NEW w \in Workers,
         ClaimReceipt(w) \/ ProviderCall(w) \/ Settle(w)
  PROVE  AllDone'
<1> USE DEF runVars, stepVars, taskVars
<1>0. /\ UNCHANGED <<status, at, log>> /\ KeepLease /\ PassDone(w)
      /\ (Holds(w)' <=> Holds(w))
  BY DEF AllDone, ClaimReceipt, ProviderCall, Settle, KeepLease, Holds
<1>1. step[w] \in Sends
  BY DEF ClaimReceipt, ProviderCall, Settle, Once, CallsOpen, InCall
<1>2. step[w] \in Steps /\ \A s \in Locals : s \in Steps /\ s # step[w]
  BY <1>1, StepsAssumption
<1>3. \A s \in Locals : receipt'[s] = receipt[s]
  BY <1>2 DEF TypeOK, ClaimReceipt, ProviderCall, Settle, SetReceipt
<1>4. EffectsGrow
  BY <1>2 DEF TypeOK, EffectsGrow, ClaimReceipt, ProviderCall, Settle, TakeEffect
<1>5. RunDone' /\ LocalsDone' /\ Undisturbed(w)
  BY <1>0, <1>3, <1>4, RunDoneKept, LocalsKept, Calm
<1>6. ASSUME pc[w] \in {"do", "send"}, pc'[w] \in {"send", "settle"}, OthersRest(w),
             UNCHANGED <<step, copy, skip>>
      PROVE  AllDone'
  <2>1. \A s \in Due : effects[s] > 0 => effects'[s] > 0
    BY <1>4, DueSteps DEF EffectsGrow
  <2>2. /\ DoneTrue(copy[w])' /\ (Passed(copy[w], step[w]) => Passed(copy[w], step[w])')
        /\ \A s \in Due : s \in skip'[w] => effects'[s] > 0
    BY <1>0, <1>6, <2>1 DEF PassDone, DoneTrue, Passed
  <2> HIDE DEF Passed, Holds, Outcome
  <2>3. PassDone(w)'
    BY <1>0, <1>6, <2>2 DEF PassDone
  <2>4. QED
    BY <1>4, <1>5, <1>6, <2>3, DoneKept
<1>7. ASSUME NEW e \in {"completed", "failed", "unknown"}, Record(w, e),
             pc[w] \in {"do", "settle"}, e = "completed" => effects'[step[w]] > 0
      PROVE  AllDone'
  BY <1>0, <1>4, <1>5, <1>7, RecordDone, DoneKept
<1>8. CASE ClaimReceipt(w)
  <2>1. CASE GoTo(w, "send") /\ UNCHANGED taskVars
    <3>1. pc[w] = "do" /\ pc'[w] = "send" /\ OthersRest(w)
      BY <1>8, <2>1 DEF TypeOK, ClaimReceipt, GoTo, OthersRest
    <3>2. QED
      BY <1>6, <2>1, <3>1
  <2>2. CASE receipt[step[w]] = "accepted" /\ Record(w, "completed")
    <3>1. pc[w] = "do" /\ effects' = effects /\ effects[step[w]] = 1
      BY <1>1, <1>8, <2>2 DEF ClaimReceipt, Once, ReceiptsTrue
    <3>2. effects'[step[w]] > 0
      BY <3>1
    <3>3. QED
      BY <1>7, <2>2, <3>1, <3>2
  <2>3. CASE Record(w, "unknown")
    BY <1>7, <1>8, <2>3 DEF ClaimReceipt
  <2>4. QED
    BY <1>8, <2>1, <2>2, <2>3 DEF ClaimReceipt
<1>9. CASE ProviderCall(w)
  <2>1. /\ pc[w] = "send" /\ pc'[w] = "settle" /\ OthersRest(w)
        /\ UNCHANGED <<step, copy, skip>>
    BY <1>9 DEF TypeOK, ProviderCall, GoTo, OthersRest
  <2>2. QED
    BY <1>6, <2>1
<1>10. CASE Settle(w)
  <2>1. pc[w] = "settle" /\ effects' = effects
        /\ (answer[w] = "accepted" => effects[step[w]] = 1)
    BY <1>10 DEF Settle, Once, CallsOpen, InCall
  <2>2. CASE Record(w, EntryFor(answer[w]))
    <3>1. EntryFor(answer[w]) \in {"completed", "failed", "unknown"}
          /\ (EntryFor(answer[w]) = "completed" => answer[w] = "accepted")
      BY DEF EntryFor
    <3>2. EntryFor(answer[w]) = "completed" => effects'[step[w]] > 0
      BY <3>1, <2>1
    <3> HIDE DEF EntryFor
    <3>3. QED
      BY <1>7, <2>1, <2>2, <3>1, <3>2
  <2>3. CASE Record(w, "unknown")
    BY <1>7, <2>1, <2>3
  <2>4. QED
    BY <1>10, <2>2, <2>3 DEF Settle
<1>11. QED
  BY <1>8, <1>9, <1>10

\* A record or another step that is applied, or that throws.
LEMMA ApplyDone ==
  ASSUME TypeOK, AllDone, NEW w \in Workers,
         ApplyLocal(w) \/ ApplyPlain(w) \/ SkipStep(w) \/ StepThrows(w)
  PROVE  AllDone'
<1> USE DEF runVars, stepVars, taskVars
<1>1. CASE Leave(w) /\ UNCHANGED <<status, at, log, receipt, effects, omitted>>
  BY <1>1, LeaveDone DEF Leave
<1>2. ASSUME NEW e \in {"completed", "skipped", "failed"}, pc[w] = "do", Record(w, e),
             UNCHANGED <<status, at, log>>, KeepLease, EffectsGrow,
             step[w] \in Due /\ e = "completed" => effects'[step[w]] > 0,
             LocalsDone'
      PROVE  AllDone'
  BY <1>2, RunDoneKept, Calm, RecordDone, DoneKept
<1>3. ASSUME step[w] \in Steps, TakeEffect(step[w]), UNCHANGED omitted
      PROVE  EffectsGrow /\ effects'[step[w]] > 0
  BY <1>3 DEF TypeOK, TakeEffect, EffectsGrow
<1>4. CASE ApplyLocal(w)
  <2>1. pc[w] = "do" /\ step[w] \in Locals /\ step[w] \in Steps
        /\ UNCHANGED <<status, at, log>>
    BY <1>4, StepsAssumption DEF ApplyLocal
  <2>2. CASE Record(w, "completed") /\ KeepLease /\ UNCHANGED stepVars
             /\ receipt[step[w]] = "accepted"
    <3>1. effects'[step[w]] > 0 /\ EffectsGrow
      BY <2>1, <2>2 DEF AllDone, LocalsDone, EffectsGrow
    <3>2. LocalsDone'
      BY <2>2, <3>1, LocalsKept
    <3>3. QED
      BY <1>2, <2>1, <2>2, <3>1, <3>2
  <2>3. CASE /\ Record(w, "completed") /\ KeepLease /\ TakeEffect(step[w])
             /\ SetReceipt(step[w], "accepted") /\ UNCHANGED omitted
    <3>1. effects'[step[w]] > 0 /\ EffectsGrow
      BY <1>3, <2>1, <2>3
    <3>2. LocalsDone'
      BY <2>1, <2>3, <3>1, StepsAssumption
         DEF TypeOK, AllDone, LocalsDone, EffectsGrow, SetReceipt
    <3>3. QED
      BY <1>2, <2>1, <2>3, <3>1, <3>2
  <2>4. QED
    BY <1>1, <1>4, <2>2, <2>3 DEF ApplyLocal
<1>5. CASE ApplyPlain(w)
  <2>1. /\ pc[w] = "do" /\ step[w] \in Steps /\ step[w] \notin Due /\ receipt' = receipt
        /\ Record(w, "completed") /\ UNCHANGED <<status, at, log>> /\ KeepLease
    BY <1>5 DEF ApplyPlain, KeepLease, Due
  <2>2. EffectsGrow
    BY <1>5 DEF TypeOK, ApplyPlain, EffectsGrow
  <2>3. LocalsDone'
    BY <2>1, <2>2, LocalsKept
  <2>4. QED
    BY <1>2, <2>1, <2>2, <2>3
<1>6. ASSUME NEW e \in {"skipped", "failed"}, pc[w] = "do", Record(w, e),
             UNCHANGED <<status, at, log, receipt, effects>>, KeepLease,
             omitted \subseteq omitted'
      PROVE  AllDone'
  <2>1. EffectsGrow
    BY <1>6 DEF EffectsGrow
  <2>2. LocalsDone'
    BY <1>6, <2>1, LocalsKept
  <2>3. QED
    BY <1>2, <1>6, <2>1, <2>2
<1>7. CASE SkipStep(w)
  BY <1>6, <1>7 DEF SkipStep, KeepLease
<1>8. CASE StepThrows(w)
  BY <1>6, <1>8 DEF StepThrows, KeepLease
<1>9. QED
  BY <1>4, <1>5, <1>7, <1>8

\* The holder writes the run: it waits behind what it passed, or ends with the
\* outcome of its log.
LEMMA SaveDone ==
  ASSUME TypeOK, AllDone, NEW w \in Workers, SaveWait(w) \/ Finish(w)
  PROVE  AllDone'
<1> USE DEF stepVars
<1>0. PassDone(w) /\ UNCHANGED <<receipt, effects, omitted>>
  BY DEF AllDone, SaveWait, Finish
<1>1. EffectsGrow
  BY <1>0 DEF EffectsGrow
<1>2. LocalsDone'
  BY <1>0, <1>1, LocalsKept
<1>3. ASSUME Rest(w), LetGo, RunDone' PROVE AllDone'
  BY <1>1, <1>2, <1>3, Calm, RestDone, DoneKept
<1>4. CASE Leave(w) /\ UNCHANGED <<status, at, log>>
  BY <1>0, <1>4, LeaveDone DEF Leave
<1>5. CASE SaveWait(w) /\ Holds(w)
  <2>1. /\ pc[w] = "do" /\ step[w] \in Waits /\ LetGo /\ Rest(w)
        /\ status' = "waiting" /\ at' = step[w]
        /\ log' = [copy[w] EXCEPT !.entry[step[w]] = "scheduled"]
    BY <1>4, <1>5 DEF SaveWait
  <2>2. \A s \in Due : log'.entry[s] = copy[w].entry[s]
    <3>0. \A s \in Due : s \in Steps /\ s # step[w]
      BY <2>1, StepsAssumption DEF Due
    <3>1. copy[w].entry \in [Steps -> Entries]
          /\ log'.entry = [copy[w].entry EXCEPT ![step[w]] = "scheduled"]
      BY <2>1 DEF TypeOK, Logs
    <3>2. QED
      BY <3>0, <3>1
  <2>3. \A s \in Due :
          s < step[w] => effects[s] > 0 \/ copy[w].entry[s] \in Told
    BY <1>0, <1>5, <2>1 DEF PassDone, Passed
  <2>4. \A s \in Due : s < step[w] + 1 => s < step[w]
    <3>1. step[w] \in Nat /\ \A s \in Due : s \in Nat /\ s # step[w]
      BY <2>1, StepsAssumption DEF TypeOK, Steps, Due
    <3>2. QED
      BY <2>1, <3>1
  <2>5. Passed(log, at + 1)'
    BY <1>0, <2>1, <2>2, <2>3, <2>4 DEF Passed
  <2>6. DoneTrue(log)'
    BY <1>0, <2>2 DEF PassDone, DoneTrue
  <2>7. RunDone'
    BY <2>1, <2>5, <2>6 DEF RunDone, CompletedIsDelivered, Due
  <2>8. QED
    BY <1>3, <2>1, <2>7
<1>6. CASE Finish(w) /\ Holds(w)
  <2>1. /\ pc[w] = "finish" /\ LetGo /\ Rest(w)
        /\ status' = Outcome(copy[w]) /\ log' = copy[w]
    BY <1>4, <1>6 DEF Finish
  <2>2. DoneTrue(log)'
    BY <1>0, <2>1 DEF PassDone, DoneTrue
  <2>3. ASSUME Outcome(copy[w]) = "completed", NEW s \in Due
        PROVE  effects'[s] > 0 \/ log'.entry[s] = "skipped"
    <3>1. Passed(copy[w], Last + 1)
      BY <1>0, <1>6, <2>1, <2>3 DEF PassDone
    <3>2. s < Last + 1
      BY StepsAssumption, DueSteps DEF Steps
    <3>3. copy[w].entry[s] \notin Undone
      BY <2>3, DueSteps, OutcomeFails
    <3>4. QED
      BY <1>0, <2>1, <3>1, <3>2, <3>3 DEF Passed, Told
  <2>4. CompletedIsDelivered'
    BY <2>1, <2>3 DEF CompletedIsDelivered, Due
  <2>5. status' # "waiting"
    BY <2>1 DEF Outcome
  <2>6. RunDone'
    BY <2>2, <2>4, <2>5 DEF RunDone
  <2>7. QED
    BY <1>3, <2>1, <2>6
<1>7. QED
  BY <1>4, <1>5, <1>6 DEF SaveWait, Finish

\* Parking, changes of the workflow and faults complete nothing.
LEMMA FaultDone ==
  ASSUME TypeOK, AllDone,
         \/ ParkInterrupted \/ EditWorkflow \/ ChangeSubjects \/ Lapse
         \/ \E w \in Workers : Throw(w) \/ Crash(w)
  PROVE  AllDone'
<1> USE DEF runVars, stepVars, taskVars
<1>1. UNCHANGED <<receipt, effects, omitted>>
  BY DEF ParkInterrupted, EditWorkflow, ChangeSubjects, Lapse, Throw, Crash
<1>2. EffectsGrow
  BY <1>1 DEF EffectsGrow
<1>3. CASE ParkInterrupted \/ EditWorkflow \/ ChangeSubjects \/ Lapse
  <2>1. UNCHANGED <<pc, step, copy, skip>>
    BY <1>3 DEF ParkInterrupted, EditWorkflow, ChangeSubjects, Lapse
  <2>2. ASSUME NEW w \in Workers, Holds(w)' PROVE Holds(w) /\ status' = status /\ log' = log
    BY <1>3, <2>2 DEF ParkInterrupted, EditWorkflow, ChangeSubjects, Lapse, Holds, LetGo
  <2>3. ASSUME NEW w \in Workers PROVE PassDone(w)'
    <3>1. PassDone(w)
      BY DEF AllDone
    <3>2. DoneTrue(copy[w])' /\ \A s \in Due : s \in skip'[w] => effects'[s] > 0
      BY <1>1, <2>1, <3>1 DEF PassDone, DoneTrue
    <3>3. /\ Passed(copy[w], step[w]) => Passed(copy[w], step[w])'
          /\ Passed(copy[w], Last + 1) => Passed(copy[w], Last + 1)'
          /\ log' = log => (Passed(log, step[w]) => Passed(log, step[w])')
          /\ Outcome(copy[w])' = Outcome(copy[w])
      BY <1>1, <2>1 DEF Passed, Outcome
    <3> HIDE DEF Passed, Holds, Outcome
    <3>4. QED
      BY <2>1, <2>2, <3>1, <3>2, <3>3 DEF PassDone
  <2>4. /\ log'.entry = log.entry /\ at' = at /\ (status' = "waiting" => status = "waiting")
        /\ (status' = "completed" => status = "completed")
    BY <1>3 DEF TypeOK, Logs, ParkInterrupted, EditWorkflow, ChangeSubjects, Lapse
  <2>5. RunDone' /\ LocalsDone'
    BY <1>1, <1>2, <2>4, RunDoneKept, LocalsKept
  <2>6. QED
    BY <2>3, <2>5 DEF AllDone
<1>4. ASSUME NEW w \in Workers, Throw(w) \/ Crash(w)
      PROVE  AllDone'
  <2>1. Rest(w) /\ UNCHANGED <<status, at, log>> /\ (KeepLease \/ LetGo)
    BY <1>4 DEF Throw, Crash, Leave, KeepLease
  <2>2. QED
    BY <1>1, <2>1, LeaveDone
<1>5. QED
  BY <1>3, <1>4

LEMMA InitDone == Init => AllDone
<1> SUFFICES ASSUME Init PROVE AllDone
  OBVIOUS
<1>1. DoneTrue(EmptyLog)
  BY DueSteps DEF DoneTrue, EmptyLog
<1>2. RunDone
  BY <1>1 DEF Init, RunDone, CompletedIsDelivered, Due
<1>3. LocalsDone
  BY StepsAssumption DEF Init, LocalsDone
<1>4. ASSUME NEW w \in Workers PROVE PassDone(w)
  BY <1>1 DEF Init, PassDone
<1>5. QED
  BY <1>2, <1>3, <1>4 DEF AllDone

LEMMA NextDone == TypeOK /\ Once /\ AllDone /\ [Next]_vars => AllDone'
<1> SUFFICES ASSUME TypeOK, Once, AllDone, [Next]_vars PROVE AllDone'
  OBVIOUS
<1>1. CASE UNCHANGED vars
  BY <1>1 DEF AllDone, RunDone, LocalsDone, PassDone, Passed, DoneTrue, CompletedIsDelivered,
              Due, Holds, Outcome, vars, runVars, stepVars, taskVars
<1>2. CASE Next
  BY <1>2, TakeDone, EnterDone, SendDone, ApplyDone, SaveDone, FaultDone DEF Next, WorkerStep
<1>3. QED
  BY <1>1, <1>2

\* A run that is called completed sent its messages and wrote its local records,
\* but for those that its log calls skipped: whatever a retry left out had taken
\* effect, and the outcome is that of the holder's own log
\* (classifyWorkflowRunOutcome).
THEOREM CompletedRunsDelivered == Spec => []CompletedIsDelivered
<1>1. Init => TypeOK /\ Once /\ AllDone
  BY InitTyped, InitOnce, InitDone
<1>2. TypeOK /\ Once /\ AllDone /\ [Next]_vars => (TypeOK /\ Once /\ AllDone)'
  BY NextTyped, NextOnce, NextDone
<1>3. AllDone => CompletedIsDelivered
  BY DEF AllDone, RunDone
<1>4. QED
  BY <1>1, <1>2, <1>3, PTL DEF Spec
=============================================================================
