---------------------------- MODULE Appointments ----------------------------
(***************************************************************************)
(* Appointments of one merchant: the events of the provider's calendar     *)
(* move the appointment, the merchant's lead and the outreach pause, and   *)
(* hand a booking over to the provider's confirmation workflow.            *)
(*                                                                         *)
(* A delivery first decides and records the transition of the appointment, *)
(* then changes the lead, then makes its calls; each is a step of the      *)
(* receipt (WebhookReceipts).  A hand-over is noted in a ledger before the *)
(* request; one that is held is owed, and a recovery worker makes good on  *)
(* it unless the appointment ends first.                                   *)
(*                                                                         *)
(* The merchant exists, all calendars are sales calendars, and events name *)
(* the contact and an event time, so that none is rejected.  Calls that    *)
(* change nothing modelled here (stage sync, the workflows after a meeting)*)
(* are left out.                                                           *)
(***************************************************************************)
EXTENDS WebhookReceipts

CONSTANTS
  Appts,     \* appointments, in the order of their ids: numbers
  Scenarios  \* what the provider may send, as pairs <<event, content>>, and faults
ASSUME ApptsAreNumbers == Appts \subseteq Nat /\ None \notin Nat
ASSUME ScenariosAreBounded ==
  \A s \in Scenarios : s.sends \subseteq Events \X Contents /\ s.faults \in Nat

\* An event is [kind, appt, at, start]: at is its time, start the meeting's, or None.
VARIABLES
  appt,      \* ghl_appointment_state; booked: a booked event owns the one-time effect
  lead,      \* sdr_lead_state of the merchant
  paused,    \* sdr_compliance_state: the outreach pause
  plan,      \* results kept with the steps "transition", "local" and "confirm"
  owed,      \* deferred_ghl_enrollments: the confirmation of an appointment
  ledger,    \* ghl_workflow_handoff_dispatches of that confirmation
  confirmed, \* how often the provider took the confirmation
  answer,    \* what the provider answered a delivery
  recovery,  \* the recovery worker
  tardy,     \* deliveries that began after their appointment had ended otherwise
  cut,       \* canceled or missed appointments whose confirmation was not owed
             \* again since
  sent       \* what the provider sends: pairs of an event and a content

apptVars    == <<appt, lead, paused, plan>>
handoffVars == <<owed, ledger, confirmed, answer, recovery>>
history     == <<tardy, cut, sent>>
vars == <<receiptVars, apptVars, handoffVars, history>>

TERMINAL_STATUSES == {"showed", "canceled", "no_show"}
Kinds     == {"booked", "updated", "rescheduled"} \cup TERMINAL_STATUSES
ASSUME EventsAreTyped ==
  Events \subseteq [kind : Kinds, appt : Appts, at : Nat, start : Nat \cup {None}]
Stages    == {"none", "ENGAGED", "MEETING_SET", "STATEMENT_REQUESTED"}
Verdicts  == {"none", "apply", "ignore"}
Outcomes  == {"none", "over", "applied", "resumes"}
Owed      == {"none", "pending", "failed", "denied"}
Ledger    == {"none", "started", "accepted", "refused"}
Answers   == {"none", "accepted", "held", "rejected", "unknown"}
Working   == {"idle", "lock", "dispatch", "send", "settle", "retire", "park"}

\* The states of receipts, steps, appointments, obligations and the ledger are
\* those that their tables allow, and a claim names a delivery.
TypeOK ==
  /\ ReceiptsTypeOK
  /\ appt \in [Appts -> [status : Kinds \cup {"none"}, last : Nat,
                          start : Nat \cup {None}, booked : BOOLEAN]]
  /\ lead \in [stage : Stages, meeting : Appts \cup {None}] /\ paused \in BOOLEAN
  /\ plan \in [Events -> [verdict : Verdicts, outcome : Outcomes, handoff : Answers]]
  /\ owed \in [Appts -> Owed] /\ ledger \in [Appts -> Ledger]
  /\ confirmed \in [Appts -> 0 .. 2] /\ answer \in [Deliveries -> Answers]
  /\ recovery \in [point : Working, appt : Appts \cup {None}, answer : Answers]
  /\ tardy \subseteq Deliveries /\ cut \subseteq Appts /\ sent \in {s.sends : s \in Scenarios}

AtRest == [point |-> "idle", appt |-> None, answer |-> "none"]

Init ==
  /\ ReceiptsInit
  /\ appt = [a \in Appts |-> [status |-> "none", last |-> 0, start |-> None, booked |-> FALSE]]
  /\ lead = [stage |-> "none", meeting |-> None] /\ paused = FALSE
  /\ plan = [e \in Events |-> [verdict |-> "none", outcome |-> "none", handoff |-> "none"]]
  /\ owed = [a \in Appts |-> "none"] /\ ledger = [a \in Appts |-> "none"]
  /\ confirmed = [a \in Appts |-> 0] /\ answer = [d \in Deliveries |-> "none"]
  /\ recovery = AtRest /\ tardy = {} /\ cut = {}
  /\ \E s \in Scenarios : sent = s.sends /\ faults = s.faults

-----------------------------------------------------------------------------
(* The order of appointments and of their events *)

ApptOf(d)  == EventOf(d).appt
Ended(a)   == appt[a].status \in TERMINAL_STATUSES
Open       == {a \in Appts : appt[a].status # "none" /\ ~Ended(a)}

\* ghlAppointmentSuperseded
Superseded(e) == Ended(e.appt) /\ appt[e.appt].status # e.kind

Before(a, b) ==
  LET s == appt[a].start t == appt[b].start
  IN \/ s # None /\ (t = None \/ s < t)
     \/ s = t /\ a <= b

\* deriveCurrentAppointmentId: the earliest open appointment, or none.
Current == IF Open = {} THEN None ELSE CHOOSE a \in Open : \A b \in Open : Before(a, b)

\* transitionGhlAppointment: does the event own the effects of its kind?
Applies(e) ==
  LET x == appt[e.appt]
  IN \/ x.status = "none"
     \/ ~Ended(e.appt) /\ IF e.kind = "booked" THEN ~x.booked ELSE x.last < e.at

Recorded(e) ==
  LET x == appt[e.appt]
  IN IF x.status # "none" /\ e.kind = "booked"
     THEN [x EXCEPT !.booked = TRUE,
                    !.status = IF x.last < e.at THEN "booked" ELSE @,
                    !.last   = IF x.last < e.at THEN e.at ELSE @]
     ELSE [status |-> e.kind, last |-> e.at,
           start  |-> IF e.start = None THEN x.start ELSE e.start,
           booked |-> x.booked \/ e.kind = "booked"]

-----------------------------------------------------------------------------
(* The local step of each kind: what becomes of the lead, and what follows *)

Matches(a)  == lead.meeting \in {None, a}
HasLead     == lead.stage # "none"
Moved(a)    == IF HasLead THEN [lead EXCEPT !.meeting = a] ELSE lead
Effect(l, outcome) == [lead |-> l, outcome |-> outcome]

Booked(e) == Effect([stage |-> "MEETING_SET", meeting |-> Current], "applied")

Showed(e) ==
  IF HasLead /\ ~Matches(e.appt) THEN Effect(lead, "over")
  ELSE IF Current # None         THEN Effect(Moved(Current), "over")
  ELSE Effect([stage |-> "STATEMENT_REQUESTED", meeting |-> e.appt], "applied")

\* Slip: the end of any appointment ends the meeting stage.
EndedAny(e) ==
  IF lead.stage = "MEETING_SET"
  THEN Effect([stage |-> "ENGAGED", meeting |-> None],
              IF e.kind = "no_show" THEN "resumes" ELSE "applied")
  ELSE Effect(lead, "applied")

EndedOne(e) ==
  IF HasLead /\ ~Matches(e.appt)     THEN Effect(lead, "over")
  ELSE IF Current # None             THEN Effect(Moved(Current), "over")
  ELSE IF lead.stage = "MEETING_SET" THEN Effect([stage |-> "ENGAGED", meeting |-> None],
                                            IF e.kind = "no_show" THEN "resumes" ELSE "applied")
  ELSE Effect(lead, "applied")

TimeChange(e) ==
  Effect(IF lead.stage = "MEETING_SET" /\ Current # None THEN Moved(Current) ELSE lead, "over")

Local(e) ==
  IF e.kind \in TERMINAL_STATUSES \cup {"booked"} /\ Superseded(e)
  THEN Effect(lead, "over")
  ELSE CASE e.kind = "booked"                 -> Booked(e)
         [] e.kind = "showed"                 -> Showed(e)
         [] e.kind \in {"canceled", "no_show"} -> EndedOne(e)
         [] OTHER                             -> TimeChange(e)

\* The recovery holds the lock of an obligation from its last look at it on.
Locked(a) == recovery.appt = a /\ recovery.point \in {"dispatch", "send", "settle", "retire"}

\* A cancellation and a no-show retire what is owed; an appointment that was held
\* has ended too, and retires nothing.
EndsObligation(e) == e.kind \in {"canceled", "no_show"} /\ ~Superseded(e)

-----------------------------------------------------------------------------
(* Deliveries *)

Deliver(d, e, c) ==
  /\ <<e, c>> \in sent /\ ClaimReceipt(d, e, c)
  /\ tardy' = IF Superseded(e) THEN tardy \cup {d} ELSE tardy \ {d}
  /\ UNCHANGED <<apptVars, handoffVars, cut, sent>>

Transition(d) ==
  LET e == EventOf(d)
  IN /\ At(d, "transition")
     /\ \/ TxFails(d) /\ UNCHANGED <<appt, plan>>
        \/ /\ TxReplay(d, "transition", IF plan[e].verdict = "apply" THEN "local" ELSE "end", None)
           /\ UNCHANGED <<appt, plan>>
        \/ /\ TxCommit(d, "transition", IF Applies(e) THEN "local" ELSE "end", None)
           /\ plan' = [plan EXCEPT ![e].verdict = IF Applies(e) THEN "apply" ELSE "ignore"]
           /\ appt' = IF Applies(e) THEN [appt EXCEPT ![e.appt] = Recorded(e)] ELSE appt
     /\ UNCHANGED <<lead, paused, handoffVars, history>>

\* The calls that follow the local step: its outcome is kept for a redelivery.
FirstCall(e, outcome) ==
  CASE e.kind = "booked" /\ outcome = "applied" -> "pause"
    [] outcome = "resumes"                      -> "resume"
    [] OTHER                                    -> None
After(e, outcome) == IF FirstCall(e, outcome) = None THEN "end" ELSE "check"

LocalStep(d) ==
  LET e    == EventOf(d)
      kept == plan[e].outcome
      new  == Local(e).outcome
  IN /\ At(d, "local")
     /\ \/ TxFails(d) /\ UNCHANGED <<lead, plan, owed, cut>>
        \/ /\ TxReplay(d, "local", After(e, kept), FirstCall(e, kept))
           /\ UNCHANGED <<lead, plan, owed, cut>>
        \/ /\ TxCommit(d, "local", After(e, new), FirstCall(e, new))
           /\ lead' = Local(e).lead
           /\ plan' = [plan EXCEPT ![e].outcome = new]
           /\ IF EndsObligation(e)
              THEN /\ owed[e.appt] # "none" => ~Locked(e.appt)
                   /\ owed' = [owed EXCEPT ![e.appt] = IF @ = "pending" THEN "none" ELSE @]
                   /\ cut' = cut \cup {e.appt}
              ELSE UNCHANGED <<owed, cut>>
     /\ UNCHANGED <<appt, paused, ledger, confirmed, answer, recovery, tardy, sent>>

StepClaim(d) ==
  /\ ClaimRow(d, IF StepOf(d) = "confirm" THEN "dispatch" ELSE "call",
              IF StepOf(d) = "pause" THEN "recheck" ELSE "end")
  /\ UNCHANGED <<apptVars, handoffVars, history>>

Call(d) ==
  /\ At(d, "call")
  /\ \/ paused' = (StepOf(d) = "pause") /\ GoTo(d, "complete") /\ UNCHANGED faults
     \/ Faulty /\ GoTo(d, "release") /\ UNCHANGED paused
  /\ UNCHANGED <<receipt, row, acked, appt, lead, plan, handoffVars, history>>

\* The result of the call is kept with the completed step.
StepDone(d) ==
  /\ CompleteRow(d, IF StepOf(d) = "pause" THEN "recheck" ELSE "end")
  /\ plan' = IF row' # row /\ StepOf(d) = "confirm"
             THEN [plan EXCEPT ![EventOf(d)].handoff = answer[d]] ELSE plan
  /\ answer' = [answer EXCEPT ![d] = "none"]
  /\ UNCHANGED <<appt, lead, paused, owed, ledger, confirmed, recovery, history>>

\* Slip: the confirmation is the booking's, whatever became of it since.
RecheckNothing(d) ==
  /\ At(d, "recheck")
  /\ Begin(d, "check", "confirm")
  /\ UNCHANGED <<receipt, row, acked, faults, apptVars, handoffVars, history>>

\* Before the confirmation, and only there, a booking that has ended stops.
Recheck(d) ==
  /\ At(d, "recheck")
  /\ IF Superseded(EventOf(d)) THEN Begin(d, "end", None) ELSE Begin(d, "check", "confirm")
  /\ UNCHANGED <<receipt, row, acked, faults, apptVars, handoffVars, history>>

-----------------------------------------------------------------------------
(* The hand-over to the confirmation workflow *)

\* Slip: a request that was started and never settled is made again.
MayStartAgain(a) == ledger[a] # "accepted"

\* claimHandoffDispatch
MayStart(a) == ledger[a] \in {"none", "refused"}

Start(a) == ledger' = [ledger EXCEPT ![a] = "started"]

\* Slip: the ledger keeps the reply.
SettleAsReplied(a, reply) == ledger' = [ledger EXCEPT ![a] = IF @ = "started" THEN reply ELSE @]

Settle(a, reply) ==
  ledger' = CASE reply = "accepted"             -> [ledger EXCEPT ![a] = IF @ = "started" THEN "accepted" ELSE @]
              [] reply \in {"held", "rejected"} -> [ledger EXCEPT ![a] = IF @ = "started" THEN "refused" ELSE @]
              [] OTHER                          -> ledger

Expected == {"accepted", "held"}  \* the other replies count as faults

\* The provider takes the request, or not; "unknown": the reply is lost.
Reply(a, reply) ==
  \/ /\ reply \in {"accepted", "unknown"}
     /\ confirmed' = [confirmed EXCEPT ![a] = IF @ = 2 THEN 2 ELSE @ + 1]
  \/ reply \in {"held", "rejected", "unknown"} /\ UNCHANGED confirmed

Dispatch(d) ==
  /\ At(d, "dispatch")
  /\ \/ MayStart(ApptOf(d)) /\ Start(ApptOf(d)) /\ GoTo(d, "send") /\ UNCHANGED answer
     \/ /\ ~MayStart(ApptOf(d)) /\ GoTo(d, "complete")
        /\ answer' = [answer EXCEPT ![d] =
                         IF ledger[ApptOf(d)] = "accepted" THEN "accepted" ELSE "unknown"]
        /\ UNCHANGED ledger
  /\ UNCHANGED <<receipt, row, acked, faults, apptVars, owed, confirmed, recovery, history>>

Send(d) ==
  /\ At(d, "send")
  /\ \E reply \in Answers \ {"none"} :
       /\ (reply \in Expected /\ UNCHANGED faults) \/ (reply \notin Expected /\ Faulty)
       /\ Reply(ApptOf(d), reply)
       /\ answer' = [answer EXCEPT ![d] = reply]
  /\ GoTo(d, "settle")
  /\ UNCHANGED <<receipt, row, acked, apptVars, owed, ledger, recovery, history>>

\* A settlement that fails leaves "started"; a rejection throws.
SettleSent(d) ==
  /\ At(d, "settle")
  /\ \/ Settle(ApptOf(d), answer[d]) /\ UNCHANGED faults
     \/ Faulty /\ UNCHANGED ledger
  /\ GoTo(d, CASE answer[d] = "held" -> "defer" [] answer[d] = "rejected" -> "release"
                [] OTHER -> "complete")
  /\ UNCHANGED <<receipt, row, acked, apptVars, owed, confirmed, answer, recovery, history>>

\* Slip: what was to be deferred is taken to be deferred.
DeferUnchecked(d) ==
  /\ At(d, "defer")
  /\ GoTo(d, "complete")
  /\ \/ /\ owed' = [owed EXCEPT ![ApptOf(d)] = IF @ = "failed" THEN @ ELSE "pending"]
        /\ cut' = cut \ {ApptOf(d)} /\ UNCHANGED faults
     \/ Faulty /\ UNCHANGED <<owed, cut>>
  /\ UNCHANGED <<receipt, row, acked, apptVars, ledger, confirmed, answer, recovery, tardy, sent>>

\* deferGhlEnrollment: what could not be made durable throws.
Defer(d) ==
  /\ At(d, "defer")
  /\ \/ /\ owed[ApptOf(d)] # "failed"
        /\ owed' = [owed EXCEPT ![ApptOf(d)] = "pending"]
        /\ cut' = cut \ {ApptOf(d)} /\ GoTo(d, "complete") /\ UNCHANGED faults
     \/ /\ (owed[ApptOf(d)] = "failed" /\ UNCHANGED faults) \/ Faulty
        /\ GoTo(d, "release") /\ UNCHANGED <<owed, cut>>
  /\ UNCHANGED <<receipt, row, acked, apptVars, ledger, confirmed, answer, recovery, tardy, sent>>

-----------------------------------------------------------------------------
(* The recovery worker *)

RecoveryAt(point)   == recovery.point = point
RecoveryGoes(point) == recovery' = [recovery EXCEPT !.point = point]
RecoveryFrame == UNCHANGED <<receipt, row, task, acked, apptVars, answer, history>>

\* retryDeferredEnrollments claims what is due.
Recover(a) ==
  /\ RecoveryAt("idle") /\ owed[a] = "pending"
  /\ recovery' = [point |-> "lock", appt |-> a, answer |-> "none"]
  /\ UNCHANGED <<owed, ledger, confirmed, faults>> /\ RecoveryFrame

\* Slip: what was claimed is dispatched.
LockClaimed ==
  /\ RecoveryAt("lock")
  /\ RecoveryGoes("dispatch")
  /\ UNCHANGED <<owed, ledger, confirmed, faults>> /\ RecoveryFrame

\* Under the lock the obligation is read again.
Lock ==
  /\ RecoveryAt("lock")
  /\ IF owed[recovery.appt] = "pending" THEN RecoveryGoes("dispatch") ELSE recovery' = AtRest
  /\ UNCHANGED <<owed, ledger, confirmed, faults>> /\ RecoveryFrame

DispatchRecovered ==
  LET a == recovery.appt
  IN /\ RecoveryAt("dispatch")
     /\ \/ MayStart(a) /\ Start(a) /\ RecoveryGoes("send") /\ UNCHANGED owed
        \/ /\ ledger[a] = "accepted" /\ owed' = [owed EXCEPT ![a] = "none"]
           /\ recovery' = AtRest /\ UNCHANGED ledger
        \/ /\ ~MayStart(a) /\ ledger[a] = "started"
           /\ recovery' = [recovery EXCEPT !.point = "park", !.answer = "unknown"]
           /\ UNCHANGED <<owed, ledger>>
     /\ UNCHANGED <<confirmed, faults>> /\ RecoveryFrame

SendRecovered ==
  /\ RecoveryAt("send")
  /\ \E reply \in Answers \ {"none"} :
       /\ (reply \in Expected /\ UNCHANGED faults) \/ (reply \notin Expected /\ Faulty)
       /\ Reply(recovery.appt, reply)
       /\ recovery' = [recovery EXCEPT !.point = "settle", !.answer = reply]
  /\ UNCHANGED <<owed, ledger>> /\ RecoveryFrame

SettleRecovered ==
  /\ RecoveryAt("settle")
  /\ \/ Settle(recovery.appt, recovery.answer) /\ UNCHANGED faults
     \/ Faulty /\ UNCHANGED ledger
  /\ RecoveryGoes("retire")
  /\ UNCHANGED <<owed, confirmed>> /\ RecoveryFrame

\* The transaction commits and releases the lock; what was taken is retired in it.
Retire ==
  LET a == recovery.appt
  IN /\ RecoveryAt("retire")
     /\ owed' = IF recovery.answer = "accepted" THEN [owed EXCEPT ![a] = "none"] ELSE owed
     /\ IF recovery.answer \in {"accepted", "held"} THEN recovery' = AtRest ELSE RecoveryGoes("park")
     /\ UNCHANGED <<ledger, confirmed, faults>> /\ RecoveryFrame

\* parkUnknownOutcome; a denial retires the obligation, a spent budget fails it.
Park ==
  LET a == recovery.appt
  IN /\ RecoveryAt("park")
     /\ \E end \in IF recovery.answer = "unknown" THEN {"failed"} ELSE {"failed", "denied"} :
          owed' = [owed EXCEPT ![a] = IF @ = "none" THEN @ ELSE end]
     /\ recovery' = AtRest
     /\ UNCHANGED <<ledger, confirmed, faults>> /\ RecoveryFrame

RecoveryDies ==
  /\ recovery # AtRest /\ Faulty /\ recovery' = AtRest
  /\ UNCHANGED <<owed, ledger, confirmed>> /\ RecoveryFrame

RecoveryStep == Lock \/ DispatchRecovered \/ SendRecovered \/ SettleRecovered \/ Retire \/ Park

-----------------------------------------------------------------------------
ReceiptFrame == UNCHANGED <<apptVars, handoffVars, history>>

Forget(d) == /\ answer' = [answer EXCEPT ![d] = "none"]
             /\ UNCHANGED <<apptVars, owed, ledger, confirmed, recovery, history>>

DeliveryStep(d) ==
  \/ Transition(d) \/ LocalStep(d) \/ StepClaim(d) \/ Call(d) \/ StepDone(d) \/ Recheck(d)
  \/ Dispatch(d) \/ Send(d) \/ SettleSent(d) \/ Defer(d)
  \/ (CheckClaim(d) \/ End(d) \/ Refuse(d)) /\ ReceiptFrame
  \/ ReleaseRow(d) /\ Forget(d)

Next ==
  \/ \E d \in Deliveries : DeliveryStep(d) \/ (Renew(d) /\ ReceiptFrame)
  \/ \E d \in Deliveries : Die(d) /\ Forget(d)
  \/ \E d \in Deliveries, e \in Events, c \in Contents : Deliver(d, e, c)
  \/ \E m \in sent : AckDuplicate(m[1], m[2]) /\ ReceiptFrame
  \/ \E e \in Events : LapseReceipt(e) /\ ReceiptFrame
  \/ \E e \in Events, s \in CallSteps : LapseRow(e, s) /\ ReceiptFrame
  \/ \E a \in Appts : Recover(a)
  \/ RecoveryStep \/ RecoveryDies

Spec == Init /\ [][Next]_vars

-----------------------------------------------------------------------------
(* Properties *)

\* What is acknowledged is done: the receipt is applied with the content that
\* the provider was told was received, every completed step ran with that
\* content, and each step its results call for is completed, but for a
\* confirmation whose appointment has ended (ghl-webhook-receipts.ts).
AckedIsDone ==
  \A e \in Events : acked[e] # {} =>
    /\ receipt[e].state = "applied" /\ acked[e] = {receipt[e].content}
    /\ \A s \in Steps : row[e][s].state = "done" => row[e][s].of = receipt[e].content
    /\ row[e]["transition"].state = "done"
    /\ plan[e].verdict = "apply" => row[e]["local"].state = "done"
    /\ FirstCall(e, plan[e].outcome) # None =>
         row[e][FirstCall(e, plan[e].outcome)].state = "done"
    /\ FirstCall(e, plan[e].outcome) = "pause" =>
         row[e]["confirm"].state = "done" \/ Superseded(e)

\* When every event that came is through, the lead points at the earliest open
\* appointment, and it is in the meeting stage if a booked one is open,
\* whatever the order and the overlap of the events (scheduling.ts).
PointerIsCurrent ==
  (\A e \in Events : receipt[e].state \in {"none", "applied"}) =>
    /\ lead.stage = "MEETING_SET" => lead.meeting = Current
    /\ (\E a \in Open : appt[a].booked) => lead.stage = "MEETING_SET"

\* The provider takes one confirmation of an appointment, although deliveries
\* and the recovery worker repeat the request (ghl-handoff-dispatch-ledger.ts).
ConfirmedOnce == \A a \in Appts : confirmed[a] <= 1

\* A booking that reports "enrolled" has the provider's acceptance; one that
\* reports "held" is not lost: the confirmation was taken since, is owed, was
\* given up for good (parked, or dropped with no more than a warning in the log
\* of the server), or its appointment ended.
HandoffIsOwned ==
  \A e \in Events :
    /\ plan[e].handoff = "accepted" => confirmed[e.appt] = 1
    /\ plan[e].handoff = "held" =>
         confirmed[e.appt] = 1 \/ owed[e.appt] # "none" \/ Ended(e.appt)

RecoverySends == RecoveryAt("send") /\ recovery'.point = "settle"
Sends(d)      == At(d, "send") /\ task'[d].point = "settle"

\* What was owed when an appointment was canceled or missed is never sent after,
\* not even when the worker had claimed it before: the recovery sends for such an
\* appointment only what was deferred later.  For one that was held ("showed")
\* nothing of the kind is true: what was owed before is still sent.
CanceledIsNotRecovered == [][RecoverySends => recovery.appt \notin cut]_vars

\* A delivery that begins after its appointment ended sends no confirmation.
TardySendsNothing == [][\A d \in Deliveries : Sends(d) => d \notin tardy]_vars
=============================================================================
